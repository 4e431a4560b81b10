\* One content under a name that is compressed and one that is not, every fault.
SPECIFICATION FairSpec
CONSTANTS
    c1 = c1  js = js  bin = bin
    Requests = {r1, r2, r3}
    Paths = {js, bin}
    Contents = {c1}
    ContentOf <- TwoNames
    Compressible = {js}
    Faults = {"cacheRead", "originGet", "originRead", "cacheWrite"}
INVARIANTS OneDownload NobodyFails
PROPERTIES CachedNeedsNoOrigin EveryRequestAnswered
\* requests that have been answered do not come again, and a hydration can hang
CHECK_DEADLOCK FALSE
