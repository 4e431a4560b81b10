\* Rolling deploys between two builds of /static; the origin can also answer with
\* an error or without the header.
SPECIFICATION FairSpec
CONSTANTS
    Requests = {r1, r2}
    Prefixes = {"/static"}
    Versions <- TwoVersions
    FirstLive <- OneVersion
    Trees = {t1, t2, t3}
    Faults = TRUE
INVARIANTS NeverStuckStale
PROPERTIES NeverDetached EventuallyCurrent
