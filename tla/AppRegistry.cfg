\* Two operators, and a router that reads in batches and restarts, while the
\* stream gets MaxLog events.  Routers share nothing but the stream: what holds
\* of one holds of each.
SPECIFICATION RegistryFairSpec
CONSTANTS
    Operators = {o1, o2}
    Routers = {r1}
    IDs = {a, b}
    Frontends = {"f1"}
    Kinds = {"s3"}
    Versions = {"v1"}
    MaxLog = 4
INVARIANTS ViewIsPrefix
PROPERTY RoutersConverge
