\* Nothing fails.
SPECIFICATION Spec
CONSTANTS
    c1 = c1  js = js  bin = bin
    Requests = {r1, r2}
    Paths = {js}
    Contents = {c1}
    ContentOf <- OneName
    Compressible = {js}
    Faults = {}
INVARIANT AdditionalHydrationHarmless
CHECK_DEADLOCK FALSE
