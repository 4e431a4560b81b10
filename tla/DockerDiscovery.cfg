\* MaxChanges things happen in Docker, at any time before, during and between
\* reads: from an empty Swarm, and from one with its tasks placed or about to be.
SPECIFICATION Spec
CONSTANTS
    NetworkNames <- MCNetworkNames
    Nodes = {n1, n2}
    LocalNode = n1
    Services = {"web"}
    Attached <- MCAttached
    Tasks = {"t1", "t2"}
    ServiceOf <- MCServiceOf
    Containers = {"c1", "c2", "c3"}
    About <- MCAbout
    Labels <- MCLabels
    Lives = {1, 2}
    MaxChanges = 3
INVARIANTS KeptThroughout NothingMore ReadsSurviveGrowth
