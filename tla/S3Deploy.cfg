\* More files than the channel and the workers hold.
SPECIFICATION FairSpec
CONSTANTS
    Files = {f1, f2, f3, f4, f5}
    DeploymentSpec = DeploymentSpec
    NoItem = NoItem
    Workers = {w1, w2}
INVARIANTS AtomicDeploy
PROPERTY DeployEnds
\* a deploy ends
CHECK_DEADLOCK FALSE
