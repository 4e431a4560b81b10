\* Four files, two directories, three workers; deploys until a manifest is stored, then downloads.
SPECIFICATION FairSpec
CONSTANTS
    Children <- MCChildren
    Content <- MCContent
    Foreign <- MCForeign
    PathOrder <- ByName
    Dotted = {"."}
    Workers = {w1, w2, w3}
    NoFile = NoFile
    Missing = Missing
    Partial = Partial
    MaxManifests = 1
INVARIANTS ManifestComplete RoundTrip
PROPERTY DeployEnds
