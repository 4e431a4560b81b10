\* Up to three frontends in every order, every request, an IP rules file, and every
\* kind of backend.
SPECIFICATION BackendSpec
CONSTANTS
    Hosts <- MCHosts
    Malformed <- MCMalformed
    Catalogue <- MCCatalogue
    MaxFrontends = 3
    Paths <- MCPaths
    Addresses <- MCAddresses
    AllowAll <- MCAllowAll
    AllowOnly <- MCAllowOnly
    BackendOf <- MCBackendOf
    Clients <- MCClients
    S3Origin <- MCS3Origin
    Manifests <- MCManifests
INVARIANTS MostSpecificWins RemainderIsKept BackendGuarded
INVARIANTS AuthorizedOnly AskedRelative SuccessIsTrue
\* one request, which ends
CHECK_DEADLOCK FALSE
