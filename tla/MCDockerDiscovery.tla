-------------------------- MODULE MCDockerDiscovery --------------------------
(* One service with two tasks, one of which runs here and shows up as a    *)
(* container, too; a container of a compose project, one in the network of *)
(* the host, and one that is in docker_gwbridge next to the overlay.       *)
EXTENDS DockerDiscovery

Label(rule, protocol, skipVerify, port, auth, token, tenant) ==
    [rule |-> rule, protocol |-> protocol, skipVerify |-> skipVerify, port |-> port,
     auth |-> auth, token |-> token, tenant |-> tenant]

Sub(kind, value) == [kind |-> kind, value |-> value]

Contained(runs, project, name, networks, gwbridge) ==
    [task |-> runs, project |-> project, name |-> name, networks |-> networks,
     gwbridge |-> gwbridge]

MCNetworkNames == {"overlay", "bridge", "docker_gwbridge", "_auto_"}
MCAttached == [s \in {"web"} |-> {"overlay"}]
MCServiceOf == [t \in {"t1", "t2"} |-> "web"]

MCAbout ==
    "c1" :> Contained("t1", "", "/web.1.x", {"overlay"}, TRUE) @@
    "c2" :> Contained("", "proj", "/proj-db-1", {"bridge", "overlay"}, FALSE) @@
    "c3" :> Contained("", "", "/agent", {"host"}, FALSE)

\* The service's own labels are not its containers'; those of c3 lack auth.
MCLabels ==
    "web" :> Label(<<Sub("Host", "web.net"), Sub("PathPrefix", "/a")>>,
                   "https", "true", "", "sso", "", "t-1") @@
    "c1" :> Label(<<Sub("HostRegexp", "w.*")>>, NoLabel, NoLabel, "8080", "public", "", "") @@
    "c2" :> Label(<<Sub("Host", "proj.net")>>, "http", NoLabel, "", "bearer_token", "secret", "") @@
    "c3" :> Label(<<Sub("Host", "agent.net")>>, NoLabel, NoLabel, "", "", "", "")
=============================================================================
