--------------------------- MODULE DockerDiscovery ---------------------------
(***************************************************************************)
(* Applications found in Docker and Docker Swarm (erdiscovery/             *)
(* dockerdiscovery): ReadApplications makes four or five calls one after   *)
(* the other - tasks, services, nodes, containers, and for docker_gwbridge *)
(* sometimes an inspect - while things come and go in Docker, puts the     *)
(* answers together (docker.go:80-354), and translates labels to           *)
(* applications (traefikannotations.go).                                   *)
(*                                                                         *)
(* Docker is external: a task gets its addresses, then a node, and may     *)
(* outlive both its service and its node.  What udocker's endpoints list   *)
(* is not in this repository: here the task list has every task that there *)
(* is, the container list the containers that run on this node.            *)
(***************************************************************************)
EXTENDS Naturals, FiniteSets, SequencesExt

CONSTANTS
    NetworkNames, \* values of NETWORK_NAME
    Nodes,        \* Swarm nodes
    LocalNode,    \* the one whose Docker is asked
    Services,     \* Swarm services, by name
    Attached,     \* [Services -> the networks its tasks are attached to]
    Tasks,
    ServiceOf,    \* [Tasks -> Services]
    Containers,   \* bare containers, and those that run tasks on this node
    About,        \* [Containers -> what the list says of each, see below]
    Labels,       \* [Services \cup Containers -> labels], see LabelSets
    Lives,        \* marks of a container's starts: addresses change with them
    MaxChanges    \* so many things happen in Docker

Empty == ""
NoLabel == "absent"

\* An absent label is as good as an empty one, except for protocol and skipVerify,
\* which may be NoLabel; an absent or empty rule is <<>>.
LabelSets ==
    [rule : Seq([kind : STRING, value : STRING]), protocol : STRING,
     skipVerify : STRING, port : STRING, auth : STRING, token : STRING,
     tenant : STRING]

\* The task it runs or Empty, the label com.docker.compose.project, Names[0], the
\* networks that the list shows, and whether docker_gwbridge has it as well.
Descriptions ==
    [task : Tasks \cup {Empty}, project : STRING, name : STRING,
     networks : SUBSET STRING, gwbridge : BOOLEAN]

\* A task has one container.
ASSUME DockerAssumption ==
    /\ LocalNode \in Nodes
    /\ Nodes \cap {"none", "new", "pending"} = {}
    /\ Tasks \cap Containers = {}
    /\ Empty \notin Services
    /\ Attached \in [Services -> SUBSET NetworkNames]
    /\ ServiceOf \in [Tasks -> Services]
    /\ About \in [Containers -> Descriptions]
    /\ \A c \in Containers : IsFiniteSet(About[c].networks)
    /\ \A c, d \in Containers : About[c].task = About[d].task => c = d \/ About[c].task = Empty
    /\ Labels \in [Services \cup Containers -> LabelSets]
    /\ Lives \subseteq Nat \ {0} /\ Lives # {}
    /\ MaxChanges \in Nat

VARIABLES
    network,    \* dockerNetworkName
    nodes,      \* Docker: the nodes of the Swarm
    services,   \* its services
    task,       \* [Tasks -> "none", "new", "pending" (has addresses) or a node]
    life,       \* [Containers -> 0, or the mark of its start]
    changes,    \* number of changes so far
    pc,         \* "idle", the call to be made next, or how the read ended
    got,        \* what the calls of this read have returned
    result,     \* the applications it returns
    through,    \* history: what was wanted all through the read
    seen,       \* history: the addresses there were at some time in it
    orphaned    \* history: a node left in it, or was gone from a task before

dockerVars == <<nodes, services, task, life, changes>>
readVars == <<pc, got, result>>
history == <<through, seen, orphaned>>
vars == <<network, dockerVars, readVars, history>>

Calls == {"tasks", "services", "nodes", "containers", "inspect"}
Ends == {"ok", "call failed", "no address", "node missing"}

TypeOK ==
    /\ network \in NetworkNames
    /\ nodes \subseteq Nodes /\ services \subseteq Services
    /\ task \in [Tasks -> {"none", "new", "pending"} \cup Nodes]
    /\ life \in [Containers -> {0} \cup Lives]
    /\ changes \in 0..MaxChanges
    /\ pc \in {"idle"} \cup Calls \cup Ends
    /\ got.tasks \in [Tasks -> {"none", "new", "pending"} \cup Nodes]
    /\ got.services \subseteq Services /\ got.nodes \subseteq Nodes
    /\ got.containers \in [Containers -> {0} \cup Lives]
    /\ got.inspect \subseteq [Containers -> {0} \cup Lives] /\ Cardinality(got.inspect) <= 1
    /\ result # {} => pc = "ok"
    /\ orphaned \in BOOLEAN

-----------------------------------------------------------------------------
(* Addresses                                                               *)

\* A task's address goes with the task; other addresses with the container's
\* start.
AddressOf(c, net, mark) ==
    IF About[c].task # Empty /\ net \in Attached[ServiceOf[About[c].task]]
    THEN [of |-> About[c].task, net |-> net, mark |-> 1]
    ELSE [of |-> c, net |-> net, mark |-> mark]

TaskAddress(t) == [of |-> t, net |-> network, mark |-> 1]

Loopback == [of |-> "host", net |-> "host", mark |-> 0]
NoAddress == [of |-> Empty, net |-> Empty, mark |-> 0]

\* The first that is not empty.
Coalesce(items, empty) ==
    LET filled == {i \in DOMAIN items : items[i] # empty}
    IN IF filled = {} THEN empty ELSE items[Min(filled)]

\* The name of a container: the compose project, or the Swarm service, or its own.
ServiceName(c) ==
    Coalesce(<<About[c].project,
               IF About[c].task = Empty THEN Empty ELSE ServiceOf[About[c].task],
               About[c].name>>, Empty)

-----------------------------------------------------------------------------
(* What is in Docker                                                       *)

Addresses ==
    {TaskAddress(t) : t \in {u \in Tasks : /\ task[u] \notin {"none", "new"}
                                         /\ network \in Attached[ServiceOf[u]]}} \cup
    UNION {{IF net = "host" THEN Loopback ELSE AddressOf(c, net, life[c]) :
               net \in About[c].networks \cup
                   IF About[c].gwbridge THEN {"docker_gwbridge"} ELSE {}} :
           c \in {d \in Containers : life[d] # 0}}

Wanted(as, name, labels, addr) == [as |-> as, name |-> name, labels |-> labels, addr |-> addr]

\* What is in the network that was asked for: tasks that run, of services that
\* exist, and containers; with "_auto_", containers that are in one network only.
WantedNow ==
    {Wanted("task", ServiceOf[t], Labels[ServiceOf[t]], TaskAddress(t)) :
        t \in {u \in Tasks : /\ task[u] \in nodes
                             /\ ServiceOf[u] \in services
                             /\ network \in Attached[ServiceOf[u]]}} \cup
    UNION {{Wanted("container", ServiceName(c), Labels[c], AddressOf(c, net, life[c])) :
               net \in {n \in About[c].networks \ {"host"} :
                           \/ n = network
                           \/ network = "_auto_" /\ About[c].networks = {n}}
                   \cup IF network = "docker_gwbridge" /\ About[c].gwbridge
                           /\ About[c].networks \cap {"bridge", "host"} = {}
                        THEN {network} ELSE {}} :
           c \in {d \in Containers : life[d] # 0 /\ About[d].name # Empty}}

Orphaned == \E t \in Tasks : task[t] \in Nodes \ nodes

\* The container of a task runs where the task has been placed.
MayRun(c) == About[c].task # Empty => task[About[c].task] = LocalNode

\* The locals of a read.
NothingRead == [tasks |-> [t \in Tasks |-> "none"], services |-> {}, nodes |-> {},
                containers |-> [c \in Containers |-> 0], inspect |-> {}]

Init ==
    /\ network \in NetworkNames
    /\ nodes = Nodes
    /\ \/ services = {} /\ task = [t \in Tasks |-> "none"]
       \/ services = Services /\ task \in [Tasks -> {"pending"} \cup Nodes]
    /\ life = [c \in Containers |-> IF MayRun(c) THEN CHOOSE mark \in Lives : TRUE ELSE 0]
    /\ changes = 0
    /\ pc = "idle"
    /\ got = NothingRead
    /\ result = {}
    /\ through = {} /\ seen = {} /\ orphaned = FALSE

Change ==
    /\ changes < MaxChanges
    /\ changes' = changes + 1
    /\ UNCHANGED <<network, readVars>>

\* History is kept while a read is on.
Observe ==
    IF pc \in {"idle"} \cup Ends THEN UNCHANGED history
    ELSE /\ through' = through \cap WantedNow'
         /\ seen' = seen \cup Addresses'
         /\ orphaned' = (orphaned \/ ~(nodes \subseteq nodes'))

NodeChanges ==
    /\ Change
    /\ \/ \E n \in Nodes \ nodes : nodes' = nodes \cup {n}
       \/ \E n \in nodes \ {LocalNode} : nodes' = nodes \ {n}
    /\ UNCHANGED <<services, task, life>>
    /\ Observe

ServiceChanges ==
    /\ Change
    /\ \/ \E s \in Services \ services : services' = services \cup {s}
       \/ \E s \in services : services' = services \ {s}
    /\ UNCHANGED <<nodes, task, life>>
    /\ Observe

\* A task is made, allocated, assigned to a node, and removed at any point.
TaskChanges(t) ==
    /\ Change
    /\ \/ task[t] = "none" /\ ServiceOf[t] \in services /\ task' = [task EXCEPT ![t] = "new"]
       \/ task[t] = "new" /\ task' = [task EXCEPT ![t] = "pending"]
       \/ task[t] = "pending" /\ \E n \in nodes : task' = [task EXCEPT ![t] = n]
       \/ task[t] # "none" /\ task' = [task EXCEPT ![t] = "none"]
    /\ UNCHANGED <<nodes, services, life>>
    /\ Observe

ContainerChanges(c) ==
    /\ Change
    /\ \/ life[c] # 0 /\ life' = [life EXCEPT ![c] = 0]
       \/ /\ life[c] = 0
          /\ MayRun(c)
          /\ \E mark \in Lives : life' = [life EXCEPT ![c] = mark]
    /\ UNCHANGED <<nodes, services, task>>
    /\ Observe

-----------------------------------------------------------------------------
(* discoverSwarmServices                                                   *)

\* Tasks of a service that have an address in the network, and a node.
Placed(s) ==
    {t \in Tasks : /\ ServiceOf[t] = s
                   /\ network \in Attached[s]
                   /\ got.tasks[t] \notin {"none", "new", "pending"}}

\* What is attached to the network need not have an address, or one that can be
\* read, yet: attachment.Addresses[0] panics, or ParseCIDR fails.
Unaddressed ==
    \E t \in Tasks : /\ ServiceOf[t] \in got.services
                    /\ network \in Attached[ServiceOf[t]]
                    /\ got.tasks[t] = "new"

NodeMissing == \E s \in got.services : \E t \in Placed(s) : got.tasks[t] \notin got.nodes

\* Fault: services without instances are advertised as well.
AllServices ==
    {[name |-> s, labels |-> Labels[s], addrs |-> {TaskAddress(t) : t \in Placed(s)}] :
        s \in got.services}

SwarmServices ==
    {[name |-> s, labels |-> Labels[s], addrs |-> {TaskAddress(t) : t \in Placed(s)}] :
        s \in {u \in got.services : Placed(u) # {}}}

-----------------------------------------------------------------------------
(* discoverDockerContainers                                                *)

\* The list shows no address in the host network.
ListedAddress(c, net) ==
    IF net \in About[c].networks \ {"host"}
    THEN AddressOf(c, net, got.containers[c])
    ELSE NoAddress

\* In this order: the only network, the one asked for, the bridge, the host.
ContainerAddress(c) ==
    Coalesce(<<IF network = "_auto_" /\ Cardinality(About[c].networks) = 1
               THEN ListedAddress(c, CHOOSE net \in About[c].networks : TRUE)
               ELSE NoAddress,
               ListedAddress(c, network),
               ListedAddress(c, "bridge"),
               IF "host" \in About[c].networks THEN Loopback ELSE NoAddress>>,
             NoAddress)

\* With what docker_gwbridge says of the container, as the last resort.
InspectedAddress(c) ==
    IF ContainerAddress(c) # NoAddress THEN ContainerAddress(c)
    ELSE IF \E inspected \in got.inspect : inspected[c] # 0 /\ About[c].gwbridge
         THEN LET inspected == CHOOSE i \in got.inspect : TRUE
              IN AddressOf(c, "docker_gwbridge", inspected[c])
         ELSE NoAddress

Listed == {c \in Containers : got.containers[c] # 0 /\ About[c].name # Empty}

\* gwbridgeNetworkInspectOnce: when a container needs it, and once in a read.
NeedsInspect ==
    /\ network = "docker_gwbridge" /\ got.inspect = {}
    /\ \E c \in Listed : ContainerAddress(c) = NoAddress

\* Fault: what Swarm's catalogue has is added, too.
AllContainers ==
    {[name |-> ServiceName(c), labels |-> Labels[c], addrs |-> {InspectedAddress(c)}] :
        c \in {d \in Listed : InspectedAddress(d) # NoAddress}}

\* svcsContains keeps out what Swarm's catalogue has.
BareContainers ==
    {[name |-> ServiceName(c), labels |-> Labels[c], addrs |-> {InspectedAddress(c)}] :
        c \in {d \in Listed : /\ InspectedAddress(d) # NoAddress
                              /\ \A s \in SwarmServices : s.name # ServiceName(d)}}

-----------------------------------------------------------------------------
(* traefikAnnotationsToApp                                                 *)

\* parseTraefikFrontendRule: the last of each kind counts.
RuleKinds == {"Host", "PathPrefix", "HostRegexp"}
ParseRule(rule) ==
    FoldLeft(LAMBDA parsed, sub : [parsed EXCEPT ![sub.kind] = sub.value],
             [kind \in RuleKinds |-> Empty], rule)

Scheme(labels) == IF labels.protocol = NoLabel THEN "http" ELSE labels.protocol

Port(labels) == IF labels.port # Empty THEN labels.port
                ELSE IF Scheme(labels) = "http" THEN "80" ELSE "443"

\* Fault: public unless the labels say something else.
AuthByDefault(labels) ==
    \/ labels.auth \notin {"bearer_token", "sso"}
    \/ labels.auth = "bearer_token" /\ labels.token # Empty
    \/ labels.auth = "sso" /\ labels.tenant # Empty

AuthSupported(labels) ==
    \/ labels.auth = "public"
    \/ labels.auth = "bearer_token" /\ labels.token # Empty
    \/ labels.auth = "sso" /\ labels.tenant # Empty

\* The others are skipped: without a rule silently, otherwise with an error logged.
Supported(labels) ==
    /\ labels.rule # <<>>
    /\ Scheme(labels) \in {"http", "https"}
    /\ labels.skipVerify # NoLabel => labels.skipVerify = "true" /\ Scheme(labels) = "https"
    /\ \A i \in DOMAIN labels.rule : labels.rule[i].kind \in RuleKinds
    /\ LET parsed == ParseRule(labels.rule)
       IN parsed["Host"] # Empty \/ parsed["HostRegexp"] # Empty
    /\ AuthSupported(labels)

Frontend(labels) ==
    LET parsed == ParseRule(labels.rule)
    IN [kind |-> IF parsed["Host"] # Empty THEN "hostname" ELSE "hostname_regexp",
        host |-> Coalesce(<<parsed["Host"], parsed["HostRegexp"]>>, Empty),
        prefix |-> Coalesce(<<parsed["PathPrefix"], "/">>, Empty)]

\* The auth backend around the reverse proxy backend, and what lets one through.
Guard(name, labels) ==
    CASE labels.auth = "bearer_token" -> <<"auth_v0", labels.token>>
      [] labels.auth = "sso" -> <<"auth_sso", labels.tenant, name>>
      [] OTHER -> <<"none">>

App(service) ==
    [id |-> service.name,
     frontend |-> Frontend(service.labels),
     origins |-> [scheme : {Scheme(service.labels)}, addr : service.addrs,
                  port : {Port(service.labels)}],
     insecure |-> service.labels.skipVerify = "true",
     guard |-> Guard(service.name, service.labels)]

Applications ==
    {App(service) : service \in {s \in SwarmServices \cup BareContainers :
                                    s.addrs # {} /\ Supported(s.labels)}}

-----------------------------------------------------------------------------
(* ReadApplications                                                        *)

\* Fault: the nodes are read first.
NodesFirst(call) ==
    CASE call = "idle" -> "nodes" [] call = "nodes" -> "tasks"
      [] call = "tasks" -> "services" [] call = "services" -> "containers"

After(call) ==
    CASE call = "idle" -> "tasks" [] call = "tasks" -> "services"
      [] call = "services" -> "nodes" [] call = "nodes" -> "containers"

Start ==
    /\ pc = "idle"
    /\ pc' = After("idle")
    /\ through' = WantedNow /\ seen' = Addresses /\ orphaned' = Orphaned
    /\ UNCHANGED <<network, dockerVars, got, result>>

\* The three calls of discoverSwarmServices; after the last of them instances
\* are looked for, and the first task whose address or node is not there fails the
\* read.
CallSwarm ==
    /\ \/ pc = "tasks" /\ got' = [got EXCEPT !.tasks = task]
       \/ pc = "services" /\ got' = [got EXCEPT !.services = services]
       \/ pc = "nodes" /\ got' = [got EXCEPT !.nodes = nodes]
    /\ UNCHANGED <<network, dockerVars, result, history>>
    /\ \/ After(pc) = "containers" /\ Unaddressed' /\ pc' = "no address"
       \/ After(pc) = "containers" /\ NodeMissing' /\ pc' = "node missing"
       \/ ~(After(pc) = "containers" /\ NodeMissing') /\ pc' = After(pc)

\* The containers; when none needs an inspect, the read is done.
CallContainers ==
    /\ \/ pc = "containers" /\ got' = [got EXCEPT !.containers = life]
       \/ pc = "inspect" /\ got' = [got EXCEPT !.inspect = {life}]
    /\ UNCHANGED <<network, dockerVars, history>>
    /\ IF NeedsInspect' THEN pc' = "inspect" /\ UNCHANGED result
       ELSE pc' = "ok" /\ result' = Applications'

CallFails ==
    /\ pc \in Calls
    /\ pc' = "call failed"
    /\ UNCHANGED <<network, dockerVars, got, result, history>>

\* Fault: the inspect output is kept for the next read.
ReturnKeepsInspect ==
    /\ pc \in Ends
    /\ pc' = "idle"
    /\ got' = [NothingRead EXCEPT !.inspect = got.inspect]
    /\ result' = {} /\ through' = {} /\ seen' = {} /\ orphaned' = FALSE
    /\ UNCHANGED <<network, dockerVars>>

Return ==
    /\ pc \in Ends
    /\ pc' = "idle"
    /\ got' = NothingRead
    /\ result' = {} /\ through' = {} /\ seen' = {} /\ orphaned' = FALSE
    /\ UNCHANGED <<network, dockerVars>>

Docker ==
    \/ NodeChanges
    \/ ServiceChanges
    \/ \E t \in Tasks : TaskChanges(t)
    \/ \E c \in Containers : ContainerChanges(c)

Next == Docker \/ Start \/ CallSwarm \/ CallContainers \/ CallFails \/ Return

Spec == Init /\ [][Next]_vars

-----------------------------------------------------------------------------
(* Properties                                                              *)

Origins(app) == {origin.addr : origin \in app.origins}

\* A read that succeeds has every instance that was in the network asked for
\* from its start to its end, at its address there, whatever else came and went
\* and however many other services have labels that cannot be used (docker.go:
\* 97-107, 148-203, 258-311); but a container that bears the name of a service
\* the Swarm catalogue had instances of is left to that (:332-336).
KeptThroughout ==
    pc = "ok" =>
        \A w \in through :
            Supported(w.labels) =>
                \/ \E app \in result : app.id = w.name /\ w.addr \in Origins(app)
                \/ /\ w.as = "container" /\ w.name \in got.services
                   /\ \E t \in Tasks : ServiceOf[t] = w.name /\ got.tasks[t] \in Nodes
                   /\ network \in Attached[w.name]

\* The labels of what can have an address.
LabelsAt(addr) ==
    IF addr = Loopback THEN {Labels[c] : c \in {d \in Containers : "host" \in About[d].networks}}
    ELSE {Labels[ServiceOf[t]] : t \in Tasks \cap {addr.of}} \cup
         {Labels[c] : c \in {d \in Containers : addr.of \in {d, About[d].task}}}

AsksFor(labels, app) ==
    \/ labels.auth = "public" /\ app.guard = <<"none">>
    \/ /\ labels.auth = "bearer_token" /\ labels.token # Empty
       /\ app.guard = <<"auth_v0", labels.token>>
    \/ /\ labels.auth = "sso" /\ labels.tenant # Empty
       /\ app.guard = <<"auth_sso", labels.tenant, app.id>>

\* A compose project's label on the container of a task hides which service it is of.
Renamed(addr) == \E c \in Containers : About[c].task = addr.of /\ About[c].project # Empty

\* A read that succeeds has nothing else.  No request is sent to an address that
\* nothing had while the applications were read: the answers of a read are used in
\* that read only (docker.go:219-237).  What has an address is reached as its own
\* labels, or its service's, ask for, and openly only when these say "public"
\* (traefikannotations.go:111-138).  And no instance is found twice, as a task and
\* as a container, say (docker.go:327-336); but the host's address is shared.
NothingMore ==
    pc = "ok" =>
        /\ \A app \in result : Origins(app) \subseteq seen
        /\ \A app \in result : \A addr \in Origins(app) :
              \E labels \in LabelsAt(addr) : AsksFor(labels, app)
        /\ \A a, b \in result : \A addr \in Origins(a) \cap Origins(b) :
              a = b \/ addr = Loopback \/ Renamed(addr)

\* Nodes, services and tasks may be added, and tasks be placed or removed, all
\* through the calls: a read ends for a missing node only if one left during it,
\* or had left from under a task before (docker.go:177-180).
ReadsSurviveGrowth ==
    pc = "node missing" => orphaned
=============================================================================
