------------------------------ MODULE Routing ------------------------------
(***************************************************************************)
(* What happens to one HTTP request between the listener and the backend:  *)
(* serveRequest (pkg/erserver/serve.go:124-176), resolveMount and the      *)
(* matchers it searches (mountresolver.go), the IP filter (ipfilter.go).   *)
(*                                                                         *)
(* Frontends are added one by one, as appConfigToHandlersAndMatchers does; *)
(* then one request loads the config and is answered from it, or handed to *)
(* a backend, which then serves it (Backends).  How configs follow each    *)
(* other is ConfigSync's.                                                  *)
(*                                                                         *)
(* Paths and prefixes are sequences of characters, because trailing and    *)
(* missing slashes are what this code is about.                            *)
(***************************************************************************)
EXTENDS Naturals, SequencesExt

CONSTANTS
    Hosts,        \* hosts that requests are for
    Malformed,    \* those of them that are not a host, or a host and a port
    Catalogue,    \* the frontends that applications may have
    MaxFrontends, \* so many of them are configured
    Paths,        \* URL paths of requests, sequences of characters
    Addresses,    \* remote addresses
    AllowAll,     \* IP rules file: prefixes (sets of addresses) for every app
    AllowOnly     \* IP rules file: sequence of [prefix, apps]

ASSUME RoutingAssumption ==
    /\ MaxFrontends \in Nat /\ Malformed \subseteq Hosts
    /\ \A f \in Catalogue :
          /\ f.kind \in {"path", "hostname", "regexp"} /\ f.hosts \subseteq Hosts
          /\ f.kind = "hostname" => \E h \in Hosts : f.hosts = {h}
          /\ f.prefix \in Seq(STRING)
          /\ f.app # "none"
    /\ AllowAll \in Seq(SUBSET Addresses)
    /\ AllowOnly \in Seq([prefix : SUBSET Addresses, apps : SUBSET STRING])
    /\ \A i \in DOMAIN AllowOnly : AllowOnly[i].apps # {}
    /\ \A p \in Paths : p \in Seq(STRING) /\ p # <<>> /\ p[1] = "/"

VARIABLES
    frontends,   \* history: what has been configured, in this order
    pathPrefix,  \* frontendMatchers.PathPrefix
    hostname,    \* frontendMatchers.Hostname
    regexps,     \* frontendMatchers.hostnameRegexp
    pc,          \* where the request is
    request,     \* the request as it came
    mount,       \* what resolveMount returned
    urlPath,     \* r.URL.Path
    reply        \* what the client gets, and for "backend" what the backend gets

vars == <<frontends, pathPrefix, hostname, regexps, pc, request, mount, urlPath, reply>>

configVars == <<frontends, pathPrefix, hostname, regexps>>

Requests == [host : Hosts, path : Paths, tls : BOOLEAN, addr : Addresses]

\* A frontend has a kind, the hosts it is for (one for "hostname", those that
\* match for "regexp", any for "path"), and these fields of its Mount.
MountOf(f) == [app |-> f.app, prefix |-> f.prefix, strip |-> f.strip,
               insecure |-> f.insecure]

NoMount == [app |-> "none", prefix |-> <<>>, strip |-> FALSE, insecure |-> FALSE]

Mounts == {MountOf(f) : f \in Catalogue}

Replies == {"none", "bad request", "not found", "redirect", "forbidden", "panic", "backend"}

TypeOK ==
    /\ frontends \in Seq(Catalogue)
    /\ pathPrefix \in Seq(Mounts)
    /\ hostname \in [Hosts -> Seq(Mounts)]
    /\ regexps \in Seq([hosts : SUBSET Hosts, mount : Mounts])
    /\ pc \in {"config", "resolve", "scheme", "filter", "strip", "backend", "replied", "served"}
    /\ request \in Requests
    /\ mount \in Mounts \cup {NoMount}
    /\ pc \in {"scheme", "filter", "strip", "backend"} => mount \in Mounts
    /\ urlPath \in Seq(STRING)
    /\ reply \in Replies

Init ==
    /\ frontends = <<>>
    /\ pathPrefix = <<>>
    /\ hostname = [h \in Hosts |-> <<>>]
    /\ regexps = <<>>
    /\ pc = "config"
    /\ request \in Requests
    /\ mount = NoMount
    /\ urlPath = request.path
    /\ reply = "none"

-----------------------------------------------------------------------------
(* appConfigToHandlersAndMatchers, one frontend                            *)

\* Fault: append without the sort.
Unsorted(mounts, m) == {Append(mounts, m)}

\* append, then sort.Slice from longest to shortest: it is not stable, mounts
\* whose prefixes have the same length come in any order.
Sorted(mounts, m) ==
    LET n == Len(mounts) + 1
        all == Append(mounts, m)
    IN {[i \in 1..n |-> all[p[i]]] : p \in
           {q \in Bijection(1..n, 1..n) :
               \A i, j \in 1..n : i < j => Len(all[q[i]].prefix) >= Len(all[q[j]].prefix)}}

AddFrontend(f) ==
    /\ pc = "config" /\ Len(frontends) < MaxFrontends
    /\ frontends' = Append(frontends, f)
    /\ CASE f.kind = "hostname" ->
              /\ \E h \in f.hosts : \E sorted \in Sorted(hostname[h], MountOf(f)) :
                    hostname' = [hostname EXCEPT ![h] = sorted]
              /\ UNCHANGED <<pathPrefix, regexps>>
         [] f.kind = "regexp" ->
              /\ regexps' = Append(regexps, [hosts |-> f.hosts, mount |-> MountOf(f)])
              /\ UNCHANGED <<pathPrefix, hostname>>
         [] f.kind = "path" ->
              /\ pathPrefix' \in Sorted(pathPrefix, MountOf(f))
              /\ UNCHANGED <<hostname, regexps>>
    /\ UNCHANGED <<pc, request, mount, urlPath, reply>>

-----------------------------------------------------------------------------
(* resolveMount                                                            *)

\* strings.TrimRight(s, "/")
TrimRight(s) ==
    LET kept == {0} \cup {i \in DOMAIN s : s[i] # "/"}
    IN SubSeq(s, 1, CHOOSE i \in kept : \A j \in kept : j <= i)

\* Fault: a plain prefix of the string matches.
StringPrefixMatches(m, path) == IsPrefix(TrimRight(m.prefix), path)

PathMatches(m, path) ==
    \/ m.prefix = <<"/">>
    \/ path = TrimRight(m.prefix)
    \/ IsPrefix(Append(TrimRight(m.prefix), "/"), path)

\* The first of the mounts that match.
FirstMatch(mounts, path) ==
    LET hits == {i \in DOMAIN mounts : PathMatches(mounts[i], path)}
    IN IF hits = {} THEN NoMount ELSE mounts[Min(hits)]

FirstRegexp(host, path) ==
    LET hits == {i \in DOMAIN regexps : /\ host \in regexps[i].hosts
                                        /\ PathMatches(regexps[i].mount, path)}
    IN IF hits = {} THEN NoMount ELSE regexps[Min(hits)].mount

\* Global path prefixes, then the exact host, then the host regexps in the
\* order they were configured.
ResolveMount(host, path) ==
    LET global == FirstMatch(pathPrefix, path)
        exact == FirstMatch(hostname[host], path)
    IN IF global # NoMount THEN global
       ELSE IF exact # NoMount THEN exact
       ELSE FirstRegexp(host, path)

-----------------------------------------------------------------------------
(* serveRequest                                                            *)

Answer(r) == pc' = "replied" /\ reply' = r

\* currentConfig.Load(): from here on this config and no other is used.
\* nonStupidSplitHostPort() may not take the host.
Load ==
    /\ pc = "config"
    /\ IF request.host \in Malformed
       THEN Answer("bad request")
       ELSE pc' = "resolve" /\ UNCHANGED reply
    /\ UNCHANGED <<configVars, request, mount, urlPath>>

Resolve ==
    /\ pc = "resolve"
    /\ mount' = ResolveMount(request.host, urlPath)
    /\ IF mount' = NoMount THEN Answer("not found") ELSE pc' = "scheme" /\ UNCHANGED reply
    /\ UNCHANGED <<configVars, request, urlPath>>

\* redirectHTTPToHTTPS, or on to the IP filter.
CheckScheme ==
    /\ pc = "scheme"
    /\ IF ~request.tls /\ ~mount.insecure
       THEN Answer("redirect")
       ELSE pc' = "filter" /\ UNCHANGED reply
    /\ UNCHANGED <<configVars, request, mount, urlPath>>

\* parseHclRules: the rules for every app come first; no apps means all.
Rules == [i \in DOMAIN AllowAll |-> [prefix |-> AllowAll[i], apps |-> {}]] \o AllowOnly

AllowsApp(rule, app) == rule.apps = {} \/ app \in rule.apps

\* Fault: an address that no rule is about is allowed.
IpAllowedByDefault(addr, app, rules) ==
    LET about == {i \in DOMAIN rules : addr \in rules[i].prefix}
    IN about = {} \/ AllowsApp(rules[Min(about)], app)

\* The first rule about the address decides.
IpAllowed(addr, app, rules) ==
    LET about == {i \in DOMAIN rules : addr \in rules[i].prefix}
    IN \/ rules = <<>>
       \/ about # {} /\ AllowsApp(rules[Min(about)], app)

Filter ==
    /\ pc = "filter"
    /\ IF IpAllowed(request.addr, mount.app, Rules)
       THEN pc' = "strip" /\ UNCHANGED reply
       ELSE Answer("forbidden")
    /\ UNCHANGED <<configVars, request, mount, urlPath>>

\* r.URL.Path[len(mount.prefix):], which panics when the path is shorter, and
\* a "/" in front unless there is one.
StripPrefix ==
    /\ pc = "strip"
    /\ IF mount.strip /\ Len(mount.prefix) > Len(urlPath)
       THEN Answer("panic") /\ UNCHANGED urlPath
       ELSE LET rest == SubSeq(urlPath, Len(mount.prefix) + 1, Len(urlPath))
            IN /\ urlPath' = IF ~mount.strip THEN urlPath
                             ELSE IF IsPrefix(<<"/">>, rest) THEN rest
                             ELSE <<"/">> \o rest
               /\ pc' = "backend"
               /\ UNCHANGED reply
    /\ UNCHANGED <<configVars, request, mount>>

Backend ==
    /\ pc = "backend"
    /\ Answer("backend")
    /\ UNCHANGED <<configVars, request, mount, urlPath>>

Next ==
    \/ \E f \in Catalogue : AddFrontend(f)
    \/ Load \/ Resolve \/ CheckScheme \/ Filter \/ StripPrefix \/ Backend

Spec == Init /\ [][Next]_vars

-----------------------------------------------------------------------------
(* What routing is to do, in terms of path segments                        *)

\* What is between the slashes: "/foo//bar" is "", "foo", "" and "bar".
Split(path) ==
    LET parts[n \in 0..Len(path)] ==
            IF n = 0 THEN <<<<>>>>
            ELSE LET before == parts[n - 1]
                 IN IF path[n] = "/" THEN Append(before, <<>>)
                    ELSE [before EXCEPT ![Len(before)] = Append(@, path[n])]
    IN parts[Len(path)]

\* What it leads to: "/foo//bar/" has the segments "foo" and "bar".
Segments(path) ==
    LET segments[n \in 0..Len(path)] ==
            IF n = 0 THEN <<>>
            ELSE LET before == segments[n - 1]
                 IN IF path[n] = "/" THEN before
                    ELSE IF n = 1 \/ path[n - 1] = "/" THEN Append(before, <<path[n]>>)
                    ELSE [before EXCEPT ![Len(before)] = Append(@, path[n])]
    IN segments[Len(path)]

\* The directory that a prefix names.
Directory(prefix) == Split(TrimRight(prefix))

Covers(f, host, path) ==
    /\ f.kind = "path" \/ host \in f.hosts
    /\ IsPrefix(Directory(f.prefix), Split(path))

\* "/foo//" is longer than "/foo" by what does not make it more specific.
Slashed(prefix) ==
    LET n == Len(prefix) IN n > 1 /\ prefix[n] = "/" /\ prefix[n - 1] = "/"

\* The frontends of a kind that cover a request and are not shadowed by a more
\* specific one or, for regexps, by an earlier one.
Best(kind, host, path) ==
    LET covering == {i \in DOMAIN frontends :
                        frontends[i].kind = kind /\ Covers(frontends[i], host, path)}
    IN {i \in covering : \A j \in covering :
            IF kind = "regexp"
            THEN i <= j
            ELSE \/ Len(Directory(frontends[j].prefix)) <= Len(Directory(frontends[i].prefix))
                 \/ Slashed(frontends[i].prefix)}

\* A request goes to the most specific of the frontends that cover it, whatever
\* order they were configured in: global prefixes before exact hosts before
\* host patterns; it is not found only if none covers it, and "/foobar" is not
\* under "/foo" (mountresolver.go:29-35, 120-165).  One exception: prefixes are
\* sorted by length, and a needless second slash at the end makes one longer.
MostSpecificWins ==
    pc \notin {"config", "resolve", "served"} /\ request.host \notin Malformed =>
        LET best(kind) == Best(kind, request.host, request.path)
            winners == IF best("path") # {} THEN best("path")
                       ELSE IF best("hostname") # {} THEN best("hostname")
                       ELSE best("regexp")
        IN IF winners = {} THEN reply = "not found"
                           ELSE \E i \in winners : mount = MountOf(frontends[i])

\* An application gets the path relative to its prefix: prefix and remainder
\* make up the path that was asked for; without stripping it gets the path as
\* it was (serve.go:153-163).  The slice goes out of bounds in one case only:
\* resolveMount lets a prefix "/foo/" match "/foo" (mountresolver.go:125-129),
\* which is shorter than what is sliced off it (serve.go:156).  Of prefixes with a
\* second slash at the end neither holds: "/foo//" strips "/foo/b" of its "b".
RemainderIsKept ==
    ~(mount.strip /\ Slashed(mount.prefix)) =>
        /\ reply = "backend" =>
            /\ urlPath[1] = "/"
            /\ Segments(request.path) = IF mount.strip
                                        THEN Segments(mount.prefix) \o Segments(urlPath)
                                        ELSE Segments(urlPath)
        /\ reply = "panic" =>
            /\ mount.strip
            /\ mount.prefix[Len(mount.prefix)] = "/"
            /\ request.path = TrimRight(mount.prefix)

\* No backend sees a request in the clear that its frontend does not allow, or
\* from an address that the rules file allows neither everything nor, by the
\* first entry about the address, this application.
BackendGuarded ==
    reply = "backend" =>
        /\ request.tls \/ mount.insecure
        /\ \/ AllowAll = <<>> /\ AllowOnly = <<>>
           \/ \E i \in DOMAIN AllowAll : request.addr \in AllowAll[i]
           \/ \E i \in DOMAIN AllowOnly :
                 /\ request.addr \in AllowOnly[i].prefix
                 /\ mount.app \in AllowOnly[i].apps
                 /\ \A j \in 1..(i - 1) : request.addr \notin AllowOnly[j].prefix
=============================================================================
