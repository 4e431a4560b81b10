----------------------------- MODULE MCBackends -----------------------------
(* Frontends with nested prefixes, with no, one and two trailing slashes,  *)
(* and paths below, beside and short of them.  "/fo" is to "/f" what       *)
(* "/foobar" is to "/foo".  Applications have different backends.          *)
EXTENDS Backends

Frontend(kind, hosts, app, prefix, strip, insecure) ==
    [kind |-> kind, hosts |-> hosts, app |-> app, prefix |-> prefix,
     strip |-> strip, insecure |-> insecure]

F == <<"/", "f">>
Fs == <<"/", "f", "/">>
Fb == <<"/", "f", "/", "b">>
Fss == <<"/", "f", "/", "/">>

MCHosts == {"a.net", "b.net", "a:b:c"}
MCMalformed == {"a:b:c"}

MCCatalogue == {
    Frontend("path", {}, "acme", Fb, FALSE, TRUE),
    Frontend("path", {}, "known", Fs, TRUE, TRUE),
    Frontend("hostname", {"a.net"}, "root", <<"/">>, FALSE, FALSE),
    Frontend("hostname", {"a.net"}, "all", <<>>, TRUE, FALSE),
    Frontend("hostname", {"a.net"}, "files", F, TRUE, FALSE),
    Frontend("hostname", {"a.net"}, "deep", Fb, TRUE, TRUE),
    Frontend("hostname", {"a.net"}, "slashed", Fss, TRUE, TRUE),
    Frontend("regexp", {"a.net", "b.net"}, "any", Fs, FALSE, FALSE),
    Frontend("regexp", {"b.net"}, "rest", <<"/">>, TRUE, TRUE)}

MCPaths == {<<"/">>, F, Fs, Fb, <<"/", "/", "f">>, <<"/", "f", "o">>, <<"/", "f", "/", "b", "/", "x">>}

\* r1: everything; r2: one application; r3: in both kinds of rule; r4: in none.
MCAddresses == {"r1", "r2", "r3", "r4"}
MCAllowAll == <<{"r1", "r3"}>>
MCAllowOnly == <<[prefix |-> {"r2", "r3"}, apps |-> {"files", "acme"}],
                 [prefix |-> {"r2"}, apps |-> {"root"}]>>

Credential(scheme, user, secret) == [scheme |-> scheme, user |-> user, secret |-> secret]

Guard(token) == [kind |-> "auth_v0", token |-> token]

Proxy(origins, index, forced) ==
    [kind |-> "reverse_proxy", origins |-> origins, index |-> index,
     removeQuery |-> index, forced |-> forced]

S3(deployed) == [kind |-> "s3_static_website", deployed |-> deployed, notFoundPage |-> TRUE]

Origin(host, path) == [host |-> host, path |-> path]

MCBackendOf == [
    acme |-> <<[kind |-> "redirect"]>>,
    known |-> <<S3(TRUE)>>,
    root |-> <<Guard("t"), Proxy({Origin("o1", <<"/", "v">>)}, TRUE, Credential("Basic", "cam", "c"))>>,
    all |-> <<[kind |-> "auth_sso"], [kind |-> "aws_lambda", v2 |-> FALSE]>>,
    files |-> <<[kind |-> "turbocharger"]>>,
    slashed |-> <<[kind |-> "turbocharger"]>>,
    deep |-> <<Guard(NoToken), [kind |-> "aws_lambda", v2 |-> TRUE]>>,
    any |-> <<[kind |-> "auth_sso"], Guard("t"),
              Proxy({Origin("o1", <<>>), Origin("o2", <<"/", "v">>)}, FALSE, NoAuth)>>,
    rest |-> <<S3(FALSE)>>]

\* The token in every form, other credentials, and a scheme that gives no token.
MCClients ==
    {[auth |-> a, query |-> TRUE, multi |-> FALSE, etag |-> FALSE] :
        a \in {Credential("Bearer", "", "t"), Credential("Basic", "x", "t"),
               Credential("Basic", "joe", "t"), Credential("Bearer", "", "u"),
               Credential("Digest", "joe", "d"), NoAuth}}
    \cup {[auth |-> NoAuth, query |-> FALSE, multi |-> TRUE, etag |-> TRUE]}

MCS3Origin == Origin("s3", <<"/", "s", "/", "v">>)

\* With a page for what is not found, and without.
MCManifests == {{<<"/", "index.html">>, Fb, NotFoundPath}, {<<"/", "index.html">>}}
=============================================================================
