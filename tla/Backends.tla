------------------------------ MODULE Backends ------------------------------
(***************************************************************************)
(* A request from the listener to the upstream and back: what Routing ends *)
(* with, a request handed to an application's backend, is served here by   *)
(* that backend (pkg/erbackend/...).                                       *)
(*                                                                         *)
(* A backend is a chain of handlers, as makeBackendInternal nests them:    *)
(* auth_v0 and auth_sso guard the next one; a redirect answers by itself;  *)
(* reverse_proxy and s3_static_website ask an origin, aws_lambda a         *)
(* function, turbocharger the files of a manifest.  What the upstream      *)
(* answers, or that it does not, is external.                              *)
(*                                                                         *)
(* Of headers there are Authorization, If-None-Match and whether some      *)
(* header has several values.  A body is named for where it comes from.    *)
(***************************************************************************)
EXTENDS Routing

CONSTANTS
    BackendOf,   \* [apps -> sequence of handlers]
    Clients,     \* the rest of a request: [auth, query, multi, etag]
    S3Origin,    \* [host, path] of a deployed version
    Manifests    \* what a turbocharger backend's manifest may be: sets of paths

NoAuth == [scheme |-> "none", user |-> "", secret |-> ""]

Index == <<"index.html">>

NotFoundPath == <<"/", "404.html">>

Auths == {"auth_v0", "auth_sso"}

\* The backends that guard are nested around one that does not.
ASSUME BackendAssumption ==
    /\ \A f \in Catalogue : f.app \in DOMAIN BackendOf
    /\ \A app \in DOMAIN BackendOf :
          LET b == BackendOf[app] IN
          /\ b # <<>> /\ b \in Seq(ToSet(b))
          /\ \A i \in DOMAIN b : b[i].kind \in Auths <=> i # Len(b)
          /\ \A i \in DOMAIN b : b[i].kind = "reverse_proxy" =>
                                     \A o \in b[i].origins : o.path \in Seq(STRING)
    /\ S3Origin.path \in Seq(STRING)

VARIABLES
    at,      \* where the backend is
    chain,   \* the handlers that have yet to serve, the first one now
    client,  \* the rest of the request as it came
    auth,    \* r.Header["Authorization"]
    asked,   \* what the upstream is asked
    up,      \* what it answers: [status, body]
    page404, \* whether the S3 backend's cache404 is filled
    answer   \* what the client gets: [status, body, whole]

backendVars == <<at, chain, client, auth, asked, up, page404, answer>>

allVars == <<vars, backendVars>>

Nil == [status |-> 0, body |-> "none"]

NoAnswer == [status |-> 0, body |-> "none", whole |-> TRUE]

NotAsked == [host |-> "none", path |-> <<>>, auth |-> NoAuth, query |-> FALSE]

AnyClient == CHOOSE c \in Clients : TRUE

BackendTypeOK ==
    /\ TypeOK
    /\ at \in {"routing", "handler", "origin", "page", "function", "manifest", "done"}
    /\ \E app \in DOMAIN BackendOf : IsSuffix(chain, BackendOf[app])
    /\ client \in Clients
    /\ auth \in {c.auth : c \in Clients} \cup {NoAuth}
    /\ up.status \in {0, 200, 403, 404}
    /\ page404 \in BOOLEAN
    /\ answer.status \in {0, 200, 301, 302, 304, 400, 401, 403, 404, 500, 502}
    /\ answer.whole \in BOOLEAN

BackendInit ==
    /\ Init
    /\ at = "routing"
    /\ chain = <<>>
    /\ client = AnyClient
    /\ auth = NoAuth
    /\ asked = NotAsked
    /\ up = Nil
    /\ page404 = FALSE
    /\ answer = NoAnswer

\* mount.backend.ServeHTTP(w, r).  Whether an earlier request has filled cache404
\* shows only here, and the config that was loaded is of no use any more.
Enter ==
    /\ at = "routing" /\ reply = "backend"
    /\ at' = "handler"
    /\ pc' = "served"
    /\ frontends' = <<>> /\ pathPrefix' = <<>> /\ regexps' = <<>>
    /\ hostname' = [h \in Hosts |-> <<>>]
    /\ chain' = BackendOf[mount.app]
    /\ client' \in Clients
    /\ auth' = client'.auth
    /\ page404' \in BOOLEAN
    /\ UNCHANGED <<request, mount, urlPath, reply, asked, up, answer>>

Handler(kind) == at = "handler" /\ Head(chain).kind = kind

Respond(status, body) ==
    /\ at' = "done"
    /\ answer' = [status |-> status, body |-> body, whole |-> TRUE]

\* The handler panics, net/http aborts the connection.
Abort == at' = "done" /\ UNCHANGED answer

-----------------------------------------------------------------------------
(* authv0backend, authssobackend, redirectbackend                          *)

\* The bearer token, or the password that a user called "" or "x" has; any other
\* header gives the empty one, which a guard that is configured without one expects.
GivesToken(a) == a.scheme = "Bearer" \/ (a.scheme = "Basic" /\ a.user \in {"", "x"})

NoToken == ""

GivenToken(a) == IF GivesToken(a) THEN a.secret ELSE NoToken

Authorize(a, token) == a # NoAuth /\ GivenToken(a) = token

\* Fault: the header is passed on to the origin.
AuthV0KeepsHeader ==
    /\ Handler("auth_v0")
    /\ IF Authorize(auth, Head(chain).token)
       THEN chain' = Tail(chain) /\ UNCHANGED <<at, answer>>
       ELSE Respond(401, "error") /\ UNCHANGED chain
    /\ UNCHANGED <<vars, client, auth, asked, up, page404>>

AuthV0 ==
    /\ Handler("auth_v0")
    /\ IF Authorize(auth, Head(chain).token)
       THEN auth' = NoAuth /\ chain' = Tail(chain) /\ UNCHANGED <<at, answer>>
       ELSE Respond(401, "error") /\ UNCHANGED <<auth, chain>>
    /\ UNCHANGED <<vars, client, asked, up, page404>>

Clean(path) == \A i \in 2..Len(path) : path[i] # "/" \/ path[i - 1] # "/"

\* The mux.Router redirects to the clean path.  Protect() lets the users that are
\* listed through, others go to the login.
AuthSso ==
    /\ Handler("auth_sso")
    /\ \/ Clean(urlPath) /\ chain' = Tail(chain) /\ UNCHANGED <<at, answer>>
       \/ Clean(urlPath) /\ Respond(302, "none") /\ UNCHANGED chain
       \/ ~Clean(urlPath) /\ Respond(301, "none") /\ UNCHANGED chain
    /\ UNCHANGED <<vars, client, auth, asked, up, page404>>

Redirect ==
    /\ Handler("redirect")
    /\ Respond(302, "none")
    /\ UNCHANGED <<vars, chain, client, auth, asked, up, page404>>

-----------------------------------------------------------------------------
(* reverseproxybackend, statics3websitebackend                             *)

Proxies == Handler("reverse_proxy") \/ Handler("s3_static_website")

\* The S3 backend is a reverse proxy with these options.
Options(b) ==
    IF b.kind = "reverse_proxy" THEN b
    ELSE [origins |-> {S3Origin}, index |-> TRUE, removeQuery |-> TRUE, forced |-> NoAuth]

NoVersion ==
    /\ Handler("s3_static_website") /\ ~Head(chain).deployed
    /\ Respond(404, "error")
    /\ UNCHANGED <<vars, chain, client, auth, asked, up, page404>>

EndsInSlash(path) == path # <<>> /\ Last(path) = "/"

\* "/foo/" => "/foo/index.html"
WithIndex(path) == IF EndsInSlash(path) THEN path \o Index ELSE path

\* Fault: the path of the origin is replaced, not prepended.
OriginPathLost(origin, path) == path

OriginPath(origin, path) == origin.path \o path

\* The Director, with a random origin.
AskOrigin ==
    /\ Proxies
    /\ LET b == Head(chain) o == Options(b) IN
       /\ b.kind = "s3_static_website" => b.deployed
       /\ \E origin \in o.origins :
             asked' = [host |-> origin.host,
                       path |-> OriginPath(origin,
                                           IF o.index THEN WithIndex(urlPath) ELSE urlPath),
                       auth |-> IF o.forced # NoAuth THEN o.forced ELSE auth,
                       query |-> client.query /\ ~o.removeQuery]
    /\ at' = "origin"
    /\ UNCHANGED <<vars, chain, client, auth, up, page404, answer>>

\* S3 says 403 of what is not there when listing is not permitted.
GetsPage(b, status) ==
    b.kind = "s3_static_website" /\ b.notFoundPage /\ status \in {403, 404}

OriginAnswers ==
    /\ at = "origin"
    /\ \E status \in {200, 403, 404} :
          /\ up' = [status |-> status, body |-> "upstream"]
          /\ IF GetsPage(Head(chain), status)
             THEN at' = "page" /\ UNCHANGED answer
             ELSE Respond(status, "upstream")
    /\ UNCHANGED <<vars, chain, client, auth, asked, page404>>

\* serveCached404Page, in ModifyResponse: the page has the status of the origin's
\* answer and, if that has one, its Content-Length, which is not the page's.  What
\* has no Content-Type is not cached.
ServePage ==
    /\ at = "page"
    /\ page404' \in {page404, TRUE}
    /\ at' = "done"
    /\ \E whole \in BOOLEAN :
          answer' = [status |-> up.status, body |-> "page", whole |-> whole]
    /\ UNCHANGED <<vars, chain, client, auth, asked, up>>

\* The origin, or getting the page, fails: ReverseProxy's ErrorHandler.
ProxyFails ==
    /\ at = "origin" \/ (at = "page" /\ ~page404)
    /\ Respond(502, "none")
    /\ UNCHANGED <<vars, chain, client, auth, asked, up, page404>>

-----------------------------------------------------------------------------
(* lambdabackend                                                           *)

\* The body of any request may break off before it is encoded.  copyHeaders: a header
\* with several values is not implemented.
LambdaRefuses ==
    /\ Handler("aws_lambda")
    /\ Respond(400, "error")
    /\ UNCHANGED <<vars, chain, client, auth, asked, up, page404>>

Invoke ==
    /\ Handler("aws_lambda") /\ ~client.multi
    /\ asked' = [host |-> "lambda", path |-> urlPath, auth |-> auth, query |-> client.query]
    /\ at' = "function"
    /\ UNCHANGED <<vars, chain, client, auth, up, page404, answer>>

\* Invoke fails (500), or its payload is not JSON (502).
InvokeFails ==
    /\ at = "function"
    /\ Respond(500, "error") \/ Respond(502, "error")
    /\ UNCHANGED <<vars, chain, client, auth, asked, up, page404>>

\* Fault: the status of the function is forgotten.
ProxyWithoutStatus(status, body) == Respond(200, body)

\* proxyAPIGatewayResponse: the status is written before the body is decoded, what
\* http.Error() then adds is the body.
ProxyResponse(status, body) ==
    Respond(status, IF body = "broken base64" THEN "error" ELSE body)

\* serveRESTModel checks for a function that did not answer with a status;
\* serveHTTPModel does not, and WriteHeader(0) panics.
FunctionAnswers ==
    /\ at = "function"
    /\ \E status \in {0, 200, 404}, body \in {"none", "upstream", "broken base64"} :
          /\ up' = [status |-> status, body |-> body]
          /\ IF status # 0 THEN ProxyResponse(status, body)
             ELSE IF Head(chain).v2 THEN Abort
             ELSE Respond(502, "error")
    /\ UNCHANGED <<vars, chain, client, auth, asked, page404>>

-----------------------------------------------------------------------------
(* turbochargerbackend and ManifestHandler.ServeHTTPFromManifest           *)

\* r.URL.Path is the key of the lookup.
LookUp ==
    /\ Handler("turbocharger")
    /\ asked' = [host |-> "manifest", path |-> WithIndex(urlPath), auth |-> auth,
                 query |-> FALSE]
    /\ at' = "manifest"
    /\ UNCHANGED <<vars, chain, client, auth, up, page404, answer>>

\* resolveManifest (see ManifestResolve) fails.
ManifestFails ==
    /\ at = "manifest" /\ up = Nil
    /\ Respond(500, "error")
    /\ UNCHANGED <<vars, chain, client, auth, asked, up, page404>>

NotInManifest ==
    /\ at = "manifest" /\ up = Nil
    /\ \E files \in Manifests : {asked.path, NotFoundPath} \cap files = {}
    /\ Respond(404, "error")
    /\ UNCHANGED <<vars, chain, client, auth, asked, up, page404>>

\* The file, or the manifest's own page for what is not found.
InManifest ==
    /\ at = "manifest" /\ up = Nil
    /\ \E files \in Manifests :
          /\ {asked.path, NotFoundPath} \cap files # {}
          /\ up' = [status |-> IF asked.path \in files THEN 200 ELSE 404, body |-> "upstream"]
    /\ IF client.etag THEN Respond(304, "none") ELSE UNCHANGED <<at, answer>>
    /\ UNCHANGED <<vars, chain, client, auth, asked, page404>>

\* From a cache, or by way of one from the origin (see FileHydration).
ServeFile ==
    /\ at = "manifest" /\ up # Nil
    /\ Respond(up.status, up.body)
    /\ UNCHANGED <<vars, chain, client, auth, asked, up, page404>>

\* An error of serveFromCache or of the hydration is returned and only logged.  If
\* nothing has been written, net/http answers 200; but sendToClient writes the status
\* before it copies, and what it has copied by then is how the response ends.
FileFails ==
    /\ at = "manifest" /\ up # Nil
    /\ at' = "done"
    /\ answer' \in {[status |-> 200, body |-> "none", whole |-> TRUE],
                    [status |-> up.status, body |-> up.body, whole |-> FALSE]}
    /\ UNCHANGED <<vars, chain, client, auth, asked, up, page404>>

-----------------------------------------------------------------------------
Route == Next /\ UNCHANGED backendVars

ServeHTTP ==
    \/ Enter
    \/ AuthV0 \/ AuthSso \/ Redirect
    \/ NoVersion \/ AskOrigin \/ OriginAnswers \/ ServePage \/ ProxyFails
    \/ LambdaRefuses \/ Invoke \/ InvokeFails \/ FunctionAnswers
    \/ LookUp \/ ManifestFails \/ NotInManifest \/ InManifest \/ ServeFile \/ FileFails

BackendSpec == BackendInit /\ [][Route \/ ServeHTTP]_allVars

-----------------------------------------------------------------------------
(* Properties                                                              *)

Handlers == {BackendOf[mount.app][i] : i \in DOMAIN BackendOf[mount.app]}

Guards == {h \in Handlers : h.kind = "auth_v0"}

Leaf == Last(BackendOf[mount.app])

\* An upstream behind auth_v0 is asked nothing by a client that sends no header, by
\* one that gives another token than the one expected, nor by one that gives none,
\* unless the guard is configured without: nothing keeps a configuration from that,
\* and the guard then takes any header that does not give a token.  And what has
\* been sent never gets to the upstream: it sees the header that is forced on
\* requests to it, or none (authv0.go:29-74, reverseproxy.go:107-112).
AuthorizedOnly ==
    asked # NotAsked /\ Guards # {} =>
        /\ client.auth # NoAuth
        /\ \A h \in Guards :
              \/ client.auth.secret = h.token /\ GivesToken(client.auth)
              \/ h.token = NoToken /\ ~GivesToken(client.auth)
        /\ asked.auth = IF Leaf.kind = "reverse_proxy" THEN Leaf.forced ELSE NoAuth

\* From the listener to the upstream, the path keeps its meaning: what the client
\* asked for, less the prefix of a stripping frontend, below the path of the
\* origin, and the index document of what is a directory then (serve.go:153-163,
\* reverseproxy.go:78-98, turbochargerbackend/backend.go:25-27).  As for what is
\* stripped, prefixes with a second slash at the end are an exception.
AskedRelative ==
    asked # NotAsked /\ ~(mount.strip /\ Slashed(mount.prefix)) =>
        LET below == IF mount.strip THEN Len(Segments(mount.prefix)) ELSE 0
            rest == SubSeq(Segments(request.path), below + 1, Len(Segments(request.path)))
            directory == EndsInSlash(request.path) \/ rest = <<>>
            indexed == \/ Leaf.kind \in {"s3_static_website", "turbocharger"}
                       \/ Leaf.kind = "reverse_proxy" /\ Leaf.index
            base == CASE Leaf.kind = "reverse_proxy" -> {o.path : o \in Leaf.origins}
                      [] Leaf.kind = "s3_static_website" -> {S3Origin.path}
                      [] OTHER -> {<<>>}
        IN \E b \in base :
              Segments(asked.path) =
                  Segments(b) \o rest \o (IF directory /\ indexed THEN <<Index>> ELSE <<>>)

\* What the client is told is a success was one, with all of the upstream's body.
\* Three exceptions: the function's body is not the base64 that it says (its error
\* text comes with the function's status, lambdabackend.go:129-132), a file of the
\* manifest fails before its status is written (200 and nothing,
\* manifesthandler.go:111-122, 150-159, 290-301), or while it is copied (200 and the
\* part that was, 144-147 and 162-165).
SuccessIsTrue ==
    answer.status = 200 =>
        \/ /\ up = [status |-> 200, body |-> answer.body]
           /\ answer.whole \/ Leaf.kind = "turbocharger"
        \/ Leaf.kind = "aws_lambda" /\ up.body = "broken base64"
        \/ Leaf.kind = "turbocharger" /\ answer.body = "none"
=============================================================================
