----------------------------- MODULE AppConfig -----------------------------
(***************************************************************************)
(* An application's configuration (pkg/erconfig/appconfig.go): what        *)
(* Application.Validate() says of it, which only "discovery put" asks, and *)
(* what makeBackendInternal() makes of it in the server                    *)
(* (pkg/erserver/backendfactory.go:56-109), for whatever file, S3 object,  *)
(* event or command it came from.                                          *)
(*                                                                         *)
(* A Backend is the sequence of the backends nested in it, outermost first:*)
(* the options of an authenticating one hold the one it authorizes.  Each  *)
(* is its kind and the options of that kind: NilOpts when the pointer is   *)
(* nil, BlankOpts when what they need is not set, WrongOpts when it is set *)
(* to something the factory refuses, otherwise any other value.  A frontend*)
(* is its kind and its text, likewise.                                     *)
(***************************************************************************)
EXTENDS Naturals, Sequences

Auths == {"auth_v0", "auth_sso"}
Optionless == {"edgerouter_admin", "prom_metrics"}
BackendKinds == Auths \cup Optionless \cup
    {"s3_static_website", "reverse_proxy", "aws_lambda", "redirect", "turbocharger"}

FrontendKinds == {"hostname", "hostname_regexp", "path_prefix"}

NilOpts == "nil"
BlankOpts == "blank"
WrongOpts == "wrong"

Leaf(b) == b[Len(b)]

\* AuthorizedBackend is nil.
AuthorizesNothing(b, i) == b[i].kind \in Auths /\ i = Len(b)

-----------------------------------------------------------------------------
(* Validation                                                              *)

\* Validate() of the options dereferences them, but for two kinds.
ValidatePanics(b) ==
    /\ b[1].kind \in BackendKinds \ (Optionless \cup {"turbocharger"})
    /\ b[1].opts = NilOpts

\* Of the options of the outermost backend, and of no other.
ValidOpts(b) ==
    /\ b[1].kind \in BackendKinds
    /\ b[1].kind \notin Optionless \cup {"turbocharger"} => b[1].opts # BlankOpts
    /\ ~AuthorizesNothing(b, 1)

\* A regular expression has to compile.
ValidFrontend(f) ==
    /\ f.kind \in FrontendKinds
    /\ f.text # BlankOpts
    /\ f.kind = "hostname_regexp" => f.text # WrongOpts

Valid(app) ==
    /\ app.frontends # {} /\ \A f \in app.frontends : ValidFrontend(f)
    /\ ~ValidatePanics(app.backend)
    /\ ValidOpts(app.backend)

-----------------------------------------------------------------------------
(* The factory                                                             *)

\* "*backendConf.ReverseProxyOpts" and its like, "TurbochargerOpts.Manifest",
\* "*backendConf.AuthV0Opts.AuthorizedBackend".
FactoryPanics(b) ==
    \E i \in DOMAIN b :
        \/ b[i].kind \in BackendKinds \ Optionless /\ b[i].opts = NilOpts
        \/ AuthorizesNothing(b, i)

\* The kind has a constructor, which takes the options: an S3 website, a
\* redirect and authv0 take any, auth_sso refuses an empty audience.
FactoryTakes(b) ==
    /\ ~FactoryPanics(b)
    /\ \A i \in DOMAIN b :
        /\ b[i].kind \in BackendKinds
        /\ b[i].kind = "reverse_proxy" => b[i].opts \notin {BlankOpts, WrongOpts}
        /\ b[i].kind = "aws_lambda" => b[i].opts # WrongOpts
        /\ b[i].kind = "auth_sso" => b[i].opts # BlankOpts

\* Turbocharged content needs the ManifestHandler; the middleware of proxied
\* applications and functions does if its store is configured.
NeedsHandler(b, configured) ==
    \/ Leaf(b).kind = "turbocharger"
    \/ configured /\ Leaf(b).kind \in {"reverse_proxy", "aws_lambda"}

\* The frontend becomes a mount (mountresolver.go:73-112).
Mountable(f) ==
    /\ f.kind \in FrontendKinds
    /\ f.kind = "hostname_regexp" => f.text # WrongOpts
=============================================================================
