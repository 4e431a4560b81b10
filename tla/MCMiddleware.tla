---------------------------- MODULE MCMiddleware ----------------------------
(* Versions of an application: two builds of /static.                      *)
EXTENDS Middleware

V1 == [prefix |-> "/static", manifest |-> "m1"]
V2 == [prefix |-> "/static", manifest |-> "m2"]

OneVersion == {V1}
TwoVersions == {V1, V2}
=============================================================================
