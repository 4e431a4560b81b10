----------------------------- MODULE Middleware -----------------------------
(***************************************************************************)
(* turbochargerMiddleware (pkg/turbocharger/middleware.go): it stands in   *)
(* front of one origin application, learns from a response header which    *)
(* subtree of URLs it may serve by itself and from which manifest, asks    *)
(* again after every validity period, and detaches on trouble.             *)
(*                                                                         *)
(* t.discovered is an atomic.Value that many goroutines load and store:    *)
(* requests and ping checks.  Between a load and the store that depends on *)
(* it anything can happen.                                                 *)
(*                                                                         *)
(* Discovery results, discoveredSubtree, are heap objects, the tokens of   *)
(* Trees; one that nothing refers to is used again.  A request slot of     *)
(* Requests carries one request after the other.                           *)
(***************************************************************************)
EXTENDS FiniteSets

CONSTANTS
    Requests,  \* slots for concurrent HTTP requests
    Prefixes,  \* URL prefixes: a request is for something under one of them
    Versions,  \* of the application: the turbocharged subtree [prefix, manifest]
               \* it advertises, or None
    FirstLive, \* the versions the origin's replicas run at first
    Trees,     \* discovery results
    Faults     \* TRUE: the origin may answer with an error, or without a good header

None == [prefix |-> "none", manifest |-> "none"]  \* a version without turbocharger

\* Headers that parseTCHeader makes nothing of: one without a space panics (its
\* parts[1]), one whose second part is no object ID is an error.
NoSpace == [prefix |-> "none", manifest |-> "no space"]
NoID == [prefix |-> "none", manifest |-> "no ID"]

ASSUME VersionAssumption ==
    /\ \A v \in Versions \ {None} : v.prefix \in Prefixes
    /\ FirstLive \subseteq Versions
    /\ FirstLive # {}
    /\ Faults \in BOOLEAN

VARIABLES
    live,       \* the versions the origin's replicas run (a rolling deploy has two)
    discovered, \* t.discovered: "untyped nil", "nil *discoveredSubtree" or a tree
    subtree,    \* [Trees -> subtreeVersion]
    expired,    \* the trees whose validUntil is closed
    ping,       \* [Trees -> state of the ping check of pingCheckOnce]
    pong,       \* [Trees -> the subtree its ping was answered with]
    pc,         \* [Requests -> place]
    asks,       \* [Requests -> prefix of its URL]
    using,      \* [Requests -> the tree it has loaded and not yet checked, or "none"]
    header      \* [Requests -> the advertisement in the origin's response]

vars == <<live, discovered, subtree, expired, ping, pong, pc, asks, using, header>>

Untyped == "untyped nil"
TypedNil == "nil *discoveredSubtree"

ASSUME TreeAssumption == {Untyped, TypedNil, "none"} \cap Trees = {}

\* Until sync.Once has run there is no ping; then it is under way, has an
\* answer to store, or an error to detach for, and is over.
PingStates == {"none", "sent", "answered", "error", "over"}

\* new: between two requests of the slot; then what the request does next.
Places == {"new", "validity", "origin", "header", "attach", "detach", "panic"}

TypeOK ==
    /\ live \subseteq Versions
    /\ discovered \in Trees \cup {Untyped, TypedNil}
    /\ subtree \in [Trees -> Versions \cup {None}]
    /\ expired \subseteq Trees
    /\ ping \in [Trees -> PingStates]
    /\ pong \in [Trees -> Versions \cup {None}]
    /\ pc \in [Requests -> Places]
    /\ asks \in [Requests -> Prefixes]
    /\ using \in [Requests -> Trees \cup {"none"}]
    /\ header \in [Requests -> Versions \cup {None, NoSpace, NoID}]

Init ==
    /\ live = FirstLive
    /\ discovered = Untyped
    /\ subtree = [t \in Trees |-> None]
    /\ expired = {}
    /\ ping = [t \in Trees |-> "none"]
    /\ pong = [t \in Trees |-> None]
    /\ pc = [r \in Requests |-> "new"]
    /\ asks \in [Requests -> Prefixes]
    /\ using = [r \in Requests |-> "none"]
    /\ header = [r \in Requests |-> None]

Moves(r, from, to) == pc[r] = from /\ pc' = [pc EXCEPT ![r] = to]

treeVars == <<discovered, subtree, expired, ping, pong>>

Attached == discovered \in Trees

-----------------------------------------------------------------------------
(* The origin                                                              *)

\* A replica with another version comes up, or one of several goes away.
Deploy ==
    /\ \/ \E v \in Versions : live' = live \cup {v}
       \/ \E v \in live : live' = live \ {v} /\ live' # {}
    /\ UNCHANGED <<treeVars, pc, asks, using, header>>

\* What a response to a request under prefix p can advertise: the version of
\* one of the replicas, if that prefix is its subtree's.
Advertised(p) ==
    {IF v.prefix = p THEN v ELSE None : v \in live} \cup (IF Faults THEN {None, NoSpace, NoID} ELSE {})

-----------------------------------------------------------------------------
(* ServeHTTP (lines 63-79)                                                 *)

LoadTurbocharged(r) ==
    /\ Attached
    /\ subtree[discovered].prefix = asks[r]
    /\ Moves(r, "new", "validity")
    /\ using' = [using EXCEPT ![r] = discovered]
    /\ UNCHANGED <<live, treeVars, asks, header>>

LoadOrigin(r) ==
    /\ ~(Attached /\ subtree[discovered].prefix = asks[r])
    /\ Moves(r, "new", "origin")
    /\ UNCHANGED <<live, treeVars, asks, using, header>>

\* validityCheckMaybeTriggerPing: the first request after the validity period
\* starts the ping check, and no request waits for it.  Then the manifest
\* handler answers, from the manifest of the tree that was loaded.
ServeTurbocharged(r) ==
    /\ Moves(r, "validity", "new")
    /\ LET t == using[r] IN
       ping' = [ping EXCEPT ![t] = IF t \in expired /\ @ = "none" THEN "sent" ELSE @]
    /\ using' = [using EXCEPT ![r] = "none"]
    /\ UNCHANGED <<live, discovered, subtree, expired, pong, asks, header>>

ServeFromOrigin(r) ==
    /\ Moves(r, "origin", "header")
    /\ \E ad \in Advertised(asks[r]) : header' = [header EXCEPT ![r] = ad]
    /\ UNCHANGED <<live, treeVars, asks, using>>

-----------------------------------------------------------------------------
(* checkForTurbochargerAdvertisement (lines 82-111)                        *)

Advertises(r) == header[r] \notin {None, NoSpace, NoID}

\* The response has been handled.
Forget(r) == header' = [header EXCEPT ![r] = None]

NoAdvertisement(r) ==
    /\ header[r] \in {None, NoID}
    /\ Moves(r, "header", "new")
    /\ Forget(r)
    /\ UNCHANGED <<live, treeVars, asks, using>>

\* Load() gives an untyped nil: the type assertion says not found.
FirstDiscovery(r) ==
    /\ Advertises(r)
    /\ discovered = Untyped
    /\ Moves(r, "header", "attach")
    /\ UNCHANGED <<live, treeVars, asks, using, header>>

SameAdvertisement(r) ==
    /\ Advertises(r)
    /\ Attached /\ subtree[discovered] = header[r]
    /\ Moves(r, "header", "new")
    /\ Forget(r)
    /\ UNCHANGED <<live, treeVars, asks, using>>

\* Fault: every advertisement that finds a subtree discovered is a conflict.
AnyAdvertisementConflicts(r) ==
    /\ Advertises(r)
    /\ Attached
    /\ Moves(r, "header", "detach")
    /\ UNCHANGED <<live, treeVars, asks, using, header>>

ConflictingAdvertisement(r) ==
    /\ Advertises(r)
    /\ Attached /\ subtree[discovered] # header[r]
    /\ Moves(r, "header", "detach")
    /\ UNCHANGED <<live, treeVars, asks, using, header>>

\* The nil *discoveredSubtree that detachTurbocharger stores is found by the
\* type assertion, and existing.subtreeVersion dereferences it; net/http
\* recovers and aborts the response, as it does for a header without a space.
NilAdvertisement(r) ==
    /\ \/ Advertises(r) /\ discovered = TypedNil
       \/ header[r] = NoSpace
    /\ Moves(r, "header", "panic")
    /\ Forget(r)
    /\ UNCHANGED <<live, treeVars, asks, using>>

\* Nothing refers to the object any more.
Garbage(t) == /\ discovered # t
              /\ \A r \in Requests : using[r] # t
              /\ ping[t] \in {"none", "over"}

\* attachDiscoveredSubtree (lines 175-202): a new discovery result for s, valid
\* and without a ping check, is stored.  pinged are the trees whose ping check
\* this is.  Which of the unused tokens it gets makes no difference; what is
\* garbage is forgotten along the way.
StoreNew(s, pinged) ==
    /\ \E t \in Trees : Garbage(t)
    /\ LET new == CHOOSE t \in Trees : Garbage(t) IN
       /\ discovered' = new
       /\ subtree' = [t \in Trees |-> IF t = new THEN s
                                      ELSE IF Garbage(t) THEN None ELSE subtree[t]]
       /\ expired' = {t \in expired : ~Garbage(t)}
       /\ ping' = [t \in Trees |-> IF t \in pinged THEN "over"
                                   ELSE IF Garbage(t) THEN "none" ELSE ping[t]]

Attach(r) ==
    /\ Moves(r, "attach", "new")
    /\ StoreNew(header[r], {})
    /\ Forget(r)
    /\ UNCHANGED <<live, pong, asks, using>>

\* detachTurbocharger (lines 207-211).
Detach(r) ==
    /\ Moves(r, "detach", "new")
    /\ discovered' = TypedNil
    /\ Forget(r)
    /\ UNCHANGED <<live, subtree, expired, ping, pong, asks, using>>

\* net/http has recovered the panic and aborted the connection.
Recover(r) ==
    /\ Moves(r, "panic", "new")
    /\ UNCHANGED <<live, treeVars, asks, using, header>>

-----------------------------------------------------------------------------
(* Time and the ping check (lines 114-173)                                 *)

\* The 5 s are over.
Expire(t) ==
    /\ discovered = t \/ \E r \in Requests : using[r] = t
    /\ t \notin expired
    /\ expired' = expired \cup {t}
    /\ UNCHANGED <<live, discovered, subtree, ping, pong, pc, asks, using, header>>

\* The HEAD request of the tree's own prefix; no header, one that does not parse
\* or another status than 200 is an error.
PingAnswer(t) ==
    /\ ping[t] = "sent"
    /\ \E ad \in Advertised(subtree[t].prefix) \ {NoSpace} :
          IF ad \in {None, NoID}
          THEN /\ ping' = [ping EXCEPT ![t] = "error"]
               /\ UNCHANGED pong
          ELSE /\ ping' = [ping EXCEPT ![t] = "answered"]
               /\ pong' = [pong EXCEPT ![t] = ad]
    /\ UNCHANGED <<live, discovered, subtree, expired, pc, asks, using, header>>

\* The same panic as above, but nothing recovers it in the goroutine of the ping
\* check: the process ends, and is started again.
PingPanics(t) ==
    /\ ping[t] = "sent"
    /\ NoSpace \in Advertised(subtree[t].prefix)
    /\ discovered' = Untyped
    /\ subtree' = [u \in Trees |-> None]
    /\ expired' = {}
    /\ ping' = [u \in Trees |-> "none"]
    /\ pong' = [u \in Trees |-> None]
    /\ pc' = [r \in Requests |-> "new"]
    /\ using' = [r \in Requests |-> "none"]
    /\ header' = [r \in Requests |-> None]
    /\ UNCHANGED <<live, asks>>

\* Fault: the subtree that is known is attached again, not the one advertised.
PingAttachOld(t) ==
    /\ ping[t] = "answered"
    /\ StoreNew(subtree[t], {t})
    /\ pong' = [pong EXCEPT ![t] = None]
    /\ UNCHANGED <<live, pc, asks, using, header>>

\* Always a new result, also when the advertisement has not changed.
PingAttach(t) ==
    /\ ping[t] = "answered"
    /\ StoreNew(pong[t], {t})
    /\ pong' = [pong EXCEPT ![t] = None]
    /\ UNCHANGED <<live, pc, asks, using, header>>

\* Fault: an error of the ping check is logged and nothing else.
PingErrorIgnored(t) ==
    /\ ping[t] = "error"
    /\ ping' = [ping EXCEPT ![t] = "over"]
    /\ UNCHANGED <<live, discovered, subtree, expired, pong, pc, asks, using, header>>

PingDetach(t) ==
    /\ ping[t] = "error"
    /\ discovered' = TypedNil
    /\ ping' = [ping EXCEPT ![t] = "over"]
    /\ UNCHANGED <<live, subtree, expired, pong, pc, asks, using, header>>

-----------------------------------------------------------------------------
Handle(r) ==
    \/ LoadTurbocharged(r) \/ LoadOrigin(r)
    \/ ServeTurbocharged(r) \/ ServeFromOrigin(r)
    \/ NoAdvertisement(r) \/ FirstDiscovery(r) \/ SameAdvertisement(r)
    \/ ConflictingAdvertisement(r) \/ NilAdvertisement(r)
    \/ Attach(r) \/ Detach(r) \/ Recover(r)

\* What the ping check does once it has an answer.
PingCheck(t) == PingAttach(t) \/ PingDetach(t)

Next ==
    \/ Deploy
    \/ \E r \in Requests : Handle(r)
    \/ \E t \in Trees : Expire(t) \/ PingAnswer(t) \/ PingPanics(t) \/ PingCheck(t)

Spec == Init /\ [][Next]_vars

\* Goroutines run, time passes, and every client keeps asking.  A ping has no
\* deadline: it may be without an answer for ever (line 143).
FairSpec ==
    /\ Spec
    /\ \A r \in Requests : WF_vars(Handle(r))
    /\ \A t \in Trees : WF_vars(Expire(t)) /\ WF_vars(PingCheck(t))

-----------------------------------------------------------------------------
(* Properties                                                              *)

\* The current discovery result still has its ping check before it or under
\* way.  One whose single check (sync.Once) is over and that stayed would be
\* served from for ever (lines 40-43, 124-129).
NeverStuckStale == Attached => ping[discovered] # "over"

\* While one version runs all the time and no ping gets an error, the races of
\* the first discoveries and of the ping checks never detach ("pre-attach race
\* detected (not dangerous)", line 100).
NeverDetached ==
    \A v \in Versions :
        [](live = {v} /\ \A t \in Trees : ping[t] # "error")
            => [](discovered # TypedNil)

\* When the origin's replicas have all become one version, the middleware
\* comes to serve from that version or not to serve by itself, as requests
\* keep coming (lines 176-180), also when the process has died of a header.  The
\* exception: the origin accepts the ping and never answers it.
EventuallyCurrent ==
    \A v \in Versions :
        <>[](live = {v}) =>
            <>[](Attached => subtree[discovered] = v \/ ping[discovered] = "sent")
=============================================================================
