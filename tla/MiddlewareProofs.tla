-------------------------- MODULE MiddlewareProofs --------------------------
(***************************************************************************)
(* Theorems about Middleware, for any number of concurrent requests and    *)
(* discovery results, any versions of the application, and any faults.     *)
(***************************************************************************)
EXTENDS Middleware, TLAPS

PingTypeOK == ping \in [Trees -> PingStates]

\* The inductive invariant.
IInv == PingTypeOK /\ NeverStuckStale

-----------------------------------------------------------------------------
(* Steps                                                                   *)

\* What neither stores a result nor ends a ping check keeps the invariant.
LEMMA KeepsResult ==
    ASSUME IInv, UNCHANGED <<discovered, ping>>
    PROVE  IInv'
BY DEF IInv, PingTypeOK, NeverStuckStale, Attached

\* A result that is stored is new, and so without a ping check: the token it gets
\* is not that of the check that stores it, which is under way.
LEMMA StoreNewKeeps ==
    ASSUME PingTypeOK, NEW s, NEW pinged \in SUBSET Trees,
           \A t \in pinged : ping[t] = "answered",
           StoreNew(s, pinged)
    PROVE  IInv'
<1>1. PICK new \in Trees : /\ Garbage(new) /\ discovered' = new
                           /\ ping' = [t \in Trees |-> IF t \in pinged THEN "over"
                                                       ELSE IF Garbage(t) THEN "none" ELSE ping[t]]
  BY DEF StoreNew
<1>2. new \notin pinged
  BY <1>1 DEF Garbage
<1>3. ping'[new] = "none"
  BY <1>1, <1>2
<1>4. PingTypeOK'
  BY <1>1 DEF PingTypeOK, PingStates
<1>5. NeverStuckStale'
  BY <1>1, <1>3 DEF NeverStuckStale
<1> QED
  BY <1>4, <1>5 DEF IInv

\* Detached, there is no current result.
LEMMA DetachedKeeps ==
    ASSUME PingTypeOK', discovered' \in {Untyped, TypedNil}
    PROVE  IInv'
BY TreeAssumption DEF IInv, NeverStuckStale, Attached

\* A ping check that goes on, but not to its end.
LEMMA GoesOnKeeps ==
    ASSUME IInv, NEW t, NEW state \in PingStates \ {"over"},
           discovered' = discovered, ping' = [ping EXCEPT ![t] = state]
    PROVE  IInv'
<1>1. PingTypeOK'
  BY DEF IInv, PingTypeOK
<1>2. \A u \in Trees : ping[u] # "over" => ping'[u] # "over"
  BY DEF IInv, PingTypeOK
<1>3. NeverStuckStale'
  BY <1>2 DEF IInv, NeverStuckStale, Attached
<1> QED
  BY <1>1, <1>3 DEF IInv

\* A request.
LEMMA HandleKeeps ==
    ASSUME IInv, NEW r \in Requests, Handle(r)
    PROVE  IInv'
<1>1. CASE ServeTurbocharged(r)
  <2> DEFINE t == using[r]
  <2>1. CASE t \in expired /\ ping[t] = "none"
    <3>1. ping' = [ping EXCEPT ![t] = "sent"] /\ discovered' = discovered
      BY <1>1, <2>1 DEF ServeTurbocharged
    <3> QED
      BY <3>1, GoesOnKeeps DEF PingStates
  <2>2. CASE ~(t \in expired /\ ping[t] = "none")
    <3>1. ping' = ping /\ discovered' = discovered
      BY <1>1, <2>2 DEF ServeTurbocharged, IInv, PingTypeOK
    <3> QED
      BY <3>1, KeepsResult
  <2> QED
    BY <2>1, <2>2
<1>2. CASE Attach(r)
  BY <1>2, StoreNewKeeps DEF Attach, IInv
<1>3. CASE Detach(r)
  BY <1>3, DetachedKeeps DEF Detach, IInv, PingTypeOK
<1>4. CASE \/ LoadTurbocharged(r) \/ LoadOrigin(r) \/ ServeFromOrigin(r)
           \/ NoAdvertisement(r) \/ FirstDiscovery(r) \/ SameAdvertisement(r)
           \/ ConflictingAdvertisement(r) \/ NilAdvertisement(r) \/ Recover(r)
  <2>1. UNCHANGED treeVars
    BY <1>4 DEF LoadTurbocharged, LoadOrigin, ServeFromOrigin, NoAdvertisement,
       FirstDiscovery, SameAdvertisement, ConflictingAdvertisement, NilAdvertisement, Recover
  <2> QED
    BY <2>1, KeepsResult DEF treeVars
<1> QED
  BY <1>1, <1>2, <1>3, <1>4 DEF Handle

\* The ping check of a discovery result, and its validity period.
LEMMA PingKeeps ==
    ASSUME IInv, NEW t \in Trees,
           Expire(t) \/ PingAnswer(t) \/ PingPanics(t) \/ PingCheck(t)
    PROVE  IInv'
<1>1. CASE Expire(t)
  BY <1>1, KeepsResult DEF Expire
<1>2. CASE PingAnswer(t)
  <2>1. PICK state \in {"error", "answered"} : ping' = [ping EXCEPT ![t] = state]
    BY <1>2 DEF PingAnswer
  <2>2. discovered' = discovered
    BY <1>2 DEF PingAnswer
  <2> QED
    BY <2>1, <2>2, GoesOnKeeps DEF PingStates
<1>3. CASE PingPanics(t)
  <2>1. PingTypeOK'
    BY <1>3 DEF PingPanics, PingTypeOK, PingStates
  <2> QED
    BY <1>3, <2>1, DetachedKeeps DEF PingPanics
<1>4. CASE PingAttach(t)
  <2>1. StoreNew(pong[t], {t}) /\ ping[t] = "answered"
    BY <1>4 DEF PingAttach
  <2> QED
    BY <2>1, StoreNewKeeps DEF IInv
<1>5. CASE PingDetach(t)
  <2>1. PingTypeOK'
    BY <1>5 DEF PingDetach, IInv, PingTypeOK, PingStates
  <2> QED
    BY <1>5, <2>1, DetachedKeeps DEF PingDetach
<1> QED
  BY <1>1, <1>2, <1>3, <1>4, <1>5 DEF PingCheck

-----------------------------------------------------------------------------
(* No result stays for ever                                                *)

\* No discovery result stays current after its single ping check is over, however
\* requests, ping checks of earlier results, detachments and restarts interleave
\* (middleware.go:40-43, 114-173).
THEOREM NoResultStuck == Spec => []NeverStuckStale
<1>1. Init => IInv
  <2>1. Init => PingTypeOK
    BY DEF Init, PingTypeOK, PingStates
  <2>2. Init => NeverStuckStale
    BY TreeAssumption DEF Init, NeverStuckStale, Attached
  <2> QED
    BY <2>1, <2>2 DEF IInv
<1>2. IInv /\ [Next]_vars => IInv'
  <2> SUFFICES ASSUME IInv, [Next]_vars PROVE IInv'
    OBVIOUS
  <2>1. CASE Deploy
    BY <2>1, KeepsResult DEF Deploy, treeVars
  <2>2. ASSUME NEW r \in Requests, Handle(r) PROVE IInv'
    BY <2>2, HandleKeeps
  <2>3. ASSUME NEW t \in Trees, Expire(t) \/ PingAnswer(t) \/ PingPanics(t) \/ PingCheck(t)
        PROVE  IInv'
    BY <2>3, PingKeeps
  <2>4. CASE UNCHANGED vars
    BY <2>4, KeepsResult DEF vars
  <2> QED
    BY <2>1, <2>2, <2>3, <2>4 DEF Next
<1>3. IInv => NeverStuckStale
  BY DEF IInv
<1> QED
  BY <1>1, <1>2, <1>3, PTL DEF Spec

-----------------------------------------------------------------------------
(* One version does not detach                                             *)

\* The functions are functions, whatever they map to.
FunctionsInv ==
    /\ subtree = [t \in Trees |-> subtree[t]]
    /\ ping = [t \in Trees |-> ping[t]]
    /\ pong = [t \in Trees |-> pong[t]]
    /\ pc = [r \in Requests |-> pc[r]]
    /\ header = [r \in Requests |-> header[r]]

\* While version v runs alone and no ping gets an error.
Alone(v) == live = {v} /\ \A t \in Trees : ping[t] # "error"

\* All that anybody can have learnt is v.
OnlyOne(v) ==
    /\ FunctionsInv
    /\ discovered \in Trees \cup {Untyped}
    /\ Attached => subtree[discovered] = v
    /\ \A t \in Trees : ping[t] = "answered" => pong[t] = v
    /\ \A r \in Requests : /\ header[r] \in {None, NoSpace, NoID, v}
                           /\ pc[r] = "attach" => header[r] = v
                           /\ pc[r] # "detach"

\* What is stored is v, and so are the answers that wait to be stored.
LEMMA StoreNewOnlyOne ==
    ASSUME NEW v, OnlyOne(v), NEW pinged \in SUBSET Trees, StoreNew(v, pinged)
    PROVE  /\ discovered' \in Trees
           /\ subtree'[discovered'] = v
           /\ subtree' = [t \in Trees |-> subtree'[t]]
           /\ ping' = [t \in Trees |-> ping'[t]]
           /\ \A t \in Trees : ping'[t] = "answered" => ping[t] = "answered" /\ t \notin pinged
<1>1. PICK new \in Trees :
         /\ discovered' = new
         /\ subtree' = [t \in Trees |-> IF t = new THEN v
                                        ELSE IF Garbage(t) THEN None ELSE subtree[t]]
         /\ ping' = [t \in Trees |-> IF t \in pinged THEN "over"
                                     ELSE IF Garbage(t) THEN "none" ELSE ping[t]]
  BY DEF StoreNew
<1>2. subtree'[new] = v /\ subtree' = [t \in Trees |-> subtree'[t]]
  BY <1>1
<1>3. ping' = [t \in Trees |-> ping'[t]]
  BY <1>1
<1>4. \A t \in Trees : ping'[t] = "answered" => ping[t] = "answered" /\ t \notin pinged
  BY <1>1
<1> QED
  BY <1>1, <1>2, <1>3, <1>4

\* A request learns nothing but v, and no advertisement conflicts with it.
LEMMA HandleOnlyOne ==
    ASSUME NEW v, OnlyOne(v), Alone(v), NEW r \in Requests, Handle(r)
    PROVE  OnlyOne(v)'
<1> USE DEF Moves, treeVars, Attached
<1>1. CASE LoadTurbocharged(r) \/ LoadOrigin(r) \/ Recover(r)
  BY <1>1 DEF LoadTurbocharged, LoadOrigin, Recover, OnlyOne, FunctionsInv
<1>2. CASE ServeTurbocharged(r)
  <2>1. ping' = [t \in Trees |-> ping'[t]]
    BY <1>2 DEF ServeTurbocharged, OnlyOne, FunctionsInv
  <2>2. \A t \in Trees : ping'[t] = "answered" => ping[t] = "answered"
    BY <1>2 DEF ServeTurbocharged, OnlyOne, FunctionsInv
  <2> QED
    BY <1>2, <2>1, <2>2 DEF ServeTurbocharged, OnlyOne, FunctionsInv
<1>3. CASE ServeFromOrigin(r)
  <2>1. Advertised(asks[r]) \subseteq {None, NoSpace, NoID, v}
    BY DEF Advertised, Alone
  <2>2. PICK ad \in {None, NoSpace, NoID, v} : header' = [header EXCEPT ![r] = ad]
    BY <1>3, <2>1 DEF ServeFromOrigin
  <2>3. /\ header' = [q \in Requests |-> header'[q]]
        /\ \A q \in Requests : header'[q] = IF q = r THEN ad ELSE header[q]
    BY <2>2 DEF OnlyOne, FunctionsInv
  <2>4. /\ pc' = [q \in Requests |-> pc'[q]]
        /\ \A q \in Requests : pc'[q] = IF q = r THEN "header" ELSE pc[q]
    BY <1>3 DEF ServeFromOrigin, OnlyOne, FunctionsInv
  <2> QED
    BY <1>3, <2>3, <2>4 DEF ServeFromOrigin, OnlyOne, FunctionsInv
<1>4. CASE NoAdvertisement(r) \/ SameAdvertisement(r) \/ NilAdvertisement(r)
  <2>1. /\ header' = [q \in Requests |-> header'[q]]
        /\ \A q \in Requests : header'[q] = IF q = r THEN None ELSE header[q]
    BY <1>4 DEF NoAdvertisement, SameAdvertisement, NilAdvertisement, Forget, OnlyOne, FunctionsInv
  <2>2. /\ pc' = [q \in Requests |-> pc'[q]]
        /\ \A q \in Requests : /\ q # r => pc'[q] = pc[q]
                               /\ q = r => pc'[q] \in {"new", "panic"}
    BY <1>4 DEF NoAdvertisement, SameAdvertisement, NilAdvertisement, OnlyOne, FunctionsInv
  <2>3. UNCHANGED treeVars
    BY <1>4 DEF NoAdvertisement, SameAdvertisement, NilAdvertisement
  <2> QED
    BY <2>1, <2>2, <2>3 DEF OnlyOne, FunctionsInv
<1>5. CASE FirstDiscovery(r)
  <2>1. header[r] = v
    BY <1>5 DEF FirstDiscovery, Advertises, OnlyOne
  <2> QED
    BY <1>5, <2>1 DEF FirstDiscovery, OnlyOne, FunctionsInv
<1>6. CASE ConflictingAdvertisement(r)
  BY <1>6 DEF ConflictingAdvertisement, Advertises, OnlyOne
<1>7. CASE Attach(r)
  <2>1. header[r] = v /\ StoreNew(v, {})
    BY <1>7 DEF Attach, OnlyOne
  <2>2. /\ discovered' \in Trees
        /\ subtree'[discovered'] = v
        /\ subtree' = [t \in Trees |-> subtree'[t]]
        /\ ping' = [t \in Trees |-> ping'[t]]
        /\ \A t \in Trees : ping'[t] = "answered" => ping[t] = "answered"
    BY <2>1, StoreNewOnlyOne
  <2>3. /\ header' = [q \in Requests |-> header'[q]]
        /\ \A q \in Requests : header'[q] = IF q = r THEN None ELSE header[q]
    BY <1>7 DEF Attach, Forget, OnlyOne, FunctionsInv
  <2>4. /\ pc' = [q \in Requests |-> pc'[q]]
        /\ \A q \in Requests : pc'[q] = IF q = r THEN "new" ELSE pc[q]
    BY <1>7 DEF Attach, OnlyOne, FunctionsInv
  <2>5. UNCHANGED pong
    BY <1>7 DEF Attach
  <2> QED
    BY <2>2, <2>3, <2>4, <2>5 DEF OnlyOne, FunctionsInv
<1>8. CASE Detach(r)
  BY <1>8 DEF Detach, OnlyOne
<1> QED
  BY <1>1, <1>2, <1>3, <1>4, <1>5, <1>6, <1>7, <1>8 DEF Handle

\* A ping check learns nothing but v either.
LEMMA PingOnlyOne ==
    ASSUME NEW v, OnlyOne(v), Alone(v), Alone(v)', NEW t \in Trees,
           Expire(t) \/ PingAnswer(t) \/ PingPanics(t) \/ PingCheck(t)
    PROVE  OnlyOne(v)'
<1> USE DEF Attached
<1>1. CASE Expire(t)
  BY <1>1 DEF Expire, OnlyOne, FunctionsInv
<1>2. CASE PingAnswer(t)
  <2>1. PICK ad \in Advertised(subtree[t].prefix) \ {NoSpace} :
           IF ad \in {None, NoID}
           THEN ping' = [ping EXCEPT ![t] = "error"]
           ELSE /\ ping' = [ping EXCEPT ![t] = "answered"]
                /\ pong' = [pong EXCEPT ![t] = ad]
    BY <1>2 DEF PingAnswer
  <2>2. ping'[t] # "error"
    BY DEF Alone
  <2>3. ad \notin {None, NoID}
    BY <2>1, <2>2 DEF OnlyOne, FunctionsInv
  <2>4. ad = v
    BY <2>1, <2>3 DEF Advertised, Alone
  <2>5. /\ ping' = [u \in Trees |-> ping'[u]]
        /\ pong' = [u \in Trees |-> pong'[u]]
        /\ pong'[t] = v
        /\ \A u \in Trees \ {t} : ping'[u] = ping[u] /\ pong'[u] = pong[u]
    BY <2>1, <2>3, <2>4 DEF OnlyOne, FunctionsInv
  <2> QED
    BY <1>2, <2>5 DEF PingAnswer, OnlyOne, FunctionsInv
<1>3. CASE PingPanics(t)
  BY <1>3, TreeAssumption DEF PingPanics, OnlyOne, FunctionsInv
<1>4. CASE PingAttach(t)
  <2>1. pong[t] = v /\ StoreNew(v, {t})
    BY <1>4 DEF PingAttach, OnlyOne
  <2>2. /\ discovered' \in Trees
        /\ subtree'[discovered'] = v
        /\ subtree' = [u \in Trees |-> subtree'[u]]
        /\ ping' = [u \in Trees |-> ping'[u]]
        /\ \A u \in Trees : ping'[u] = "answered" => ping[u] = "answered" /\ u # t
    BY <2>1, StoreNewOnlyOne
  <2>3. /\ pong' = [u \in Trees |-> pong'[u]]
        /\ \A u \in Trees \ {t} : pong'[u] = pong[u]
    BY <1>4 DEF PingAttach, OnlyOne, FunctionsInv
  <2> QED
    BY <1>4, <2>2, <2>3 DEF PingAttach, OnlyOne, FunctionsInv
<1>5. CASE PingDetach(t)
  BY <1>5 DEF PingDetach, Alone
<1> QED
  BY <1>1, <1>2, <1>3, <1>4, <1>5 DEF PingCheck

LEMMA StepOnlyOne ==
    ASSUME NEW v
    PROVE  OnlyOne(v) /\ Alone(v) /\ Alone(v)' /\ [Next]_vars => OnlyOne(v)'
<1> SUFFICES ASSUME OnlyOne(v), Alone(v), Alone(v)', [Next]_vars PROVE OnlyOne(v)'
  OBVIOUS
<1>1. CASE Deploy \/ UNCHANGED vars
  BY <1>1 DEF Deploy, treeVars, vars, OnlyOne, FunctionsInv, Attached
<1>2. ASSUME NEW r \in Requests, Handle(r) PROVE OnlyOne(v)'
  BY <1>2, HandleOnlyOne
<1>3. ASSUME NEW t \in Trees, Expire(t) \/ PingAnswer(t) \/ PingPanics(t) \/ PingCheck(t)
      PROVE  OnlyOne(v)'
  BY <1>3, PingOnlyOne
<1> QED
  BY <1>1, <1>2, <1>3 DEF Next

\* While one version runs all the time and no ping gets an error, the middleware
\* never detaches, whatever requests and ping checks learn and store in whatever
\* order (middleware.go:82-111, 175-211).
THEOREM OneVersionStays == Spec => NeverDetached
<1> SUFFICES ASSUME NEW v \in Versions
             PROVE  Spec => ([](live = {v} /\ \A t \in Trees : ping[t] # "error")
                               => [](discovered # TypedNil))
  BY DEF NeverDetached
<1>1. Init => OnlyOne(v)
  BY TreeAssumption DEF Init, OnlyOne, FunctionsInv, Attached
<1>2. OnlyOne(v) /\ Alone(v) /\ Alone(v)' /\ [Next]_vars => OnlyOne(v)'
  BY StepOnlyOne
<1>3. OnlyOne(v) => discovered # TypedNil
  BY TreeAssumption DEF OnlyOne, Untyped, TypedNil
<1>4. Alone(v) <=> live = {v} /\ \A t \in Trees : ping[t] # "error"
  BY DEF Alone
<1> QED
  BY <1>1, <1>2, <1>3, <1>4, PTL DEF Spec
=============================================================================
