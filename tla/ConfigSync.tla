----------------------------- MODULE ConfigSync -----------------------------
(***************************************************************************)
(* How configuration gets from service discovery into the running server:  *)
(* scheduledSync (schedulersyncer.go) reads the applications every 10 s,   *)
(* syncAppsFromDiscovery (serve.go:260-300) makes or reuses a backend for  *)
(* each (makeBackend, backendfactory.go), and the result goes through the  *)
(* channel configUpdated, of capacity 1, to the main loop of Serve, which  *)
(* stores it for the requests to load (serve.go:103-110, 207, 239-257).    *)
(* The first sync is made by Serve itself, before it starts the others.    *)
(*                                                                         *)
(* Module Server is the process around it.                                 *)
(***************************************************************************)
EXTENDS AppConfig, FiniteSets

CONSTANTS
    IDs,             \* application IDs
    Worlds,          \* what the discovery can list: sets of applications
    Metrics,         \* the application that METRICS_ENDPOINT adds, or none
    StoreConfigured, \* TURBOCHARGER_STORE is set
    MaxStamp         \* the stamps of reads are counted up to here

Listed == {w \cup Metrics : w \in Worlds}

Applications == UNION Listed

Backends == {app.backend : app \in Applications}

NoBackend == <<>>

ASSUME WorldAssumption ==
    /\ \A app \in Applications : app.id \in IDs /\ app.backend # NoBackend
    /\ StoreConfigured \in BOOLEAN
    /\ MaxStamp \in Nat

VARIABLES
    world,     \* what the discovery lists now
    cache,     \* bendCache.perAppID: what each handler was made from
    handler,   \* manifestHandlerSingleton: "unset", "ok" or "failed"
    pc,        \* the goroutine that syncs
    todo,      \* of what it has read, what it has no backend for yet
    built,     \* the frontendMatchers it makes
    channel,   \* configUpdated: a set of one config or none
    current,   \* currentConfig
    main,      \* Serve, and the process that runs it
    cancelled  \* the context of Serve's tasks

syncVars == <<cache, handler, pc, todo, built>>
configVars == <<world, syncVars, channel, current, main, cancelled>>

\* frontendMatchers: when it was read, what was listed then, and what is
\* mounted: applications, each with what its handler was made from.
Config(stamp, apps, mounts) == [stamp |-> stamp, apps |-> apps, mounts |-> mounts]

Empty == Config(0, {}, {})

Configs == [stamp : 0..MaxStamp, apps : Listed \cup {{}},
            mounts : SUBSET [app : Applications, made : Backends]]

MainStates == {"boot", "ready", "loop", "leaving", "gone", "crashed"}

ConfigTypeOK ==
    /\ world \in Worlds
    /\ cache \in [IDs -> Backends \cup {NoBackend}]
    /\ handler \in {"unset", "ok", "failed"}
    /\ pc \in {"idle", "read", "build", "send", "exited"}
    /\ todo \subseteq built.apps
    /\ built \in Configs /\ current \in Configs
    /\ channel \subseteq Configs /\ Cardinality(channel) <= 1
    /\ main \in MainStates
    /\ cancelled \in BOOLEAN

\* A process starts: on what is not there yet, and with nothing of the last one.
Fresh ==
    /\ cache = [i \in IDs |-> NoBackend]
    /\ handler = "unset"
    /\ pc = "read"
    /\ todo = {}
    /\ built = Empty
    /\ channel = {}
    /\ current = Empty
    /\ main = "boot"
    /\ cancelled = FALSE

ConfigInit == world \in Worlds /\ Fresh

StartAfresh ==
    /\ cache' = [i \in IDs |-> NoBackend]
    /\ handler' = "unset"
    /\ pc' = "read"
    /\ todo' = {}
    /\ built' = Empty
    /\ channel' = {}
    /\ current' = Empty
    /\ main' = "boot"
    /\ cancelled' = FALSE

-----------------------------------------------------------------------------
\* Somebody edits the applications, or containers come and go.
Change ==
    /\ world' \in Worlds
    /\ UNCHANGED <<syncVars, channel, current, main, cancelled>>

\* The ticker of scheduledSync.
Tick ==
    /\ main = "loop" /\ pc = "idle"
    /\ pc' = "read"
    /\ UNCHANGED <<world, cache, handler, todo, built, channel, current, main,
                   cancelled>>

\* syncAppsFromDiscovery returns: what it made is the caller's now, if anything.
Returned == todo' = {} /\ built' = Config(built.stamp, {}, {})

\* Serve goes on after its first sync, whether or not that succeeded.
Booted == main' = IF main = "boot" THEN "ready" ELSE main

Read ==
    /\ pc = "read"
    /\ pc' = "build"
    /\ todo' = world \cup Metrics
    /\ built' = Config(IF built.stamp = MaxStamp THEN MaxStamp ELSE built.stamp + 1,
                       world \cup Metrics, {})
    /\ UNCHANGED <<world, cache, handler, channel, current, main, cancelled>>

\* Fault: scheduledSync returns the error of a failed sync.
ReadFailsForGood ==
    /\ pc = "read"
    /\ pc' = IF main = "boot" THEN "idle" ELSE "exited"
    /\ Booted
    /\ UNCHANGED <<world, cache, handler, todo, built, channel, current, cancelled>>

\* One reader that fails, fails the sync, or its 15 s are over; the next tick
\* tries again.
ReadFails ==
    /\ pc = "read"
    /\ pc' = "idle"
    /\ Booted
    /\ UNCHANGED <<world, cache, handler, todo, built, channel, current, cancelled>>

-----------------------------------------------------------------------------
(* appConfigToHandlersAndMatchers and makeBackend, one application         *)

\* Fault: the cache is searched by ID only.
FoundByID(app) == cache[app.id] # NoBackend

\* Fault: the comparison of the JSON is the wrong way round.
FoundIfChanged(app) == cache[app.id] \notin {NoBackend, app.backend}

\* backendCache.Find: the entry, if it was made from the same JSON.
Found(app) == cache[app.id] = app.backend

\* GetManifestHandlerSingleton: the first call's result is kept for the life of
\* the process, an error too.
GetHandler(b) ==
    handler' \in IF handler = "unset" /\ NeedsHandler(b, StoreConfigured)
                 THEN {"failed"} \cup (IF StoreConfigured THEN {"ok"} ELSE {})
                 ELSE {handler}

\* makeBackendInternal returns a handler.
Made(b) ==
    /\ FactoryTakes(b)
    /\ NeedsHandler(b, StoreConfigured) => handler' = "ok"

Reuse(app) == Found(app) /\ UNCHANGED <<cache, handler>>

MakeNew(app) ==
    /\ ~Found(app)
    /\ GetHandler(app.backend)
    /\ Made(app.backend)
    /\ cache' = [cache EXCEPT ![app.id] = app.backend]

MakeBackend(app) == Reuse(app) \/ MakeNew(app)

\* All its frontends can be mounted.
Mounts(app) == \A f \in app.frontends : Mountable(f)

Build ==
    /\ pc = "build"
    /\ \E app \in todo :
          /\ MakeBackend(app)
          /\ Mounts(app)
          /\ todo' = todo \ {app}
          /\ built' = [built EXCEPT !.mounts =
                          @ \cup {[app |-> app, made |-> cache'[app.id]]}]
    /\ UNCHANGED <<world, pc, channel, current, main, cancelled>>

\* Fault: an application that cannot be mounted is skipped.
SkipBad ==
    /\ pc = "build"
    /\ \E app \in todo : ~Mounts(app) /\ todo' = todo \ {app}
    /\ UNCHANGED <<world, cache, handler, pc, built, channel, current, main, cancelled>>

\* An application that cannot be built, or mounted, fails the whole sync; the
\* backends already made, its own among them, stay in the cache.
BuildFails ==
    /\ pc = "build"
    /\ \E app \in todo :
          \/ MakeBackend(app) /\ ~Mounts(app)
          \/ /\ ~Found(app) /\ ~FactoryPanics(app.backend)
             /\ GetHandler(app.backend)
             /\ ~Made(app.backend)
             /\ UNCHANGED cache
    /\ pc' = "idle"
    /\ Returned
    /\ Booted
    /\ UNCHANGED <<world, channel, current, cancelled>>

\* A panic in the factory is in no request, and nothing recovers it.
BuildPanics ==
    /\ pc = "build"
    /\ \E app \in todo : ~Found(app) /\ FactoryPanics(app.backend)
    /\ main' = "crashed"
    /\ UNCHANGED <<world, syncVars, channel, current, cancelled>>

\* The first config is stored at once, a later one is to be sent.
BuildDone ==
    /\ pc = "build" /\ todo = {}
    /\ IF main = "boot" THEN pc' = "idle" /\ current' = built /\ Returned
                        ELSE pc' = "send" /\ UNCHANGED <<current, todo, built>>
    /\ Booted
    /\ UNCHANGED <<world, cache, handler, channel, cancelled>>

-----------------------------------------------------------------------------
(* The channel and the main loop                                           *)

Send ==
    /\ pc = "send" /\ channel = {}
    /\ channel' = {built}
    /\ pc' = "idle"
    /\ Returned
    /\ UNCHANGED <<world, cache, handler, current, main, cancelled>>

\* Fault: a config for which the channel has no room is stored directly.
StoreInstead ==
    /\ pc = "send" /\ channel # {}
    /\ current' = built
    /\ pc' = "idle"
    /\ Returned
    /\ UNCHANGED <<world, cache, handler, channel, main, cancelled>>

\* "configUpdated blocks": the config is dropped.
Drop ==
    /\ pc = "send" /\ channel # {}
    /\ pc' = "idle"
    /\ Returned
    /\ UNCHANGED <<world, cache, handler, channel, current, main, cancelled>>

\* The main loop is the only one to receive and to store, and does so until all
\* tasks have ended.
StoreConfig ==
    /\ main = "loop"
    /\ channel # {} /\ \E c \in channel : current' = c
    /\ channel' = {}
    /\ UNCHANGED <<world, syncVars, main, cancelled>>

\* Fault: scheduledSync ranges over its ticker.
ExitNever == FALSE

\* "<-ctx.Done()" in scheduledSync: the task ends.
Exit ==
    /\ main = "loop" /\ cancelled /\ pc = "idle"
    /\ pc' = "exited"
    /\ UNCHANGED <<world, cache, handler, todo, built, channel, current, main, cancelled>>

Alive == main \notin {"gone", "crashed"}

Sync ==
    /\ Alive
    /\ ReadFails \/ Read \/ Build \/ BuildFails \/ BuildPanics \/ BuildDone \/ Send \/ Drop

-----------------------------------------------------------------------------
(* Properties                                                              *)

\* A config that requests see is never replaced by one that was read before
\* it, although configs wait in a channel and can be dropped
\* (schedulersyncer.go:37-43, serve.go:249-257), until the process ends.
NeverGoesBack == [][current'.stamp >= current.stamp \/ ~Alive]_configVars

\* Requests see all applications that one read of the discovery listed, or
\* none of that read (mountresolver.go:65-69: one bad application fails all).
AllOrNothing ==
    \A c \in {current} \cup channel : c.apps = {m.app : m \in c.mounts}

\* Whatever is mounted for an application is a backend made from exactly that
\* application's configuration, although backends are cached across syncs,
\* also ones that fail (backendfactory.go:37-50, 133-144).
BackendMatches ==
    \A c \in {current} \cup channel : \A m \in c.mounts : m.made = m.app.backend

\* "only make new instance if config JSON has changed for this app ID"
\* (backendfactory.go:37): while the applications stay as they are, no backend
\* is made after some time, but by a process that starts.
MakesAnew == pc = "build" /\ (\E app \in todo : MakeNew(app) /\ todo' = todo \ {app})

InstancesKept ==
    (\E w \in Worlds : <>[](world = w /\ main = "loop"))
        => <>[][~MakesAnew]_configVars
=============================================================================
