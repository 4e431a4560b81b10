--------------------------- MODULE ServerProofs ---------------------------
(***************************************************************************)
(* Theorems about Server, and the ConfigSync in it, for any applications,  *)
(* any discoveries, any number of listeners and requests.                  *)
(***************************************************************************)
EXTENDS Server, FiniteSetTheorems, TLAPS

\* A config under construction has all that was read, in one of two places, and
\* mounts what the cache had, or was given, for just that application.
BuiltInv ==
    /\ built.apps = todo \cup {m.app : m \in built.mounts}
    /\ \A m \in built.mounts : m.made = m.app.backend
    /\ pc = "send" => todo = {}

\* Configs get older from the goroutine that syncs to the requests, and the first
\* one does not go through the channel.
StampInv ==
    /\ main = "boot" => channel = {} /\ pc # "send"
    /\ current.stamp <= built.stamp
    /\ \A c \in channel : current.stamp <= c.stamp /\ c.stamp <= built.stamp

\* The inductive invariant of the configuration.
ConfigInv == ConfigTypeOK /\ BuiltInv /\ StampInv /\ AllOrNothing /\ BackendMatches

\* What a listener and its shutdowner know of the requests in flight.
ListenerInv ==
    \A p \in Ports :
        /\ listener[p] = "off" => shutdowner[p] = "waits" /\ open[p] = 0
        /\ listener[p] = "ended" => shutdowner[p] = "done"
        /\ shutdowner[p] = "done" => open[p] = 0

\* Serve starts the listeners once, and waits for all of them.
MainInv ==
    /\ main \in {"boot", "ready"} => \A p \in Ports : listener[p] = "off"
    /\ main = "gone" => \A p \in Ports : listener[p] \in {"off", "failed", "ended"}

ProcessTypeOK ==
    /\ certbus \in {"off", "runs", "ended"}
    /\ listener \in [Ports -> {"off", "accepting", "closed", "failed", "ended"}]
    /\ shutdowner \in [Ports -> {"waits", "drains", "done"}]
    /\ open \in [Ports -> 0..MaxOpen]

\* The inductive invariant of the tasks.
ProcessInv == ProcessTypeOK /\ ListenerInv /\ MainInv

IInv == ConfigInv /\ ProcessInv

-----------------------------------------------------------------------------
(* The configuration                                                       *)

\* The config that there is before any is read.
LEMMA EmptyConfig ==
    /\ Empty \in Configs
    /\ Empty.stamp = 0 /\ Empty.apps = {} /\ Empty.mounts = {}
    /\ Cardinality({}) <= 1
<1>1. Cardinality({}) = 0
  BY FS_EmptySet
<1> QED
  BY <1>1, WorldAssumption DEF Empty, Config, Configs

\* What syncAppsFromDiscovery leaves behind when it returns keeps the invariant's
\* part of it.
LEMMA ReturnedInv ==
    ASSUME built \in Configs, Returned
    PROVE  /\ built' \in Configs /\ built'.stamp = built.stamp
           /\ todo' \subseteq built'.apps
           /\ todo' = {} /\ built'.apps = {} /\ built'.mounts = {}
  BY DEF Returned, Config, Configs

\* A process starts with a configuration that is empty.
LEMMA InitConfigInv == ConfigInit => ConfigInv
<1> SUFFICES ASSUME ConfigInit PROVE ConfigInv
  OBVIOUS
<1> USE DEF ConfigInit, Fresh
<1>1. ConfigTypeOK
  BY EmptyConfig DEF ConfigTypeOK, MainStates
<1>2. BuiltInv /\ StampInv /\ AllOrNothing /\ BackendMatches
  BY EmptyConfig DEF BuiltInv, StampInv, AllOrNothing, BackendMatches
<1> QED
  BY <1>1, <1>2 DEF ConfigInv

\* So does one that is started again.
LEMMA AfreshConfigInv ==
    ASSUME ConfigInv, StartAfresh, UNCHANGED world
    PROVE  ConfigInv'
<1> USE DEF StartAfresh
<1>1. ConfigTypeOK'
  BY EmptyConfig DEF ConfigInv, ConfigTypeOK, MainStates
<1>2. (BuiltInv /\ StampInv /\ AllOrNothing /\ BackendMatches)'
  BY EmptyConfig DEF BuiltInv, StampInv, AllOrNothing, BackendMatches
<1> QED
  BY <1>1, <1>2 DEF ConfigInv

\* Tasks that start, end or are told to end leave the configuration alone.
LEMMA TaskConfigInv ==
    ASSUME ConfigInv,
           UNCHANGED <<cache, handler, todo, built, channel, current>>,
           world' \in Worlds, main' \in (MainStates \ {"boot"}) \cup {main}, cancelled' \in BOOLEAN,
           pc' \in {pc, "idle", "read", "exited"}
    PROVE  ConfigInv'
  BY DEF ConfigInv, ConfigTypeOK, BuiltInv, StampInv, AllOrNothing, BackendMatches

\* A sync that fails, or whose config was sent or dropped, keeps what is stored.
LEMMA ReturnConfigInv ==
    ASSUME ConfigInv, Returned,
           UNCHANGED <<world, current, cancelled>>,
           cache' \in [IDs -> Backends \cup {NoBackend}],
           handler' \in {"unset", "ok", "failed"},
           main' \in (MainStates \ {"boot"}) \cup {main}, pc' = "idle",
           channel' = channel \/ channel' = {}
    PROVE  ConfigInv'
<1>1. ConfigTypeOK'
  BY ReturnedInv, EmptyConfig DEF ConfigInv, ConfigTypeOK
<1>2. (BuiltInv /\ StampInv /\ AllOrNothing /\ BackendMatches)'
  BY ReturnedInv
     DEF ConfigInv, ConfigTypeOK, BuiltInv, StampInv, AllOrNothing, BackendMatches
<1> QED
  BY <1>1, <1>2 DEF ConfigInv

\* The backend that an application is mounted with is made of its own config.
LEMMA MadeOfItsOwn ==
    ASSUME ConfigTypeOK, NEW app \in Applications, MakeBackend(app)
    PROVE  /\ cache'[app.id] = app.backend
           /\ cache' \in [IDs -> Backends \cup {NoBackend}]
           /\ handler' \in {"unset", "ok", "failed"}
<1>1. app.id \in IDs /\ app.backend \in Backends
  BY WorldAssumption DEF Backends
<1>2. CASE Reuse(app)
  BY <1>2 DEF Reuse, Found, ConfigTypeOK
<1>3. CASE MakeNew(app)
  BY <1>1, <1>3 DEF MakeNew, GetHandler, ConfigTypeOK
<1> QED
  BY <1>2, <1>3 DEF MakeBackend

\* All that is listed is an application.
LEMMA ListedApplications ==
    ASSUME ConfigTypeOK
    PROVE  built.apps \subseteq Applications /\ todo \subseteq Applications
  BY DEF ConfigTypeOK, Configs, Applications

\* A read makes an unfinished config, younger than all there are.
LEMMA ReadConfigInv == ASSUME ConfigInv, Read PROVE ConfigInv'
<1> DEFINE stamp == IF built.stamp = MaxStamp THEN MaxStamp ELSE built.stamp + 1
<1>1. world \cup Metrics \in Listed
  BY DEF ConfigInv, ConfigTypeOK, Listed
<1>2. built.stamp \in 0..MaxStamp /\ MaxStamp \in Nat
  BY WorldAssumption DEF ConfigInv, ConfigTypeOK, Configs
<1>3. stamp \in 0..MaxStamp /\ built.stamp <= stamp
  BY <1>2
<1>4. built' = [stamp |-> stamp, apps |-> world \cup Metrics, mounts |-> {}]
  BY DEF Read, Config
<1> HIDE DEF stamp
<1>5. built' \in Configs /\ built'.stamp = stamp
      /\ built'.apps = world \cup Metrics /\ built'.mounts = {}
  BY <1>1, <1>3, <1>4 DEF Configs
<1>6. ConfigTypeOK'
  BY <1>5 DEF ConfigInv, ConfigTypeOK, Read
<1>7. BuiltInv'
  BY <1>5 DEF BuiltInv, Read
<1>8. current.stamp \in Int /\ \A c \in channel : c.stamp \in Int
  BY <1>2 DEF ConfigInv, ConfigTypeOK, Configs
<1>9. StampInv'
  <2>1. channel' = channel /\ current' = current /\ main' = main /\ pc' = "build"
    BY DEF Read
  <2>2. current.stamp <= stamp /\ \A c \in channel : c.stamp <= stamp
    BY <1>2, <1>3, <1>8 DEF ConfigInv, StampInv
  <2> QED
    BY <1>5, <2>1, <2>2 DEF ConfigInv, StampInv
<1>10. (AllOrNothing /\ BackendMatches)'
  BY DEF ConfigInv, AllOrNothing, BackendMatches, Read
<1> QED
  BY <1>6, <1>7, <1>9, <1>10 DEF ConfigInv

\* An application moves from what is to be built to what is mounted.
LEMMA BuildConfigInv == ASSUME ConfigInv, Build PROVE ConfigInv'
<1>1. PICK app \in todo :
          /\ MakeBackend(app)
          /\ todo' = todo \ {app}
          /\ built' = [built EXCEPT !.mounts =
                          @ \cup {[app |-> app, made |-> cache'[app.id]]}]
  BY DEF Build
<1>2. app \in Applications /\ app.backend \in Backends
  BY ListedApplications DEF ConfigInv, Backends
<1>3. /\ cache'[app.id] = app.backend
      /\ cache' \in [IDs -> Backends \cup {NoBackend}]
      /\ handler' \in {"unset", "ok", "failed"}
  BY <1>1, <1>2, MadeOfItsOwn DEF ConfigInv
<1> DEFINE mount == [app |-> app, made |-> app.backend]
<1>4. mount \in [app : Applications, made : Backends] /\ mount.app = app
      /\ mount.made = mount.app.backend
  BY <1>2
<1>5. built \in Configs
  BY DEF ConfigInv, ConfigTypeOK
<1>6. built' \in Configs /\ built'.stamp = built.stamp /\ built'.apps = built.apps
      /\ built'.mounts = built.mounts \cup {mount}
  BY <1>1, <1>3, <1>4, <1>5 DEF Configs
<1> HIDE DEF mount
<1>7. ConfigTypeOK'
  BY <1>1, <1>3, <1>6 DEF ConfigInv, ConfigTypeOK, Build
<1>8. BuiltInv'
  <2>1. {m.app : m \in built'.mounts} = {m.app : m \in built.mounts} \cup {app}
    BY <1>4, <1>6
  <2> QED
    BY <2>1, <1>1, <1>4, <1>6 DEF ConfigInv, BuiltInv, Build
<1>9. (StampInv /\ AllOrNothing /\ BackendMatches)'
  BY <1>6 DEF ConfigInv, StampInv, AllOrNothing, BackendMatches, Build
<1> QED
  BY <1>7, <1>8, <1>9 DEF ConfigInv

\* A config that is stored, or sent, is complete, and the youngest.
LEMMA DoneConfigInv == ASSUME ConfigInv, BuildDone PROVE ConfigInv'
<1>1. built.apps = {m.app : m \in built.mounts} /\ todo = {}
  BY DEF ConfigInv, BuiltInv, BuildDone
<1>2. main' \in MainStates
  BY DEF ConfigInv, ConfigTypeOK, BuildDone, Booted, MainStates
<1>3. CASE main = "boot"
  <2>1. current' = built /\ Returned /\ pc' = "idle"
    BY <1>3 DEF BuildDone
  <2>2. ConfigTypeOK'
    BY <2>1, <1>2, ReturnedInv DEF ConfigInv, ConfigTypeOK, BuildDone
  <2>3. BuiltInv'
    BY <2>1, ReturnedInv DEF ConfigInv, ConfigTypeOK, BuiltInv
  <2>4. (AllOrNothing /\ BackendMatches)'
    BY <2>1, <1>1 DEF ConfigInv, BuiltInv, AllOrNothing, BackendMatches, BuildDone
  <2>5. StampInv'
    <3>1. built.stamp \in Int /\ channel' = channel /\ built'.stamp = built.stamp
      BY <2>1, ReturnedInv DEF ConfigInv, ConfigTypeOK, Configs, BuildDone
    <3>2. channel = {}
      BY <1>3 DEF ConfigInv, StampInv
    <3> QED
      BY <2>1, <3>1, <3>2 DEF StampInv
  <2> QED
    BY <2>2, <2>3, <2>4, <2>5 DEF ConfigInv
<1>4. CASE main # "boot"
  BY <1>1, <1>2, <1>4
     DEF ConfigInv, ConfigTypeOK, BuiltInv, StampInv, AllOrNothing, BackendMatches, BuildDone,
         Booted
<1> QED
  BY <1>3, <1>4

\* No step of the goroutine that syncs, of the main loop or of the discovery ends
\* the invariant.
LEMMA ConfigureConfigInv ==
    ASSUME ConfigInv, Change \/ Tick \/ Sync \/ StoreConfig \/ Exit
    PROVE  ConfigInv'
<1>1. /\ world \in Worlds /\ main \in MainStates /\ cancelled \in BOOLEAN
      /\ cache \in [IDs -> Backends \cup {NoBackend}]
      /\ handler \in {"unset", "ok", "failed"}
      /\ built \in Configs
  BY DEF ConfigInv, ConfigTypeOK
<1>2. CASE Change
  BY <1>1, <1>2, TaskConfigInv DEF Change, syncVars
<1>3. CASE Tick
  BY <1>1, <1>3, TaskConfigInv DEF Tick
<1>4. CASE Exit
  BY <1>1, <1>4, TaskConfigInv DEF Exit
<1>5. CASE StoreConfig
  <2>1. current' \in channel /\ channel' = {} /\ current' \in Configs
    BY <1>5 DEF StoreConfig, ConfigInv, ConfigTypeOK
  <2>2. UNCHANGED <<world, cache, handler, pc, todo, built, main, cancelled>>
    BY <1>5 DEF StoreConfig, syncVars
  <2>3. ConfigTypeOK'
    BY <2>1, <2>2, EmptyConfig DEF ConfigInv, ConfigTypeOK
  <2>4. (BuiltInv /\ StampInv /\ AllOrNothing /\ BackendMatches)'
    BY <2>1, <2>2 DEF ConfigInv, BuiltInv, StampInv, AllOrNothing, BackendMatches
  <2> QED
    BY <2>3, <2>4 DEF ConfigInv
<1>6. CASE Sync
  <2>1. CASE ReadFails
    BY <1>1, <2>1, TaskConfigInv DEF ReadFails, Booted, MainStates
  <2>2. CASE Read
    BY <2>2, ReadConfigInv
  <2>3. CASE Build
    BY <2>3, BuildConfigInv
  <2>4. CASE BuildFails
    <3>1. PICK app \in todo :
              \/ MakeBackend(app)
              \/ GetHandler(app.backend) /\ UNCHANGED cache
      BY <2>4 DEF BuildFails
    <3>2. /\ cache' \in [IDs -> Backends \cup {NoBackend}]
          /\ handler' \in {"unset", "ok", "failed"}
      <4>1. app \in Applications
        BY ListedApplications DEF ConfigInv
      <4>2. CASE MakeBackend(app)
        BY <4>1, <4>2, MadeOfItsOwn DEF ConfigInv
      <4>3. CASE GetHandler(app.backend) /\ UNCHANGED cache
        BY <1>1, <4>3 DEF GetHandler
      <4> QED
        BY <3>1, <4>2, <4>3
    <3>3. /\ main' \in (MainStates \ {"boot"}) \cup {main} /\ pc' = "idle" /\ Returned
          /\ UNCHANGED <<world, channel, current, cancelled>>
      BY <1>1, <2>4 DEF BuildFails, Booted, MainStates
    <3> QED
      BY <3>2, <3>3, ReturnConfigInv
  <2>5. CASE BuildPanics
    BY <1>1, <2>5, TaskConfigInv DEF BuildPanics, syncVars, MainStates
  <2>6. CASE BuildDone
    BY <2>6, DoneConfigInv
  <2>7. CASE Send
    <3>1. built \in Configs /\ todo = {} /\ built.apps = {m.app : m \in built.mounts}
          /\ \A m \in built.mounts : m.made = m.app.backend
      BY <2>7 DEF Send, ConfigInv, ConfigTypeOK, BuiltInv
    <3>2. /\ channel' = {built} /\ pc' = "idle" /\ Returned /\ pc = "send"
          /\ UNCHANGED <<world, cache, handler, current, main, cancelled>>
      BY <2>7 DEF Send
    <3>3. Cardinality(channel') <= 1
      <4>1. Cardinality({built}) = 1
        BY FS_Singleton
      <4> QED
        BY <3>2, <4>1
    <3>4. ConfigTypeOK'
      BY <3>1, <3>2, <3>3, ReturnedInv DEF ConfigInv, ConfigTypeOK
    <3>5. BuiltInv'
      BY <3>1, <3>2, ReturnedInv DEF BuiltInv
    <3>6. StampInv'
      <4>1. built.stamp \in Int
        BY <3>1 DEF Configs
      <4> QED
        BY <3>1, <3>2, <4>1, ReturnedInv DEF ConfigInv, StampInv
    <3>7. (AllOrNothing /\ BackendMatches)'
      BY <3>1, <3>2 DEF ConfigInv, AllOrNothing, BackendMatches
    <3> QED
      BY <3>4, <3>5, <3>6, <3>7 DEF ConfigInv
  <2>8. CASE Drop
    BY <1>1, <2>8, ReturnConfigInv DEF Drop
  <2> QED
    BY <1>6, <2>1, <2>2, <2>3, <2>4, <2>5, <2>6, <2>7, <2>8 DEF Sync
<1> QED
  BY <1>2, <1>3, <1>4, <1>5, <1>6

-----------------------------------------------------------------------------
(* The tasks                                                               *)

\* The process ends, or starts the tasks, in steps of Serve only.
LEMMA ConfigureMain ==
    ASSUME Change \/ Tick \/ Sync \/ StoreConfig \/ Exit
    PROVE  \/ main' = main
           \/ main' = "crashed"
           \/ main = "boot" /\ main' = "ready"
<1>1. CASE Sync
  BY <1>1 DEF Sync, ReadFails, Read, Build, BuildFails, BuildPanics, BuildDone, Send, Drop,
              Booted
<1>2. CASE Change \/ Tick \/ StoreConfig \/ Exit
  BY <1>2 DEF Change, Tick, StoreConfig, Exit
<1> QED
  BY <1>1, <1>2

\* All tasks are off when the process starts.
LEMMA InitProcessInv == Init => ProcessInv
  BY ServerAssumption
     DEF Init, ConfigInit, Fresh, ProcessInv, ProcessTypeOK, ListenerInv, MainInv,
         CertbusAtStart

\* A step of one listener keeps what its shutdowner knows, and the others'.
LEMMA ListenerStep ==
    ASSUME ProcessInv, NEW p \in Ports,
           RequestArrives(p) \/ RequestEnds(p) \/ ListenerFails(p) \/ Listen(p)
    PROVE  ProcessInv'
<1> USE DEF ProcessInv
<1>1. UNCHANGED <<main, certbus>>
  BY DEF RequestArrives, RequestEnds, ListenerFails, Listen, ShutdownBegins, ServeReturns,
         ShutdownReturns, ListenerEnds, configVars
<1>2. /\ main # "gone"
      /\ \A q \in Ports : open[q] \in 0..MaxOpen
      /\ MaxOpen \in Nat
  BY ServerAssumption
     DEF RequestArrives, RequestEnds, ListenerFails, Listen, ShutdownBegins, ServeReturns,
         ShutdownReturns, ListenerEnds, Alive, ProcessTypeOK
<1>3. CASE RequestArrives(p)
  <2>1. open[p] + 1 \in 0..MaxOpen
    BY <1>2, <1>3 DEF RequestArrives
  <2>2. UNCHANGED <<listener, shutdowner>> /\ listener[p] = "accepting" /\ shutdowner[p] = "waits"
    BY <1>3 DEF RequestArrives
  <2>3. open' = [open EXCEPT ![p] = @ + 1]
    BY <1>3 DEF RequestArrives
  <2>4. ProcessTypeOK'
    BY <1>1, <2>1, <2>2, <2>3 DEF ProcessTypeOK
  <2>5. ListenerInv' /\ MainInv'
    BY <1>1, <2>2, <2>3 DEF ProcessTypeOK, ListenerInv, MainInv
  <2> QED
    BY <2>4, <2>5
<1>4. CASE RequestEnds(p)
  <2>1. open[p] - 1 \in 0..MaxOpen /\ open[p] # 0
    BY <1>2, <1>4 DEF RequestEnds
  <2>2. UNCHANGED <<listener, shutdowner>>
    BY <1>4 DEF RequestEnds
  <2>3. open' = [open EXCEPT ![p] = @ - 1]
    BY <1>4 DEF RequestEnds
  <2>4. ProcessTypeOK'
    BY <1>1, <2>1, <2>2, <2>3 DEF ProcessTypeOK
  <2>5. ListenerInv' /\ MainInv'
    BY <1>1, <2>1, <2>2, <2>3 DEF ProcessTypeOK, ListenerInv, MainInv
  <2> QED
    BY <2>4, <2>5
<1>5. CASE ListenerFails(p)
  BY <1>1, <1>2, <1>5 DEF ListenerFails, ProcessTypeOK, ListenerInv, MainInv
<1>6. CASE ShutdownBegins(p)
  BY <1>1, <1>2, <1>6 DEF ShutdownBegins, ProcessTypeOK, ListenerInv, MainInv
<1>7. CASE ServeReturns(p)
  BY <1>1, <1>2, <1>7 DEF ServeReturns, ProcessTypeOK, ListenerInv, MainInv
<1>8. CASE ShutdownReturns(p)
  BY <1>1, <1>2, <1>8 DEF ShutdownReturns, ProcessTypeOK, ListenerInv, MainInv
<1>9. CASE ListenerEnds(p)
  BY <1>1, <1>2, <1>9 DEF ListenerEnds, ProcessTypeOK, ListenerInv, MainInv
<1> QED
  BY <1>3, <1>4, <1>5, <1>6, <1>7, <1>8, <1>9 DEF Listen

\* Every step keeps both halves of the invariant.
LEMMA NextIInv == IInv /\ [Next]_vars => IInv'
<1> SUFFICES ASSUME IInv, [Next]_vars PROVE IInv'
  OBVIOUS
<1> USE DEF IInv
<1>1. /\ world \in Worlds /\ main \in MainStates /\ cancelled \in BOOLEAN
  BY DEF ConfigInv, ConfigTypeOK
<1>2. CASE Configure
  <2>1. ConfigInv'
    BY <1>2, ConfigureConfigInv DEF Configure
  <2>2. UNCHANGED processVars
    BY <1>2 DEF Configure
  <2>3. \/ main' = main
        \/ main' = "crashed"
        \/ main = "boot" /\ main' = "ready"
    BY <1>2, ConfigureMain DEF Configure
  <2>4. ProcessInv'
    BY <2>2, <2>3 DEF ProcessInv, ProcessTypeOK, ListenerInv, MainInv, processVars
  <2> QED
    BY <2>1, <2>4
<1>3. CASE StartTasks
  <2>1. ConfigInv'
    BY <1>1, <1>3, TaskConfigInv DEF StartTasks, syncVars, MainStates
  <2>2. ProcessInv'
    BY <1>3 DEF StartTasks, ProcessInv, ProcessTypeOK, ListenerInv, MainInv
  <2> QED
    BY <2>1, <2>2
<1>4. CASE EarlyExit
  <2>1. ConfigInv'
    BY <1>1, <1>4, TaskConfigInv DEF EarlyExit, MainStates
  <2>2. ProcessInv'
    BY <1>4 DEF EarlyExit, ProcessInv, ProcessTypeOK, ListenerInv, MainInv, processVars
  <2> QED
    BY <2>1, <2>2
<1>5. CASE Signal \/ CancelOthers
  <2>1. ConfigInv'
    BY <1>1, <1>5, TaskConfigInv DEF Signal, CancelOthers, syncVars
  <2>2. ProcessInv'
    BY <1>5 DEF Signal, CancelOthers, ProcessInv, ProcessTypeOK, ListenerInv, MainInv,
                processVars
  <2> QED
    BY <2>1, <2>2
<1>6. CASE Return
  <2>1. ConfigInv'
    BY <1>1, <1>6, TaskConfigInv DEF Return, syncVars, MainStates
  <2>2. ProcessInv'
    BY <1>6 DEF Return, TasksEnded, ProcessInv, ProcessTypeOK, ListenerInv, MainInv,
                processVars
  <2> QED
    BY <2>1, <2>2
<1>7. CASE Restart
  <2>1. ConfigInv'
    BY <1>7, AfreshConfigInv DEF Restart
  <2>2. ProcessInv'
    BY <1>7, ServerAssumption
       DEF Restart, StartAfresh, ProcessInv, ProcessTypeOK, ListenerInv, MainInv,
           CertbusAtStart
  <2> QED
    BY <2>1, <2>2
<1>8. CASE CertbusEnds
  <2>1. ConfigInv'
    BY <1>1, <1>8, TaskConfigInv DEF CertbusEnds, configVars, syncVars
  <2>2. ProcessInv'
    BY <1>8 DEF CertbusEnds, configVars, ProcessInv, ProcessTypeOK, ListenerInv, MainInv
  <2> QED
    BY <2>1, <2>2
<1>9. CASE \E p \in Ports :
              RequestArrives(p) \/ RequestEnds(p) \/ ListenerFails(p) \/ Listen(p)
  <2>1. UNCHANGED configVars
    BY <1>9 DEF RequestArrives, RequestEnds, ListenerFails, Listen, ShutdownBegins,
                ServeReturns, ShutdownReturns, ListenerEnds
  <2>2. ConfigInv'
    BY <1>1, <2>1, TaskConfigInv DEF configVars, syncVars
  <2> QED
    BY <1>9, <2>2, ListenerStep
<1>10. CASE UNCHANGED vars
  <2>1. ConfigInv'
    BY <1>1, <1>10, TaskConfigInv DEF vars, configVars, syncVars
  <2>2. ProcessInv'
    BY <1>10 DEF vars, configVars, processVars, ProcessInv, ProcessTypeOK, ListenerInv,
                 MainInv
  <2> QED
    BY <2>1, <2>2
<1> QED
  BY <1>2, <1>3, <1>4, <1>5, <1>6, <1>7, <1>8, <1>9, <1>10 DEF Next, Serve

-----------------------------------------------------------------------------
(* Theorems                                                                *)

\* The invariant holds in every state of the server.
THEOREM Invariant == Spec => []IInv
<1>1. Init => IInv
  BY InitConfigInv, InitProcessInv DEF Init, IInv
<1> QED
  BY <1>1, NextIInv, PTL DEF Spec

\* Every variable of the server has its type, however many applications, listeners
\* and requests there are.
THEOREM TypeCorrect == Spec => []ServerTypeOK
<1>1. IInv => ServerTypeOK
  BY DEF IInv, ConfigInv, ProcessInv, ProcessTypeOK, ServerTypeOK
<1> QED
  BY <1>1, Invariant, PTL

\* Requests see all applications of one read of the discovery, or none of it.
THEOREM ReadsWhole == Spec => []AllOrNothing
<1>1. IInv => AllOrNothing
  BY DEF IInv, ConfigInv
<1> QED
  BY <1>1, Invariant, PTL

\* An application is served by a backend made of its own configuration.
THEOREM BackendsMatch == Spec => []BackendMatches
<1>1. IInv => BackendMatches
  BY DEF IInv, ConfigInv
<1> QED
  BY <1>1, Invariant, PTL

\* A process that ends has answered the requests of all its listeners, but of one
\* that failed by itself.
THEOREM EndsGracefully == Spec => []NothingCutOff
<1>1. IInv => NothingCutOff
  BY DEF IInv, ProcessInv, ListenerInv, MainInv, NothingCutOff
<1> QED
  BY <1>1, Invariant, PTL

\* A config is never replaced by one that was read before it, while the process
\* lives.
THEOREM ConfigsGoForward == Spec => NeverGoesBack
<1>1. IInv /\ [Next]_vars => [current'.stamp >= current.stamp \/ ~Alive]_configVars
  <2> SUFFICES ASSUME IInv, [Next]_vars, Alive
               PROVE  current'.stamp >= current.stamp \/ UNCHANGED configVars
    OBVIOUS
  <2>1. /\ current.stamp \in Int /\ built.stamp \in Int
        /\ current.stamp <= built.stamp
        /\ \A c \in channel : c.stamp \in Int /\ current.stamp <= c.stamp
    BY DEF IInv, ConfigInv, ConfigTypeOK, StampInv, Configs
  <2>2. \/ current' = current
        \/ current' = built
        \/ current' \in channel
        \/ UNCHANGED configVars
    <3>1. CASE Change \/ Tick \/ Exit \/ StoreConfig
      BY <3>1 DEF Change, Tick, Exit, StoreConfig
    <3>2. CASE Sync
      BY <3>2 DEF Sync, ReadFails, Read, Build, BuildFails, BuildPanics, BuildDone, Send, Drop
    <3>3. CASE StartTasks \/ CancelOthers \/ Return \/ EarlyExit \/ Signal
      BY <3>3 DEF StartTasks, CancelOthers, Return, EarlyExit, Signal
    <3>4. CASE CertbusEnds \/ UNCHANGED vars
      BY <3>4 DEF CertbusEnds, vars
    <3>5. CASE \E p \in Ports :
                  RequestArrives(p) \/ RequestEnds(p) \/ ListenerFails(p) \/ Listen(p)
      BY <3>5 DEF RequestArrives, RequestEnds, ListenerFails, Listen, ShutdownBegins,
                  ServeReturns, ShutdownReturns, ListenerEnds
    <3>6. ~Restart
      BY DEF Restart
    <3> QED
      BY <3>1, <3>2, <3>3, <3>4, <3>5, <3>6 DEF Next, Configure, Serve
  <2> QED
    BY <2>1, <2>2
<1> QED
  BY <1>1, Invariant, PTL DEF Spec, NeverGoesBack

\* What "discovery put" has validated makes the factory, and with it the server,
\* panic only as turbocharged content without a manifest, or in a backend nested
\* in an authenticating one, whose options Validate() never looks at
\* (appconfig.go:50-124, backendfactory.go:67-105).
THEOREM ValidatedPanics ==
    ASSUME NEW app, app.backend \in Seq([kind : STRING, opts : STRING]), app.backend # <<>>,
           Valid(app), FactoryPanics(app.backend)
    PROVE  \/ app.backend[1].kind = "turbocharger" /\ app.backend[1].opts = NilOpts
           \/ \E i \in 2..Len(app.backend) :
                 app.backend[i].opts = NilOpts \/ AuthorizesNothing(app.backend, i)
<1> DEFINE b == app.backend
<1>1. PICK i \in DOMAIN b : \/ b[i].kind \in BackendKinds \ Optionless /\ b[i].opts = NilOpts
                            \/ AuthorizesNothing(b, i)
  BY DEF FactoryPanics
<1>2. i \in 1..Len(b)
  BY <1>1
<1>3. CASE i = 1
  BY <1>1, <1>3 DEF Valid, ValidatePanics, ValidOpts
<1>4. CASE i # 1
  BY <1>1, <1>2, <1>4
<1> QED
  BY <1>3, <1>4
=============================================================================
