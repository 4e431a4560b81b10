------------------------------- MODULE Server -------------------------------
(***************************************************************************)
(* The process "edgerouter serve" (Serve, pkg/erserver/serve.go:40-258):   *)
(* its start, the first sync, the tasks (two listeners, the scheduler of   *)
(* ConfigSync, the sync of certificates), and how it ends: by a signal, by *)
(* a task that fails, by an early exit, or by a panic outside a request.   *)
(* A listener is ended by cancelableServer (pkg/erserver/utils.go:25-54),  *)
(* of which the goroutine that calls Shutdown() is a process of its own.   *)
(*                                                                         *)
(* External: taskrunner cancels the context of all tasks when one ends,    *)
(* and Done() delivers when all have ended; systemd (the service that      *)
(* "install-as-service" makes) starts a process that is gone again.        *)
(***************************************************************************)
EXTENDS ConfigSync

CONSTANTS Ports,       \* ":443" and ":80"
          MaxOpen,     \* requests in flight at a listener, at most
          UsesCertbus  \* CERTBUS_CLIENT_PRIVKEY is set

ASSUME ServerAssumption == MaxOpen \in Nat /\ UsesCertbus \in BOOLEAN

VARIABLES
    certbus,    \* the certificates' task: "off", "runs" or "ended"
    listener,   \* what ListenAndServe() of a port is doing, and cancelableServer
    shutdowner, \* the goroutine that calls Shutdown() of it
    open        \* requests in flight at it

processVars == <<certbus, listener, shutdowner, open>>
vars == <<configVars, processVars>>

ServerTypeOK ==
    /\ ConfigTypeOK
    /\ certbus \in {"off", "runs", "ended"}
    /\ listener \in [Ports -> {"off", "accepting", "closed", "failed", "ended"}]
    /\ shutdowner \in [Ports -> {"waits", "drains", "done"}]
    /\ open \in [Ports -> 0..MaxOpen]

\* Certificates come by certbus, or from a file on a developer's machine.
CertbusAtStart == IF UsesCertbus THEN "runs" ELSE "off"

Init ==
    /\ ConfigInit
    /\ certbus = CertbusAtStart
    /\ listener = [p \in Ports |-> "off"]
    /\ shutdowner = [p \in Ports |-> "waits"]
    /\ open = [p \in Ports |-> 0]

-----------------------------------------------------------------------------
(* Serve                                                                   *)

\* The rules for addresses are loaded, the other tasks are started.
StartTasks ==
    /\ main = "ready"
    /\ main' = "loop"
    /\ listener' = [p \in Ports |-> "accepting"]
    /\ UNCHANGED <<world, syncVars, channel, current, cancelled, certbus, shutdowner, open>>

\* configureDiscovery or loadIPRules returns an error: the deferred functions
\* cancel the tasks and wait for the one there is.
EarlyExit ==
    /\ main = "ready" \/ (main = "boot" /\ pc = "read")
    /\ main' = "leaving"
    /\ cancelled' = TRUE
    /\ pc' = "exited"
    /\ UNCHANGED <<world, cache, handler, todo, built, channel, current, processVars>>

\* CancelOnInterruptOrTerminate.
Signal ==
    /\ Alive
    /\ cancelled' = TRUE
    /\ UNCHANGED <<world, syncVars, channel, current, main, processVars>>

TaskEnded ==
    \/ certbus = "ended" \/ pc = "exited"
    \/ \E p \in Ports : listener[p] \in {"failed", "ended"}

TasksEnded ==
    /\ certbus # "runs" /\ pc = "exited"
    /\ \A p \in Ports : listener[p] \in {"off", "failed", "ended"}

CancelOthers ==
    /\ main = "loop" /\ TaskEnded
    /\ cancelled' = TRUE
    /\ UNCHANGED <<world, syncVars, channel, current, main, processVars>>

Return ==
    /\ main \in {"loop", "leaving"} /\ TasksEnded
    /\ main' = "gone"
    /\ UNCHANGED <<world, syncVars, channel, current, cancelled, processVars>>

\* Its Synchronizer returns, with an error, or as its context is cancelled.
CertbusEnds ==
    /\ Alive /\ certbus = "runs"
    /\ certbus' = "ended"
    /\ UNCHANGED <<configVars, listener, shutdowner, open>>

\* systemd.
Restart ==
    /\ ~Alive
    /\ StartAfresh
    /\ certbus' = CertbusAtStart
    /\ listener' = [p \in Ports |-> "off"]
    /\ shutdowner' = [p \in Ports |-> "waits"]
    /\ open' = [p \in Ports |-> 0]
    /\ UNCHANGED world

-----------------------------------------------------------------------------
(* A listener                                                              *)

RequestArrives(p) ==
    /\ Alive /\ listener[p] = "accepting" /\ shutdowner[p] = "waits"
    /\ open[p] < MaxOpen
    /\ open' = [open EXCEPT ![p] = @ + 1]
    /\ UNCHANGED <<configVars, certbus, listener, shutdowner>>

RequestEnds(p) ==
    /\ Alive /\ open[p] > 0
    /\ open' = [open EXCEPT ![p] = @ - 1]
    /\ UNCHANGED <<configVars, certbus, listener, shutdowner>>

\* The port is taken, or an accept fails: an error other than ErrServerClosed
\* is returned at once, and cancels the context of the shutdowner.
ListenerFails(p) ==
    /\ Alive /\ listener[p] = "accepting" /\ shutdowner[p] = "waits"
    /\ listener' = [listener EXCEPT ![p] = "failed"]
    /\ UNCHANGED <<configVars, certbus, shutdowner, open>>

\* Shutdown() begins: nothing is accepted any more.
ShutdownBegins(p) ==
    /\ Alive /\ shutdowner[p] = "waits" /\ listener[p] # "off"
    /\ cancelled \/ listener[p] = "failed"
    /\ shutdowner' = [shutdowner EXCEPT ![p] = "drains"]
    /\ UNCHANGED <<configVars, certbus, listener, open>>

\* ListenAndServe() returns ErrServerClosed as soon as Shutdown() has begun.
ServeReturns(p) ==
    /\ Alive /\ listener[p] = "accepting" /\ shutdowner[p] # "waits"
    /\ listener' = [listener EXCEPT ![p] = "closed"]
    /\ UNCHANGED <<configVars, certbus, shutdowner, open>>

\* Shutdown() returns when no request is in flight: it has no deadline.
ShutdownReturns(p) ==
    /\ Alive /\ shutdowner[p] = "drains" /\ open[p] = 0
    /\ shutdowner' = [shutdowner EXCEPT ![p] = "done"]
    /\ UNCHANGED <<configVars, certbus, listener, open>>

\* Fault: cancelableServer returns what ListenAndServe() returned.
ListenerEndsAtOnce(p) ==
    /\ Alive /\ listener[p] = "closed"
    /\ listener' = [listener EXCEPT ![p] = "ended"]
    /\ UNCHANGED <<configVars, certbus, shutdowner, open>>

\* "<-shutdownResult".
ListenerEnds(p) ==
    /\ Alive /\ listener[p] = "closed" /\ shutdowner[p] = "done"
    /\ listener' = [listener EXCEPT ![p] = "ended"]
    /\ UNCHANGED <<configVars, certbus, shutdowner, open>>

Listen(p) == ShutdownBegins(p) \/ ServeReturns(p) \/ ShutdownReturns(p) \/ ListenerEnds(p)

-----------------------------------------------------------------------------
Configure == (Change \/ Tick \/ Sync \/ StoreConfig \/ Exit) /\ UNCHANGED processVars

Serve == StartTasks \/ CancelOthers \/ Return \/ Restart

Next ==
    \/ Configure \/ Serve \/ EarlyExit \/ Signal \/ CertbusEnds
    \/ \E p \in Ports : RequestArrives(p) \/ RequestEnds(p) \/ ListenerFails(p) \/ Listen(p)

Spec == Init /\ [][Next]_vars

\* The ticker ticks, the goroutines run, of the two ready cases of a select
\* each is chosen some time, the discovery can be read now and then, and a
\* process that is gone is started again.
FairSpec ==
    /\ Spec
    /\ WF_vars(Tick /\ UNCHANGED processVars)
    /\ WF_vars(Sync /\ UNCHANGED processVars)
    /\ SF_vars(Alive /\ Read /\ UNCHANGED processVars)
    /\ SF_vars(Exit /\ UNCHANGED processVars)
    /\ WF_vars(StoreConfig /\ UNCHANGED processVars)
    /\ WF_vars(StartTasks) /\ WF_vars(CancelOthers) /\ WF_vars(Return) /\ WF_vars(Restart)
    /\ WF_vars(cancelled /\ CertbusEnds)
    /\ \A p \in Ports : WF_vars(Listen(p))

-----------------------------------------------------------------------------
(* Properties                                                              *)

\* Serve returns, and the process exits, only when every request that came in
\* has been answered, although ListenAndServe() returns as soon as Shutdown()
\* has begun (utils.go:47-48): of both listeners, whichever task ended first.
\* The exception is a listener that failed by itself (utils.go:49-52).
NothingCutOff ==
    main = "gone" => \A p \in Ports : listener[p] # "failed" => open[p] = 0

\* A server whose tasks are cancelled ends, if its requests do: no task waits
\* for another that is gone, the scheduler never blocks on a main loop that
\* "went away" (schedulersyncer.go:40-42).  One request that does not end keeps
\* the process for ever, for Shutdown() has no deadline.
RequestsEnd == \A p \in Ports : []<>(open[p] = 0)

ServeEnds == RequestsEnd => (cancelled ~> ~Alive)

\* Something outside that ends the process, or keeps it from starting.  A
\* cancellation by a task that has ended is none.
Disturbance ==
    \/ Signal /\ ~CancelOthers
    \/ EarlyExit
    \/ ~cancelled /\ CertbusEnds
    \/ \E p \in Ports : ListenerFails(p)

\* Once the applications stay as they are and each can be built, requests come
\* to see them, whatever was dropped on the way, whatever failed before, and
\* also if an earlier configuration made the server panic.  But an error of the
\* first initialization of the ManifestHandler is kept until the process ends.
EventuallyInstalled ==
    \A w \in {x \in Worlds : \A app \in x \cup Metrics :
                                FactoryTakes(app.backend) /\ Mounts(app)} :
        /\ <>[](world = w)
        /\ <>[][~Disturbance]_vars
        /\ RequestsEnd
        => \/ <>[](current.apps = w \cup Metrics)
           \/ <>[](handler = "failed")
=============================================================================
