---------------------------- MODULE AppRegistry ----------------------------
(***************************************************************************)
(* The applications as events of one EventHorizon stream                   *)
(* (pkg/erdiscovery/ehdiscovery), the command line that edits them (read,  *)
(* check, append: cmd/edgerouter/discovery.go and the "mk" and "deploy"    *)
(* commands of the backends), and the routers, each of which follows the   *)
(* stream with a cursor of its own.                                        *)
(*                                                                         *)
(* The stream is external: it appends atomically and in some order, and    *)
(* nothing in an append depends on what the writer had read.               *)
(***************************************************************************)
EXTENDS Naturals, SequencesExt

CONSTANTS Operators, \* command line processes, one command after the other
          Routers,   \* "edgerouter serve" processes
          IDs,       \* application IDs
          Frontends, \* an application's frontends
          Kinds,     \* kinds of backends: "s3", "lambda", "turbocharger"
          Versions,  \* what a deploy points a backend to
          MaxLog     \* the stream gets so long

ASSUME RegistryAssumption == MaxLog \in Nat

NoVersion == ""

\* Lambda backends have no version; the others may have none before a deployment.
Config == {c \in [frontends : Frontends, kind : Kinds, version : Versions \cup {NoVersion}] :
              c.kind = "lambda" => c.version = NoVersion}

Absent == [frontends |-> "none", kind |-> "none", version |-> NoVersion]

\* AppUpdated carries the whole application, AppDeleted stands for Absent.
Event == [id : IDs, app : Config \cup {Absent}]
NoEvent == [id |-> "none", app |-> Absent]

\* An event of a type that a newer version has introduced.
Unknown == [id |-> "unknown", app |-> Absent]

VARIABLES
    log,     \* the events of stream "/loadbalancer"
    event,   \* [Operators -> the event it is about to append, if any]
    cursor,  \* [Routers -> events processed]: ehDiscovery.cursor
    apps,    \* [Routers -> ehDiscovery.apps]
    served   \* [Routers -> what the last ReadApplications() returned]

registryVars == <<log, event, cursor, apps, served>>

Nothing == [i \in IDs |-> Absent]

RegistryTypeOK ==
    /\ log \in Seq(Event \cup {Unknown}) /\ Len(log) <= MaxLog
    /\ event \in [Operators -> Event \cup {NoEvent}]
    /\ \A r \in Routers : /\ cursor[r] \in 0..Len(log)
                          /\ apps[r] \in [IDs -> Config \cup {Absent}]
                          /\ served[r] \in [IDs -> Config \cup {Absent}]

RegistryInit ==
    /\ log = <<>>
    /\ event = [o \in Operators |-> NoEvent]
    /\ cursor = [r \in Routers |-> 0]
    /\ apps = [r \in Routers |-> Nothing]
    /\ served = [r \in Routers |-> Nothing]

-----------------------------------------------------------------------------
\* Fault: AppDeleted is ignored.
ProcessUpdate(known, e) ==
    IF e.app = Absent THEN known ELSE [known EXCEPT ![e.id] = e.app]

\* processEvent: d.apps after an event.
ProcessEvent(known, e) == [known EXCEPT ![e.id] = e.app]

AllKnown(events) == Unknown \notin ToSet(events)

\* The events, in their order, on top of what is known.
Process(known, events) ==
    LET after[n \in 0..Len(events)] ==
            IF n = 0 THEN known ELSE ProcessEvent(after[n - 1], events[n])
    IN after[Len(events)]

\* What the first n events of the stream say of an application: the last of them.
Latest(id, n) ==
    LET about == {i \in 1..n : log[i].id = id}
    IN IF about = {} THEN Absent
       ELSE log[CHOOSE i \in about : \A j \in about : j <= i].app

-----------------------------------------------------------------------------
(* The command line                                                        *)

\* ReadApplications() of a process that has just started: it replays the stream.
Existing(id) == Process(Nothing, log)[id]

\* The command has read and checked, and is about to append an event.
Prepares(o, id, app) ==
    /\ event[o] = NoEvent /\ Len(log) < MaxLog
    /\ event' = [event EXCEPT ![o] = [id |-> id, app |-> app]]
    /\ UNCHANGED <<log, cursor, apps, served>>

\* "discovery put --new" and "discovery put".
PutNew(o, id, config) == Existing(id) = Absent /\ Prepares(o, id, config)

Put(o, id, config) == Existing(id) # Absent /\ Prepares(o, id, config)

\* "s3 mk" and "lambda mk".
Make(o, id, config) ==
    /\ Existing(id) = Absent
    /\ config.kind \in {"s3", "lambda"} /\ config.version = NoVersion
    /\ Prepares(o, id, config)

\* "discovery rm".
Delete(o, id) == Existing(id) # Absent /\ Prepares(o, id, Absent)

\* The "deploy" of an S3 site (S3Deploy is about what it does in between) and of
\* a turbocharged one: the application as it was read, at the new version.
Deploy(o, id, kind, version) ==
    /\ Existing(id).kind = kind
    /\ Prepares(o, id, [Existing(id) EXCEPT !.version = version])

\* UpdateApplication() and DeleteApplication().
AppendEvent(o) ==
    /\ event[o] # NoEvent /\ Len(log) < MaxLog
    /\ log' = Append(log, event[o])
    /\ event' = [event EXCEPT ![o] = NoEvent]
    /\ UNCHANGED <<cursor, apps, served>>

\* The append fails, or the process is killed.
GiveUp(o) ==
    /\ event[o] # NoEvent
    /\ event' = [event EXCEPT ![o] = NoEvent]
    /\ UNCHANGED <<log, cursor, apps, served>>

\* A newer version of edgerouter appends an event of its own.
NewerAppends ==
    /\ Len(log) < MaxLog
    /\ log' = Append(log, Unknown)
    /\ UNCHANGED <<event, cursor, apps, served>>

-----------------------------------------------------------------------------
(* A router                                                                *)

Batch(r, n) == SubSeq(log, cursor[r] + 1, n)

\* Fault: the first event of the next batch is taken for processed.
SkipOne(r) ==
    /\ \E n \in (cursor[r] + 1)..Len(log) :
          /\ AllKnown(Batch(r, n))
          /\ apps' = [apps EXCEPT ![r] = Process(@, Tail(Batch(r, n)))]
          /\ cursor' = [cursor EXCEPT ![r] = n]
    /\ UNCHANGED <<log, event, served>>

\* ProcessEvents() of one batch, inside appsMu; then the cursor is committed.
LoadBatch(r) ==
    /\ \E n \in (cursor[r] + 1)..Len(log) :
          /\ AllKnown(Batch(r, n))
          /\ apps' = [apps EXCEPT ![r] = Process(@, Batch(r, n))]
          /\ cursor' = [cursor EXCEPT ![r] = n]
    /\ UNCHANGED <<log, event, served>>

\* UnsupportedEventTypeErr: the read fails and the cursor is not committed.  What
\* came before the event in its batch may have been processed.
BatchFails(r) ==
    /\ \E n \in cursor[r]..(Len(log) - 1) :
          /\ log[n + 1] = Unknown /\ AllKnown(Batch(r, n))
          /\ apps' = [apps EXCEPT ![r] = Process(@, Batch(r, n))]
    /\ UNCHANGED <<log, event, cursor, served>>

\* LoadUntilRealtime() has come to the end: ReadApplications() returns.
ReturnApplications(r) ==
    /\ cursor[r] = Len(log)
    /\ served' = [served EXCEPT ![r] = apps[r]]
    /\ UNCHANGED <<log, event, cursor, apps>>

\* The cursor is kept in memory only: a restarted router begins at the start
\* of the stream.
Restart(r) ==
    /\ cursor' = [cursor EXCEPT ![r] = 0]
    /\ apps' = [apps EXCEPT ![r] = Nothing]
    /\ served' = [served EXCEPT ![r] = Nothing]
    /\ UNCHANGED <<log, event>>

-----------------------------------------------------------------------------
\* Each begins with a read, which fails if the stream has an event it does not know.
Command(o) ==
    /\ AllKnown(log)
    /\ \E id \in IDs :
          \/ \E config \in Config :
                PutNew(o, id, config) \/ Put(o, id, config) \/ Make(o, id, config)
          \/ Delete(o, id)
          \/ \E kind \in {"s3", "turbocharger"}, version \in Versions :
                Deploy(o, id, kind, version)

Edit == \E o \in Operators : Command(o) \/ AppendEvent(o) \/ GiveUp(o)

Follow(r) == LoadBatch(r) \/ ReturnApplications(r)

RegistryNext == Edit \/ NewerAppends \/ \E r \in Routers : Follow(r) \/ BatchFails(r) \/ Restart(r)

RegistrySpec == RegistryInit /\ [][RegistryNext]_registryVars

\* A router polls (ConfigSync's ticker); nobody has to edit anything.
RegistryFairSpec == RegistrySpec /\ \A r \in Routers : WF_registryVars(Follow(r))

-----------------------------------------------------------------------------
(* Properties                                                              *)

\* What the stream says of an application at the router's cursor; or at an event
\* further on that the router does not know, where a batch failed half way, which
\* is processed again on top of that.
Fresh(r, id, n) ==
    /\ \/ n = cursor[r]
       \/ n < Len(log) /\ AllKnown(Batch(r, n)) /\ log[n + 1] = Unknown
    /\ apps[r][id] = Latest(id, n)

\* Whatever batches the stream came in, and over restarts, each application that
\* a router knows is what the events up to its cursor say last of it, or those up
\* to one that it does not know.  The two may mix, when a shorter batch follows on
\* one that failed; but what is served is what the stream said at one point, of
\* all applications (ehdiscovery.go:51-71, 93-120).
ViewIsPrefix ==
    \A r \in Routers :
        /\ \A id \in IDs : \E n \in cursor[r]..Len(log) : Fresh(r, id, n)
        /\ \E n \in 0..Len(log) : \A id \in IDs : served[r][id] = Latest(id, n)

\* Once nobody edits and no router restarts, all routers come to serve the
\* same applications, those that the stream says, unless it has an event that
\* they do not know: they keep what they had (ehdiscovery.go:115-116).
RoutersConverge ==
    <>[][log' = log /\ \A r \in Routers : ~Restart(r)]_registryVars =>
        <>[](\/ ~AllKnown(log)
             \/ \A r \in Routers, id \in IDs : served[r][id] = Latest(id, Len(log)))
=============================================================================
