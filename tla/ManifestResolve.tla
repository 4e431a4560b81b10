-------------------------- MODULE ManifestResolve --------------------------
(***************************************************************************)
(* ManifestHandler.resolveManifest (manifesthandler.go:307-386): many HTTP *)
(* requests need the same file list.  It is looked up in RAM, then in the  *)
(* local disk cache, then at the origin store; one request per manifest is *)
(* the producer, the others wait and start over.                           *)
(*                                                                         *)
(* cachedManifestsMu is not a variable: the look in RAM together with      *)
(* TryLock() is one critical section of it (lines 309-325), the store in   *)
(* RAM another (lines 380-383), and nothing else takes it.                 *)
(*                                                                         *)
(* Each request is one goroutine of net/http that resolves one manifest.   *)
(* A crash ends the process: the disk cache survives, nothing else does.   *)
(***************************************************************************)
EXTENDS Naturals

CONSTANTS Resolvers,  \* HTTP requests, over any number of process lifetimes
          Manifests,  \* manifest IDs they ask for
          Broken      \* IDs of stored objects that DecodeManifest rejects

ASSUME BrokenAssumption == Broken \subseteq Manifests

VARIABLES ram,      \* cachedManifests: the manifests it has
          disk,     \* cacheUncompressed: the manifests it has
          held,     \* originManifestDownloadLocks
          at,       \* where each request is
          want,     \* the manifest it needs
          fetches,  \* history: complete downloads from the origin, 2 for more
          excused   \* history: manifests whose disk copy a fault or crash prevented

manifestVars == <<ram, disk, held, at, want, fetches, excused>>

\* MutexMap, as its callers see it.
DownloadLocks == INSTANCE KeyedLock
         WITH Clients <- Resolvers, Keys <- Manifests

\* Not known to RAM yet, nobody else is to produce the manifest.
Loading == {"disk", "origin", "insert", "decode", "store"}

\* "there are no competing producers for the same manifest below this line"
Producing == Loading \cup {"release", "fail"}

Ended == {"resolved", "failed", "lost"}

ManifestPlaces == {"new", "start", "queue", "through"} \cup Producing \cup Ended

ManifestTypeOK ==
    /\ ram \subseteq Manifests
    /\ disk \subseteq Manifests
    /\ DownloadLocks!TypeOK
    /\ at \in [Resolvers -> ManifestPlaces]
    /\ want \in [Resolvers -> Manifests]
    /\ fetches \in [Manifests -> 0..2]
    /\ excused \subseteq Manifests

ManifestInit ==
    /\ ram = {}
    /\ disk = {}
    /\ DownloadLocks!Init
    /\ at = [r \in Resolvers |-> "new"]
    /\ want \in [Resolvers -> Manifests]
    /\ fetches = [m \in Manifests |-> 0]
    /\ excused = {}

\* Request r goes from one place to another.
Goes(r, from, to) == at[r] = from /\ at' = [at EXCEPT ![r] = to]

-----------------------------------------------------------------------------
(* RAM and the named lock (lines 309-337)                                  *)

NeedManifest(r) ==
    /\ Goes(r, "new", "start")
    /\ UNCHANGED <<ram, disk, held, want, fetches, excused>>

RamHit(r) ==
    /\ Goes(r, "start", "resolved")
    /\ want[r] \in ram
    /\ UNCHANGED <<ram, disk, held, want, fetches, excused>>

\* Fault: the result of TryLock() is ignored.
ProduceAnyway(r) ==
    /\ Goes(r, "start", "disk")
    /\ want[r] \notin ram
    /\ held' = held \cup {<<r, want[r]>>}
    /\ UNCHANGED <<ram, disk, want, fetches, excused>>

BecomeProducer(r) ==
    /\ Goes(r, "start", "disk")
    /\ want[r] \notin ram
    /\ DownloadLocks!Acquire(r, want[r])
    /\ UNCHANGED <<ram, disk, want, fetches, excused>>

SomeoneElseProduces(r) ==
    /\ Goes(r, "start", "queue")
    /\ want[r] \notin ram
    /\ ~DownloadLocks!Free(want[r])
    /\ UNCHANGED <<ram, disk, held, want, fetches, excused>>

\* Lock() returns: the producer, or another waiter, has let go.
LockReturns(r) ==
    /\ Goes(r, "queue", "through")
    /\ DownloadLocks!Acquire(r, want[r])
    /\ UNCHANGED <<ram, disk, want, fetches, excused>>

\* unlock(), then retry by re-entering resolveManifest.
Retry(r) ==
    /\ Goes(r, "through", "start")
    /\ DownloadLocks!Release(r, want[r])
    /\ UNCHANGED <<ram, disk, want, fetches, excused>>

-----------------------------------------------------------------------------
(* The producer (lines 343-386)                                            *)

\* A manifest that cannot be decoded is an error, also when it came from the
\* disk cache: the origin is not asked again.
AfterRead(m) == IF m \in Broken THEN "fail" ELSE "store"

DiskHit(r) ==
    /\ want[r] \in disk
    /\ Goes(r, "disk", AfterRead(want[r]))
    /\ UNCHANGED <<ram, disk, held, want, fetches, excused>>

DiskMiss(r) ==
    /\ want[r] \notin disk
    /\ Goes(r, "disk", "origin")
    /\ UNCHANGED <<ram, disk, held, want, fetches, excused>>

\* Any other read error is logged and treated as a miss.
DiskFault(r) ==
    /\ Goes(r, "disk", "origin")
    /\ excused' = excused \cup {want[r]}
    /\ UNCHANGED <<ram, disk, held, want, fetches>>

OriginRead(r) ==
    /\ Goes(r, "origin", "insert")
    /\ fetches' = [fetches EXCEPT ![want[r]] = IF @ = 2 THEN 2 ELSE @ + 1]
    /\ UNCHANGED <<ram, disk, held, want, excused>>

OriginFault(r) ==
    /\ Goes(r, "origin", "fail")
    /\ UNCHANGED <<ram, disk, held, want, fetches, excused>>

\* Fault: the disk cache is not hydrated.
InsertNothing(r) ==
    /\ Goes(r, "insert", "decode")
    /\ UNCHANGED <<ram, disk, held, want, fetches, excused>>

\* The bytes reach the disk cache before anybody has tried to decode them.
Insert(r) ==
    /\ Goes(r, "insert", "decode")
    /\ disk' = disk \cup {want[r]}
    /\ UNCHANGED <<ram, held, want, fetches, excused>>

\* A failed insert is logged; the request goes on with what it has.
InsertFault(r) ==
    /\ Goes(r, "insert", "decode")
    /\ excused' = excused \cup {want[r]}
    /\ UNCHANGED <<ram, disk, held, want, fetches>>

Decode(r) ==
    /\ Goes(r, "decode", AfterRead(want[r]))
    /\ UNCHANGED <<ram, disk, held, want, fetches, excused>>

\* optimizeManifest and the store in RAM; the lock is released after it.
Store(r) ==
    /\ Goes(r, "store", "release")
    /\ ram' = ram \cup {want[r]}
    /\ UNCHANGED <<disk, held, want, fetches, excused>>

\* Fault: the release is not deferred, an error leaves without it.
ReleaseOnSuccess(r) ==
    /\ Goes(r, "release", "resolved")
    /\ DownloadLocks!Release(r, want[r])
    /\ UNCHANGED <<ram, disk, want, fetches, excused>>

\* The deferred manifestSpecificMutexRelease(), on success and on error.
ReleaseLock(r) ==
    /\ \/ Goes(r, "release", "resolved")
       \/ Goes(r, "fail", "failed")
    /\ DownloadLocks!Release(r, want[r])
    /\ UNCHANGED <<ram, disk, want, fetches, excused>>

-----------------------------------------------------------------------------
\* The process dies and is started again: its requests are lost, what a
\* producer had downloaded but not yet inserted too.
Restart ==
    /\ ram' = {}
    /\ held' = {}
    /\ at' = [r \in Resolvers |-> IF at[r] \in {"new"} \cup Ended
                                  THEN at[r] ELSE "lost"]
    /\ excused' = excused \cup {want[r] : r \in {s \in Resolvers : at[s] = "insert"}}
    /\ UNCHANGED <<disk, want, fetches>>

Step(r) ==
    \/ RamHit(r) \/ BecomeProducer(r) \/ SomeoneElseProduces(r)
    \/ LockReturns(r) \/ Retry(r)
    \/ DiskHit(r) \/ DiskMiss(r) \/ DiskFault(r)
    \/ OriginRead(r) \/ OriginFault(r)
    \/ Insert(r) \/ InsertFault(r) \/ Decode(r)
    \/ Store(r) \/ ReleaseLock(r)

ManifestNext == Restart \/ \E r \in Resolvers : NeedManifest(r) \/ Step(r)

ManifestSpec == ManifestInit /\ [][ManifestNext]_manifestVars

\* A goroutine that can run does; that is all the scheduler promises.
ManifestFairSpec == ManifestSpec /\ \A r \in Resolvers : WF_manifestVars(Step(r))

-----------------------------------------------------------------------------
(* Properties                                                              *)

\* "there are no competing producers for the same manifest below this line"
\* (manifesthandler.go:341).
OneProducer ==
    \A r, s \in Resolvers :
        /\ at[r] \in Producing
        /\ at[s] \in Producing
        /\ want[r] = want[s]
        => r = s

\* Within one process a manifest that RAM has is not loaded again: whoever
\* waited for it finds it when it starts over (lines 309-336, 380-383).
KnownIsNotLoaded ==
    \A r \in Resolvers : at[r] \in Loading => want[r] \notin ram

\* Over concurrent requests and restarts a manifest is downloaded from the
\* origin once, but for cache faults and crashes between the download and
\* the insert: "covers loadbalancer restarts without needing access to
\* origin" (line 344).
DownloadedOnce ==
    \A m \in Manifests : m \notin excused => fetches[m] <= 1

\* Every request ends, whatever fails: the producer lets the others go on by
\* the deferred release of line 338, and they find the manifest or produce it
\* themselves.  The one exception: waiters that pass through the lock after a
\* download has failed can refuse each other for ever ("someone else already
\* downloading", line 322, can be a waiter that is just leaving).
EveryRequestEnds ==
    \A r \in Resolvers :
        \/ at[r] # "new" ~> at[r] \in Ended \cup {"lost"}
        \/ []<><<\E s \in Resolvers \ {r} :
                    Retry(s) /\ want[s] = want[r] /\ want[s] \notin ram>>_manifestVars
=============================================================================
