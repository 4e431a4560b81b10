----------------------------- MODULE KeyedLock -----------------------------
(***************************************************************************)
(* What syncutil.MutexMap promises its callers: "an infinite number of     *)
(* named bathroom stalls. Each named stall can only be occupied by one     *)
(* person" (mutexmap.go:8-9).  The map of channels, the master mutex and   *)
(* the wait-and-retry loop are hidden; MutexMap shows that they implement  *)
(* this.  The modules of MutexMap's callers (ManifestResolve,              *)
(* FileHydration) instantiate this one and use Acquire and Release as the  *)
(* effect of TryLock(), Lock() and the returned unlock().                  *)
(***************************************************************************)
CONSTANTS Clients,  \* goroutines that lock
          Keys      \* names of the stalls

VARIABLE held       \* the pairs <<client, key>> whose stall is occupied

TypeOK == held \subseteq (Clients \X Keys)

Init == held = {}

Free(k) == \A c \in Clients : <<c, k>> \notin held

\* TryLock() returning true, or Lock() returning.
Acquire(c, k) == /\ Free(k)
                 /\ held' = held \cup {<<c, k>>}

\* The unlock callback.
Release(c, k) == /\ <<c, k>> \in held
                 /\ held' = held \ {<<c, k>>}

Next == \E c \in Clients, k \in Keys : Acquire(c, k) \/ Release(c, k)

Spec == Init /\ [][Next]_held

\* A stall is occupied by one goroutine at most.
MutualExclusion ==
    \A c, d \in Clients, k \in Keys :
        <<c, k>> \in held /\ <<d, k>> \in held => c = d
=============================================================================
