------------------------------ MODULE MutexMap ------------------------------
(***************************************************************************)
(* pkg/syncutil/mutexmap.go: a mutex per key, made of one map from key to  *)
(* channel guarded by masterMu.  An entry exists while its key is locked;  *)
(* a goroutine that finds one waits for the entry's channel to be closed   *)
(* and tries again.                                                        *)
(*                                                                         *)
(* Channels are heap objects: make(chan bool) returns one that nobody      *)
(* refers to, so a channel of Chans that is no longer reachable is used    *)
(* again (the garbage collector's view), which keeps the state finite      *)
(* without a bound on the number of Lock() calls.                          *)
(*                                                                         *)
(* A goroutine of this program holds at most one key of one MutexMap.      *)
(***************************************************************************)
CONSTANTS Clients,   \* goroutines
          Keys,      \* lock names
          Chans,     \* channels the allocator can return
          NoClient,  \* masterMu is not held
          NoKey,     \* no call in progress
          NoChan     \* Go's nil channel: no entry, or none returned

ASSUME DistinctAssumption ==
    /\ NoClient \notin Clients
    /\ NoKey \notin Keys
    /\ NoChan \notin Chans

VARIABLES locks,     \* MutexMap.locks: [Keys -> channel of the entry or NoChan]
          masterMu,  \* MutexMap.masterMu: the goroutine inside, or NoClient
          closed,    \* the channels that have been closed
          pc,        \* where each goroutine is
          op,        \* which method it called
          at,        \* with which key
          ch         \* its unlock closure's channel, or the tryAgain it waits on

vars == <<locks, masterMu, closed, pc, op, at, ch>>

Places == {"idle", "enter", "inside", "waiting", "holding", "leave",
           "delete", "close"}

\* The key's entry is this goroutine's until unlock() has deleted it.
Occupying == {"holding", "leave", "delete"}

\* masterMu is held from Lock() to the deferred Unlock().
InMaster == {"inside", "delete", "close"}

TypeOK ==
    /\ locks \in [Keys -> Chans \cup {NoChan}]
    /\ masterMu \in Clients \cup {NoClient}
    /\ closed \subseteq Chans
    /\ pc \in [Clients -> Places]
    /\ op \in [Clients -> {"Lock", "TryLock"}]
    /\ at \in [Clients -> Keys \cup {NoKey}]
    /\ ch \in [Clients -> Chans \cup {NoChan}]

Init ==
    /\ locks = [k \in Keys |-> NoChan]
    /\ masterMu = NoClient
    /\ closed = {}
    /\ pc = [c \in Clients |-> "idle"]
    /\ op = [c \in Clients |-> "TryLock"]
    /\ at = [c \in Clients |-> NoKey]
    /\ ch = [c \in Clients |-> NoChan]

-----------------------------------------------------------------------------
(* tryLockInternal(), called by TryLock() and by every turn of Lock()      *)

\* A call reaches tryLockInternal and will ask for masterMu.
Call(c, k, method) ==
    /\ pc[c] = "idle"
    /\ pc' = [pc EXCEPT ![c] = "enter"]
    /\ op' = [op EXCEPT ![c] = method]
    /\ at' = [at EXCEPT ![c] = k]
    /\ UNCHANGED <<locks, masterMu, closed, ch>>

EnterMaster(c) ==
    /\ pc[c] = "enter"
    /\ masterMu = NoClient
    /\ masterMu' = c
    /\ pc' = [pc EXCEPT ![c] = "inside"]
    /\ UNCHANGED <<locks, closed, op, at, ch>>

\* make(chan bool): open, and reachable from nowhere else.
Fresh(n) ==
    /\ \A k \in Keys : locks[k] # n
    /\ \A c \in Clients : ch[c] # n

\* Fault: the entry of the key is not looked at.
ReserveUnchecked(c) ==
    /\ pc[c] = "inside"
    /\ \E unlocked \in Chans :
          /\ Fresh(unlocked)
          /\ locks' = [locks EXCEPT ![at[c]] = unlocked]
          /\ closed' = closed \ {unlocked}
          /\ ch' = [ch EXCEPT ![c] = unlocked]
    /\ masterMu' = NoClient
    /\ pc' = [pc EXCEPT ![c] = "holding"]
    /\ UNCHANGED <<op, at>>

\* No entry: reserve the key; both methods return the unlock closure.
Reserve(c) ==
    /\ pc[c] = "inside"
    /\ locks[at[c]] = NoChan
    /\ \E unlocked \in Chans :
          /\ Fresh(unlocked)
          /\ locks' = [locks EXCEPT ![at[c]] = unlocked]
          /\ closed' = closed \ {unlocked}
          /\ ch' = [ch EXCEPT ![c] = unlocked]
    /\ masterMu' = NoClient
    /\ pc' = [pc EXCEPT ![c] = "holding"]
    /\ UNCHANGED <<op, at>>

\* An entry exists: TryLock() gives up.
Refuse(c) ==
    /\ pc[c] = "inside"
    /\ locks[at[c]] # NoChan
    /\ op[c] = "TryLock"
    /\ masterMu' = NoClient
    /\ pc' = [pc EXCEPT ![c] = "idle"]
    /\ at' = [at EXCEPT ![c] = NoKey]
    /\ UNCHANGED <<locks, closed, op, ch>>

\* An entry exists: Lock() leaves masterMu and waits on the entry's channel.
Queue(c) ==
    /\ pc[c] = "inside"
    /\ locks[at[c]] # NoChan
    /\ op[c] = "Lock"
    /\ masterMu' = NoClient
    /\ pc' = [pc EXCEPT ![c] = "waiting"]
    /\ ch' = [ch EXCEPT ![c] = locks[at[c]]]
    /\ UNCHANGED <<locks, closed, op, at>>

\* Fault: the closed channel is taken for the lock, without trying again.
WakeHolding(c) ==
    /\ pc[c] = "waiting"
    /\ ch[c] \in closed
    /\ pc' = [pc EXCEPT ![c] = "holding"]
    /\ UNCHANGED <<locks, masterMu, closed, op, at, ch>>

\* "<-tryAgain" returns once the channel is closed; Lock() goes round again.
Wake(c) ==
    /\ pc[c] = "waiting"
    /\ ch[c] \in closed
    /\ pc' = [pc EXCEPT ![c] = "enter"]
    /\ ch' = [ch EXCEPT ![c] = NoChan]
    /\ UNCHANGED <<locks, masterMu, closed, op, at>>

-----------------------------------------------------------------------------
(* The unlock closure                                                      *)

CallUnlock(c) ==
    /\ pc[c] = "holding"
    /\ pc' = [pc EXCEPT ![c] = "leave"]
    /\ UNCHANGED <<locks, masterMu, closed, op, at, ch>>

EnterUnlock(c) ==
    /\ pc[c] = "leave"
    /\ masterMu = NoClient
    /\ masterMu' = c
    /\ pc' = [pc EXCEPT ![c] = "delete"]
    /\ UNCHANGED <<locks, closed, op, at, ch>>

DeleteEntry(c) ==
    /\ pc[c] = "delete"
    /\ locks' = [locks EXCEPT ![at[c]] = NoChan]
    /\ pc' = [pc EXCEPT ![c] = "close"]
    /\ UNCHANGED <<masterMu, closed, op, at, ch>>

\* Fault: unlock() deletes the entry and does not close its channel.
LeaveOpen(c) ==
    /\ pc[c] = "close"
    /\ masterMu' = NoClient
    /\ pc' = [pc EXCEPT ![c] = "idle"]
    /\ at' = [at EXCEPT ![c] = NoKey]
    /\ ch' = [ch EXCEPT ![c] = NoChan]
    /\ UNCHANGED <<locks, closed, op>>

CloseChan(c) ==
    /\ pc[c] = "close"
    /\ closed' = closed \cup {ch[c]}
    /\ masterMu' = NoClient
    /\ pc' = [pc EXCEPT ![c] = "idle"]
    /\ at' = [at EXCEPT ![c] = NoKey]
    /\ ch' = [ch EXCEPT ![c] = NoChan]
    /\ UNCHANGED <<locks, op>>

-----------------------------------------------------------------------------
Next ==
    \E c \in Clients :
        \/ \E k \in Keys, method \in {"Lock", "TryLock"} : Call(c, k, method)
        \/ EnterMaster(c)
        \/ Reserve(c)
        \/ Refuse(c)
        \/ Queue(c)
        \/ Wake(c)
        \/ CallUnlock(c)
        \/ EnterUnlock(c)
        \/ DeleteEntry(c)
        \/ CloseChan(c)

Spec == Init /\ [][Next]_vars

(***************************************************************************)
(* A goroutine that can run does; Go's sync.Mutex hands itself to a waiter *)
(* after 1 ms (starvation mode), hence strong fairness for masterMu.  The  *)
(* holder calling unlock() is the callers' obligation.  Nobody has to      *)
(* start a call.                                                           *)
(***************************************************************************)
Fairness ==
    \A c \in Clients :
        /\ SF_vars(EnterMaster(c) \/ EnterUnlock(c))
        /\ WF_vars(\/ Reserve(c) \/ Refuse(c) \/ Queue(c) \/ Wake(c)
                   \/ CallUnlock(c) \/ DeleteEntry(c) \/ CloseChan(c))

FairSpec == Spec /\ Fairness

-----------------------------------------------------------------------------
(* Properties                                                              *)

Occupies(c, k) == pc[c] \in Occupying /\ at[c] = k

\* "Each named stall can only be occupied by one person" (mutexmap.go:8-9).
MutualExclusion ==
    \A c, d \in Clients, k \in Keys : Occupies(c, k) /\ Occupies(d, k) => c = d

\* A channel on which Lock() waits has been closed, or somebody is still
\* going to close it: no wakeup falls between reading the entry inside
\* masterMu and receiving from its channel outside (mutexmap.go:29-33).
NoLostWakeup ==
    \A c \in Clients : pc[c] = "waiting" =>
        \/ ch[c] \in closed
        \/ \E d \in Clients : pc[d] \in Occupying \cup {"close"} /\ ch[d] = ch[c]

\* unlock() deletes the entry its own call made, never a later holder's, and
\* closes a channel that is still open: a second close would panic
\* (mutexmap.go:69-70).
UnlocksItsOwn ==
    \A c \in Clients :
        /\ pc[c] \in Occupying => locks[at[c]] = ch[c]
        /\ pc[c] \in Occupying \cup {"close"} => ch[c] \in Chans \ closed

\* Whoever waits in Lock() is eventually let out to try again.  It need not
\* win then: "not guaranteed - someone else might try locking same gate".
WaiterReleased ==
    \A c \in Clients : pc[c] = "waiting" ~> pc[c] # "waiting"

-----------------------------------------------------------------------------
(* Refinement of KeyedLock                                                 *)

Held == {p \in Clients \X Keys : Occupies(p[1], p[2])}

Abstract == INSTANCE KeyedLock WITH held <- Held

\* The channels and retries implement the named stalls of KeyedLock: an
\* entry is made only for a free key and removed only by its occupant.
ImplementsKeyedLock == Abstract!Spec
=============================================================================
