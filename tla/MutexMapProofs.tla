--------------------------- MODULE MutexMapProofs ---------------------------
(***************************************************************************)
(* Theorems about MutexMap for any number of goroutines, keys and          *)
(* channels: its types, mutual exclusion, the absence of lost wakeups and  *)
(* that it implements KeyedLock.                                           *)
(***************************************************************************)
EXTENDS MutexMap, TLAPS

\* Goroutines whose unlock closure still has its channel to close.
Owners == Occupying \cup {"close"}

\* masterMu is held by exactly the goroutine that is between its Lock() and
\* its deferred Unlock().
MasterInv == \A c \in Clients : pc[c] \in InMaster <=> masterMu = c

\* A call in progress has a key.
KeyInv == \A c \in Clients : pc[c] # "idle" => at[c] \in Keys

\* An entry of the map is the channel of a goroutine that occupies its key.
EntryInv ==
    \A k \in Keys : locks[k] # NoChan =>
        \E c \in Clients : Occupies(c, k) /\ ch[c] = locks[k]

\* No two unlock closures have the same channel.
OwnersDiffer ==
    \A c, d \in Clients :
        pc[c] \in Owners /\ pc[d] \in Owners /\ ch[c] = ch[d] => c = d

\* The inductive invariant.
IInv == TypeOK /\ MasterInv /\ KeyInv /\ EntryInv /\ OwnersDiffer
        /\ UnlocksItsOwn /\ NoLostWakeup

-----------------------------------------------------------------------------
\* Initially nothing is locked, so every part of the invariant holds.
LEMMA InitIInv == Init => IInv
  BY DistinctAssumption
  DEF Init, IInv, TypeOK, MasterInv, KeyInv, EntryInv, OwnersDiffer, Owners,
      UnlocksItsOwn, NoLostWakeup, Places, InMaster, Occupying, Occupies

\* Mutual exclusion follows: two occupants of a key both have its entry's
\* channel as their own.
LEMMA IInvMutex == IInv => MutualExclusion
  BY DEF IInv, MutualExclusion, UnlocksItsOwn, OwnersDiffer, Owners, Occupies

\* Every step of tryLockInternal, Lock and unlock preserves the invariant.
LEMMA StepIInv == IInv /\ [Next]_vars => IInv'
<1> SUFFICES ASSUME IInv, [Next]_vars PROVE IInv'
  OBVIOUS
<1> USE DistinctAssumption
        DEF IInv, TypeOK, MasterInv, KeyInv, EntryInv, OwnersDiffer, Owners,
            UnlocksItsOwn, NoLostWakeup, Places, InMaster, Occupying, Occupies
<1>1. ASSUME NEW c \in Clients, NEW k \in Keys,
             NEW method \in {"Lock", "TryLock"}, Call(c, k, method)
      PROVE  IInv'
  BY <1>1 DEF Call
<1>2. ASSUME NEW c \in Clients, EnterMaster(c) PROVE IInv'
  BY <1>2 DEF EnterMaster
<1>3. ASSUME NEW c \in Clients, Reserve(c) PROVE IInv'
  BY <1>3 DEF Reserve, Fresh
<1>4. ASSUME NEW c \in Clients, Refuse(c) PROVE IInv'
  BY <1>4 DEF Refuse
<1>5. ASSUME NEW c \in Clients, Queue(c) PROVE IInv'
  BY <1>5 DEF Queue
<1>6. ASSUME NEW c \in Clients, Wake(c) PROVE IInv'
  BY <1>6 DEF Wake
<1>7. ASSUME NEW c \in Clients, CallUnlock(c) PROVE IInv'
  BY <1>7 DEF CallUnlock
<1>8. ASSUME NEW c \in Clients, EnterUnlock(c) PROVE IInv'
  BY <1>8 DEF EnterUnlock
<1>9. ASSUME NEW c \in Clients, DeleteEntry(c) PROVE IInv'
  BY <1>9 DEF DeleteEntry
<1>10. ASSUME NEW c \in Clients, CloseChan(c) PROVE IInv'
  BY <1>10 DEF CloseChan
<1>11. CASE UNCHANGED vars
  BY <1>11 DEF vars
<1> QED
  BY <1>1, <1>2, <1>3, <1>4, <1>5, <1>6, <1>7, <1>8, <1>9, <1>10, <1>11
  DEF Next

THEOREM Invariance == Spec => []IInv
<1>1. Init => IInv
  BY InitIInv
<1>2. IInv /\ [Next]_vars => IInv'
  BY StepIInv
<1> QED
  BY <1>1, <1>2, PTL DEF Spec

\* The channel map, the states of the calls and masterMu keep their types.
THEOREM TypeCorrect == Spec => []TypeOK
<1>1. IInv => TypeOK
  BY DEF IInv
<1> QED
  BY <1>1, Invariance, PTL

\* No two goroutines ever hold the same key (mutexmap.go:8-9).
THEOREM Mutex == Spec => []MutualExclusion
  BY IInvMutex, Invariance, PTL

\* Nobody in Lock() waits for a channel that nobody will close
\* (mutexmap.go:29-33).
THEOREM NoWakeupLost == Spec => []NoLostWakeup
<1>1. IInv => NoLostWakeup
  BY DEF IInv
<1> QED
  BY <1>1, Invariance, PTL

\* unlock() never removes a later holder's entry and never closes a channel
\* twice (mutexmap.go:69-70).
THEOREM UnlockSafe == Spec => []UnlocksItsOwn
<1>1. IInv => UnlocksItsOwn
  BY DEF IInv
<1> QED
  BY <1>1, Invariance, PTL

-----------------------------------------------------------------------------
\* Nobody occupies a stall at first.
LEMMA InitAbstract == Init => Abstract!Init
  BY DEF Init, Abstract!Init, Held, Occupies, Occupying

\* Reserve is the acquisition of a free stall, DeleteEntry its release, and
\* every other step leaves the stalls as they are.
LEMMA StepAbstract ==
  IInv /\ IInv' /\ [Next]_vars => [Abstract!Next]_Held
<1> SUFFICES ASSUME IInv, IInv', [Next]_vars PROVE [Abstract!Next]_Held
  OBVIOUS
<1> USE DEF IInv, TypeOK, Held, Occupies, Occupying
<1>1. ASSUME NEW c \in Clients, Reserve(c)
      PROVE  Abstract!Acquire(c, at[c]) /\ at[c] \in Keys
  <2>1. at[c] \in Keys /\ at' = at /\ pc' = [pc EXCEPT ![c] = "holding"]
    BY <1>1 DEF Reserve, KeyInv
  <2>2. Abstract!Free(at[c])
    BY <1>1, <2>1, DistinctAssumption
    DEF Reserve, Abstract!Free, UnlocksItsOwn
  <2>3. \A d \in Clients, k \in Keys :
           Occupies(d, k)' <=> Occupies(d, k) \/ <<d, k>> = <<c, at[c]>>
    BY <2>1
  <2>4. Held' = Held \cup {<<c, at[c]>>}
    BY <2>1, <2>3
  <2> QED
    BY <2>1, <2>2, <2>4 DEF Abstract!Acquire
<1>2. ASSUME NEW c \in Clients, DeleteEntry(c)
      PROVE  Abstract!Release(c, at[c]) /\ at[c] \in Keys
  <2>1. at[c] \in Keys /\ at' = at /\ pc[c] = "delete"
        /\ pc' = [pc EXCEPT ![c] = "close"]
    BY <1>2 DEF DeleteEntry, KeyInv
  <2>2. \A d \in Clients, k \in Keys :
           Occupies(d, k)' <=> Occupies(d, k) /\ <<d, k>> # <<c, at[c]>>
    BY <2>1
  <2>3. Held' = Held \ {<<c, at[c]>>}
    BY <2>1, <2>2
  <2> QED
    BY <2>1, <2>3 DEF Abstract!Release
<1>3. ASSUME NEW c \in Clients, NEW k \in Keys,
             NEW method \in {"Lock", "TryLock"}, Call(c, k, method)
      PROVE  Held' = Held
  BY <1>3 DEF Call
<1>4. ASSUME NEW c \in Clients, EnterMaster(c) PROVE Held' = Held
  BY <1>4 DEF EnterMaster
<1>5. ASSUME NEW c \in Clients, Refuse(c) PROVE Held' = Held
  BY <1>5 DEF Refuse
<1>6. ASSUME NEW c \in Clients, Queue(c) PROVE Held' = Held
  BY <1>6 DEF Queue
<1>7. ASSUME NEW c \in Clients, Wake(c) PROVE Held' = Held
  BY <1>7 DEF Wake
<1>8. ASSUME NEW c \in Clients, CallUnlock(c) PROVE Held' = Held
  BY <1>8 DEF CallUnlock
<1>9. ASSUME NEW c \in Clients, EnterUnlock(c) PROVE Held' = Held
  BY <1>9 DEF EnterUnlock
<1>10. ASSUME NEW c \in Clients, CloseChan(c) PROVE Held' = Held
  BY <1>10 DEF CloseChan
<1>11. CASE UNCHANGED vars
  BY <1>11 DEF vars
<1> HIDE DEF IInv, TypeOK, Held, Occupies, Occupying
<1> QED
  BY <1>1, <1>2, <1>3, <1>4, <1>5, <1>6, <1>7, <1>8, <1>9, <1>10, <1>11
  DEF Next, Abstract!Next

\* MutexMap implements KeyedLock: what its callers assume of TryLock(), Lock()
\* and unlock() is what the code with the channels does.
THEOREM Refinement == Spec => ImplementsKeyedLock
<1>1. Init => Abstract!Init
  BY InitAbstract
<1>2. IInv /\ IInv' /\ [Next]_vars => [Abstract!Next]_Held
  BY StepAbstract
<1> QED
  BY <1>1, <1>2, Invariance, PTL DEF Spec, ImplementsKeyedLock, Abstract!Spec
=============================================================================
