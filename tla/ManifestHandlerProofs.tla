----------------------- MODULE ManifestHandlerProofs -----------------------
(***************************************************************************)
(* Theorems about the two halves of ManifestHandler: FileHydration for any *)
(* number of requests, paths and contents, any set of faults and any       *)
(* number of crashes, and ManifestResolve for any number of requests,      *)
(* manifests and process restarts.  They share no variable.                *)
(***************************************************************************)
EXTENDS FileHydration, ManifestResolve, TLAPS

-----------------------------------------------------------------------------
(* FileHydration                                                           *)

\* The places at which a request has the lock of its content.
HoldsLock == Hydrating \cup {"through"}

\* The lock of a content is held by exactly the requests at those places, each
\* for the content that its path stands for.
LockInv ==
    \A r \in Requests, c \in Contents :
        <<r, c>> \in locked <=> pc[r] \in HoldsLock /\ Content(r) = c

\* A gzip goroutine or its result exists only while its request hydrates: a
\* request does not leave its pipe behind.
WriterInv ==
    \A r \in Requests :
        writer[r] # "none" <=> pc[r] \in {"insert", "copy", "inserted", "insertFailed"}

\* The inductive invariant: OneDownload rests on LockInv and on the mutual
\* exclusion of KeyedLock.
IInv == /\ TypeOK
        /\ LockInv
        /\ WriterInv
        /\ Locks!MutualExclusion

-----------------------------------------------------------------------------
\* At first nothing is cached or locked.
LEMMA InitIInv == Init => IInv
  BY PathAssumption
  DEF Init, IInv, TypeOK, LockInv, WriterInv, HoldsLock, Hydrating, Answered, Places,
      WriterStates, Content, Locks!TypeOK, Locks!Init, Locks!MutualExclusion

\* The content of a request is a content.
LEMMA ContentType == TypeOK => \A r \in Requests : Content(r) \in Contents
  BY PathAssumption DEF TypeOK, Content

\* Every step of the requests and their goroutines, and a crash, preserves the
\* invariant.
LEMMA StepIInv == IInv /\ [Next]_vars => IInv'
<1> SUFFICES ASSUME IInv, [Next]_vars PROVE IInv'
  OBVIOUS
<1>0. \A r \in Requests : Content(r) \in Contents
  BY ContentType DEF IInv
<1> USE <1>0, PathAssumption
        DEF IInv, TypeOK, LockInv, WriterInv, HoldsLock, Hydrating, Answered, Places,
            WriterStates, Content, Locks!TypeOK, Locks!MutualExclusion, Moves
<1>1. ASSUME NEW r \in Requests, Arrive(r) PROVE IInv'
  BY <1>1 DEF Arrive
<1>2. ASSUME NEW r \in Requests, Serve(r) PROVE IInv'
  BY <1>2 DEF Serve, HitGzip, MissGzip, HitPlain, MissPlain
<1>3. ASSUME NEW r \in Requests, WinTryLock(r) PROVE IInv'
  BY <1>3 DEF WinTryLock, Locks!Acquire, Locks!Free
<1>4. ASSUME NEW r \in Requests, LoseTryLock(r) PROVE IInv'
  BY <1>4 DEF LoseTryLock
<1>5. ASSUME NEW r \in Requests, WaitOver(r) PROVE IInv'
  BY <1>5 DEF WaitOver, Locks!Acquire, Locks!Free
<1>6. ASSUME NEW r \in Requests, PassThrough(r) PROVE IInv'
  BY <1>6 DEF PassThrough, Locks!Release
<1>7. ASSUME NEW r \in Requests, OpenOrigin(r) PROVE IInv'
  BY <1>7 DEF OpenOrigin
<1>8. ASSUME NEW r \in Requests, AlreadyThere(r) \/ StartCopy(r) PROVE IInv'
  BY <1>8 DEF AlreadyThere, StartCopy
<1>9. ASSUME NEW r \in Requests, FinishCopy(r) PROVE IInv'
  BY <1>9 DEF FinishCopy
<1>10. ASSUME NEW r \in Requests, JoinWriter(r) PROVE IInv'
  BY <1>10 DEF JoinWriter
<1>11. ASSUME NEW r \in Requests, Unlock(r) PROVE IInv'
  BY <1>11 DEF Unlock, Locks!Release
<1>12. ASSUME NEW r \in Requests, Fail(r) PROVE IInv'
  <2>1. CASE CacheUnreadable(r)
    BY <2>1 DEF CacheUnreadable, Happens
  <2>2. CASE OriginMissing(r)
    BY <2>2 DEF OriginMissing, Happens
  <2>3. CASE InsertFails(r)
    BY <2>3 DEF InsertFails, Happens
  <2>4. CASE OriginBreaks(r)
    BY <2>4 DEF OriginBreaks, Happens
  <2>5. CASE WriterBreaks(r)
    BY <2>5 DEF WriterBreaks, Happens
  <2> QED
    BY <1>12, <2>1, <2>2, <2>3, <2>4, <2>5 DEF Fail
<1>13. ASSUME NEW r \in Requests, Writer(r) PROVE IInv'
  BY <1>13 DEF Writer, WriterReads, PipeTransfer
<1>14. ASSUME Crash PROVE IInv'
  BY <1>14 DEF Crash
<1>15. ASSUME UNCHANGED vars PROVE IInv'
  BY <1>15 DEF vars
<1> QED
  BY <1>1, <1>2, <1>3, <1>4, <1>5, <1>6, <1>7, <1>8, <1>9, <1>10, <1>11, <1>12,
     <1>13, <1>14, <1>15
  DEF Next, Queue, Hydrate

\* The invariant holds in all reachable states.
LEMMA Inductive == Spec => []IInv
  BY InitIInv, StepIInv, PTL DEF Spec

\* Every reachable state is well typed.
THEOREM TypeCorrect == Spec => []TypeOK
  BY Inductive, PTL DEF IInv

\* The lock is a mutual exclusion, so two that hydrate one content are one.
LEMMA IInvOneDownload == IInv => OneDownload
  BY ContentType DEF IInv, LockInv, HoldsLock, OneDownload, Locks!MutualExclusion

\* No two requests hydrate the same content at one time, under whatever paths
\* they ask for it, whatever fails or crashes (manifesthandler.go:214, 239-246).
THEOREM SingleHydration == Spec => []OneDownload
  BY Inductive, IInvOneDownload, PTL

-----------------------------------------------------------------------------
(* Where nothing fails no request fails                                    *)

CachedSomewhere(r) == Content(r) \in gzipped \cup uncompressed

\* Who has hydrated, or waited for one that did, finds the content; who waits does
\* so for a hydration, or for one that has waited like itself.
FoundInv ==
    faulted = "none" =>
        \A r \in Requests :
            /\ pc[r] \notin {"insertFailed", "hydrationFailed", "failed"}
            /\ writer[r] # "broken"
            /\ pc[r] \in {"through", "gzip2", "inserted", "hydrated"} => CachedSomewhere(r)
            /\ pc[r] = "plain2" => Content(r) \in uncompressed
            /\ pc[r] = "wait" =>
                  \/ CachedSomewhere(r)
                  \/ \E s \in Requests : pc[s] \in Hydrating /\ Content(s) = Content(r)

\* A step of one request that keeps what it holds, and the caches, disturbs no
\* other request's part of the invariant.
LEMMA OthersFound ==
    ASSUME IInv, FoundInv, faulted = "none", NEW q \in Requests,
           UNCHANGED path,
           gzipped \subseteq gzipped', uncompressed \subseteq uncompressed',
           \A r \in Requests \ {q} : pc'[r] = pc[r] /\ writer'[r] = writer[r],
           \/ pc[q] \in Hydrating => pc'[q] \in Hydrating
           \/ Content(q) \in gzipped \cup uncompressed
    PROVE  \A r \in Requests \ {q} :
            /\ pc'[r] \notin {"insertFailed", "hydrationFailed", "failed"}
            /\ writer'[r] # "broken"
            /\ pc'[r] \in {"through", "gzip2", "inserted", "hydrated"} => CachedSomewhere(r)'
            /\ pc'[r] = "plain2" => Content(r)' \in uncompressed'
            /\ pc'[r] = "wait" =>
                  \/ CachedSomewhere(r)'
                  \/ \E s \in Requests : pc'[s] \in Hydrating /\ Content(s)' = Content(r)'
<1> SUFFICES ASSUME NEW r \in Requests \ {q}
             PROVE  /\ pc'[r] \notin {"insertFailed", "hydrationFailed", "failed"}
                    /\ writer'[r] # "broken"
                    /\ pc'[r] \in {"through", "gzip2", "inserted", "hydrated"} => CachedSomewhere(r)'
                    /\ pc'[r] = "plain2" => Content(r)' \in uncompressed'
                    /\ pc'[r] = "wait" =>
                          \/ CachedSomewhere(r)'
                          \/ \E s \in Requests : pc'[s] \in Hydrating /\ Content(s)' = Content(r)'
  OBVIOUS
<1>1. \A s \in Requests : Content(s)' = Content(s)
  BY DEF Content
<1>2. CachedSomewhere(r) => CachedSomewhere(r)'
  BY <1>1 DEF CachedSomewhere
<1>3. ASSUME pc'[r] = "wait"
      PROVE  \/ CachedSomewhere(r)'
             \/ \E s \in Requests : pc'[s] \in Hydrating /\ Content(s)' = Content(r)'
  <2>1. CASE CachedSomewhere(r)
    BY <1>2, <2>1
  <2>2. CASE ~CachedSomewhere(r)
    <3>1. PICK s \in Requests : pc[s] \in Hydrating /\ Content(s) = Content(r)
      BY <1>3, <2>2 DEF FoundInv
    <3>2. pc'[s] \in Hydrating
      BY <2>2, <3>1 DEF CachedSomewhere
    <3> QED
      BY <1>1, <3>1, <3>2
  <2> QED
    BY <2>1, <2>2
<1> QED
  BY <1>1, <1>2, <1>3 DEF FoundInv

\* What is left to show of a step of q is q's own part.
LEMMA OwnFound ==
    ASSUME IInv, FoundInv, faulted = "none", NEW q \in Requests,
           UNCHANGED path,
           gzipped \subseteq gzipped', uncompressed \subseteq uncompressed',
           \A r \in Requests \ {q} : pc'[r] = pc[r] /\ writer'[r] = writer[r],
           \/ pc[q] \in Hydrating => pc'[q] \in Hydrating
           \/ Content(q) \in gzipped \cup uncompressed,
           pc'[q] \notin {"insertFailed", "hydrationFailed", "failed"},
           writer'[q] # "broken",
           pc'[q] \in {"through", "gzip2", "inserted", "hydrated"} => CachedSomewhere(q)',
           pc'[q] = "plain2" => Content(q) \in uncompressed',
           pc'[q] = "wait" =>
               \E s \in Requests \ {q} : pc[s] \in HoldsLock /\ Content(s) = Content(q)
    PROVE  FoundInv'
<1>1. \A s \in Requests : Content(s)' = Content(s)
  BY DEF Content
<1>2. ASSUME pc'[q] = "wait"
      PROVE  \/ CachedSomewhere(q)'
             \/ \E s \in Requests : pc'[s] \in Hydrating /\ Content(s)' = Content(q)'
  <2>1. PICK s \in Requests \ {q} : pc[s] \in HoldsLock /\ Content(s) = Content(q)
    BY <1>2
  <2>2. CASE pc[s] = "through"
    <3>1. CachedSomewhere(s)
      BY <2>2 DEF FoundInv
    <3> QED
      BY <1>1, <2>1, <3>1 DEF CachedSomewhere
  <2>3. CASE pc[s] \in Hydrating
    BY <1>1, <2>1, <2>3
  <2> QED
    BY <2>1, <2>2, <2>3 DEF HoldsLock
<1> QED
  BY <1>1, <1>2, OthersFound DEF FoundInv

LEMMA StepFound == IInv /\ FoundInv /\ [Next]_vars => FoundInv'
<1> SUFFICES ASSUME IInv, FoundInv, [Next]_vars, faulted' = "none" PROVE FoundInv'
  BY DEF FoundInv
<1>0. faulted = "none" \/ UNCHANGED vars
  BY DEF Next, Arrive, Serve, HitGzip, MissGzip, HitPlain, MissPlain, Queue, WinTryLock,
     LoseTryLock, WaitOver, PassThrough, Hydrate, OpenOrigin, AlreadyThere, StartCopy,
     FinishCopy, JoinWriter, Unlock, Writer, WriterReads, PipeTransfer, Fail,
     CacheUnreadable, OriginMissing, InsertFails, OriginBreaks, WriterBreaks, Happens, Crash
<1>1. CASE UNCHANGED vars
  BY <1>1 DEF vars, FoundInv, CachedSomewhere, Content
<1>2. ASSUME faulted = "none", Crash PROVE FoundInv'
  BY <1>2 DEF Crash, FoundInv, Answered
<1>3. ASSUME NEW q \in Requests, faulted = "none",
             Arrive(q) \/ Serve(q) \/ Queue(q) \/ Writer(q) \/ Hydrate(q) \/ Fail(q)
      PROVE  FoundInv'
  <2> USE <1>3, OwnFound DEF Moves, Hydrating, IInv, TypeOK
  <2>1. CASE Arrive(q)
    BY <2>1 DEF Arrive, FoundInv
  <2>2. CASE Serve(q)
    BY <2>2 DEF Serve, HitGzip, MissGzip, HitPlain, MissPlain, FoundInv, CachedSomewhere
  <2>3. CASE WinTryLock(q)
    BY <2>3 DEF WinTryLock, FoundInv
  <2>4. CASE LoseTryLock(q)
    <3>1. \E s \in Requests : <<s, Content(q)>> \in locked
      BY <2>4 DEF LoseTryLock, Locks!Free
    <3>2. \E s \in Requests \ {q} : pc[s] \in HoldsLock /\ Content(s) = Content(q)
      BY <2>4, <3>1, ContentType DEF LoseTryLock, LockInv, HoldsLock
    <3> QED
      BY <2>4, <3>2 DEF LoseTryLock, FoundInv
  <2>5. CASE WaitOver(q)
    <3>1. \A s \in Requests : ~(pc[s] \in Hydrating /\ Content(s) = Content(q))
      BY <2>5, ContentType DEF WaitOver, Locks!Acquire, Locks!Free, LockInv, HoldsLock
    <3>2. CachedSomewhere(q)
      BY <2>5, <3>1 DEF WaitOver, FoundInv
    <3> QED
      BY <2>5, <3>2 DEF WaitOver, FoundInv, CachedSomewhere, Content
  <2>6. CASE PassThrough(q)
    BY <2>6 DEF PassThrough, FoundInv, CachedSomewhere, Content
  <2>7. CASE Writer(q)
    BY <2>7 DEF Writer, WriterReads, PipeTransfer, FoundInv, CachedSomewhere, Content
  <2>8. CASE Hydrate(q)
    <3>1. CASE OpenOrigin(q) \/ StartCopy(q)
      BY <3>1 DEF OpenOrigin, StartCopy, FoundInv
    <3>2. CASE AlreadyThere(q)
      BY <3>2 DEF AlreadyThere, Cached, FoundInv, CachedSomewhere, Content
    <3>3. CASE FinishCopy(q)
      BY <3>3 DEF FinishCopy, FoundInv, CachedSomewhere, Content
    <3>4. CASE JoinWriter(q)
      BY <3>4 DEF JoinWriter, FoundInv, CachedSomewhere, Content
    <3>5. CASE Unlock(q)
      BY <3>5 DEF Unlock, FoundInv, CachedSomewhere, Content
    <3> QED
      BY <2>8, <3>1, <3>2, <3>3, <3>4, <3>5 DEF Hydrate
  <2>9. CASE Fail(q)
    BY <2>9 DEF Fail, CacheUnreadable, OriginMissing, InsertFails, OriginBreaks, WriterBreaks,
       Happens
  <2> QED
    BY <2>1, <2>2, <2>3, <2>4, <2>5, <2>6, <2>7, <2>8, <2>9 DEF Queue
<1> QED
  BY <1>0, <1>1, <1>2, <1>3 DEF Next

\* Where nothing fails no request fails, in whatever order requests for whatever
\* paths miss the caches, win and lose the lock, and hydrate, also over crashes
\* (manifesthandler.go:239-301).
THEOREM NoneFails == Spec => []NobodyFails
<1>1. Init => FoundInv
  BY DEF Init, FoundInv
<1>2. FoundInv => NobodyFails
  BY DEF FoundInv, NobodyFails
<1> QED
  BY <1>1, <1>2, Inductive, StepFound, PTL DEF Spec

-----------------------------------------------------------------------------
(* What is cached needs no origin                                          *)

\* A request for content that was cached when it arrived is on its way through
\* the caches to an answer, and only a cache that could not be read leads it off.
ServedLocally(r) ==
    /\ Content(r) \in gzipped \cup uncompressed
    /\ \/ faulted = "cacheRead"
       \/ pc[r] \in {"new", "gzip1", "lost"} \cup Answered
       \/ pc[r] = "plain1" /\ Content(r) \in uncompressed

\* No step of this request or of another one leads it off, and no crash.
LEMMA StepServedLocally ==
    ASSUME NEW r \in Requests
    PROVE  IInv /\ ServedLocally(r) /\ [Next]_vars => ServedLocally(r)'
<1> SUFFICES ASSUME IInv, ServedLocally(r), [Next]_vars PROVE ServedLocally(r)'
  OBVIOUS
<1> USE DEF ServedLocally, IInv, TypeOK, Moves, Answered
<1>1. UNCHANGED path
  BY DEF Next, Arrive, Serve, HitGzip, MissGzip, HitPlain, MissPlain, Queue, WinTryLock,
     LoseTryLock, WaitOver, PassThrough, Hydrate, OpenOrigin, AlreadyThere, StartCopy,
     FinishCopy, JoinWriter, Unlock, Writer, WriterReads, PipeTransfer, Fail,
     CacheUnreadable, OriginMissing, InsertFails, OriginBreaks, WriterBreaks, Crash, vars
<1>2. Content(r)' = Content(r)
  BY <1>1 DEF Content
<1>3. ASSUME NEW q \in Requests, Arrive(q) \/ Serve(q) PROVE ServedLocally(r)'
  BY <1>2, <1>3 DEF Arrive, Serve, HitGzip, MissGzip, HitPlain, MissPlain
<1>4. ASSUME NEW q \in Requests, Queue(q) PROVE ServedLocally(r)'
  BY <1>2, <1>4 DEF Queue, WinTryLock, LoseTryLock, WaitOver, PassThrough
<1>5. ASSUME NEW q \in Requests, Hydrate(q) PROVE ServedLocally(r)'
  BY <1>2, <1>5
  DEF Hydrate, OpenOrigin, AlreadyThere, StartCopy, FinishCopy, JoinWriter, Unlock
<1>6. ASSUME NEW q \in Requests, Writer(q) PROVE ServedLocally(r)'
  BY <1>2, <1>6 DEF Writer, WriterReads, PipeTransfer
<1>7. ASSUME NEW q \in Requests, Fail(q) PROVE ServedLocally(r)'
  BY <1>2, <1>7
  DEF Fail, CacheUnreadable, OriginMissing, InsertFails, OriginBreaks, WriterBreaks, Happens
<1>8. CASE Crash
  BY <1>2, <1>8 DEF Crash
<1>9. CASE UNCHANGED vars
  BY <1>2, <1>9 DEF vars
<1> QED
  BY <1>3, <1>4, <1>5, <1>6, <1>7, <1>8, <1>9 DEF Next

\* Once a content is in a cache, requests for it that arrive later need no origin,
\* whatever other requests do and over crashes, unless a cache cannot be read
\* (manifesthandler.go:105-121, 169-194).
THEOREM CachedStaysServed == Spec => CachedNeedsNoOrigin
<1> SUFFICES ASSUME NEW r \in Requests
             PROVE  Spec => [](pc[r] = "new" /\ Content(r) \in gzipped \cup uncompressed
                                 => [](pc[r] \in {"lock"} \cup Hydrating
                                         => faulted = "cacheRead"))
  BY DEF CachedNeedsNoOrigin
<1>1. pc[r] = "new" /\ Content(r) \in gzipped \cup uncompressed => ServedLocally(r)
  BY DEF ServedLocally
<1>2. ServedLocally(r) => (pc[r] \in {"lock"} \cup Hydrating => faulted = "cacheRead")
  BY DEF ServedLocally, Hydrating, Answered
<1>3. IInv /\ ServedLocally(r) /\ [Next]_vars => ServedLocally(r)'
  BY StepServedLocally
<1> QED
  BY <1>1, <1>2, <1>3, Inductive, PTL DEF Spec

-----------------------------------------------------------------------------
(* ManifestResolve                                                         *)

\* The places at which a request has the manifest's named lock.
HoldsManifest == Producing \cup {"through"}

\* The named lock is held by exactly the requests at those places, each for
\* the manifest it wants.
ManifestLockInv ==
    \A r \in Resolvers, m \in Manifests :
        <<r, m>> \in held <=> at[r] \in HoldsManifest /\ want[r] = m

\* What was downloaded completely is on disk, or is about to be inserted, or
\* the loss is accounted for.
DownloadInv ==
    \A m \in Manifests :
        fetches[m] # 0 =>
            \/ m \in disk
            \/ m \in excused
            \/ \E r \in Resolvers : at[r] = "insert" /\ want[r] = m

\* A producer that asks the origin has not found the manifest on disk.
OriginInv ==
    \A r \in Resolvers : at[r] \in {"origin", "insert"} =>
        want[r] \notin disk \/ want[r] \in excused

\* Before the download there was none, unless excused.
FirstInv ==
    \A r \in Resolvers : at[r] = "origin" =>
        fetches[want[r]] = 0 \/ want[r] \in excused

\* The inductive invariant: OneProducer and KnownIsNotLoaded rest on
\* ManifestLockInv and on the mutual exclusion of KeyedLock.
ManifestInv ==
    /\ ManifestTypeOK
    /\ ManifestLockInv
    /\ DownloadLocks!MutualExclusion
    /\ KnownIsNotLoaded
    /\ DownloadInv
    /\ OriginInv
    /\ FirstInv
    /\ DownloadedOnce

-----------------------------------------------------------------------------
\* At first nothing is cached, held or downloaded.
LEMMA InitManifestInv == ManifestInit => ManifestInv
  BY DEF ManifestInit, ManifestInv, ManifestTypeOK, ManifestLockInv, HoldsManifest,
         Producing, Loading, Ended, ManifestPlaces,
         KnownIsNotLoaded, DownloadInv, OriginInv, FirstInv,
         DownloadedOnce, DownloadLocks!TypeOK, DownloadLocks!Init,
         DownloadLocks!MutualExclusion

\* The lock is a mutual exclusion, so two producers of one manifest are one.
LEMMA ManifestInvOneProducer == ManifestInv => OneProducer
  BY DEF ManifestInv, ManifestTypeOK, ManifestLockInv, HoldsManifest,
         OneProducer, DownloadLocks!MutualExclusion

\* Every step of the requests, and a crash, preserves the invariant.
LEMMA StepManifestInv == ManifestInv /\ [ManifestNext]_manifestVars => ManifestInv'
<1> SUFFICES ASSUME ManifestInv, [ManifestNext]_manifestVars PROVE ManifestInv'
  OBVIOUS
\* Two producers of one manifest are one: below, a step of producer r leaves
\* no other producer s whose part of the invariant it could disturb.
<1>0. \A r, s \in Resolvers :
         /\ at[r] \in Producing
         /\ at[s] \in Producing
         /\ want[r] = want[s]
         => r = s
  BY ManifestInvOneProducer DEF OneProducer
<1> USE DEF ManifestInv, ManifestTypeOK, ManifestLockInv, HoldsManifest,
            Producing, Loading, Ended, ManifestPlaces,
            KnownIsNotLoaded, DownloadInv, OriginInv, FirstInv,
            DownloadedOnce, DownloadLocks!TypeOK,
            DownloadLocks!MutualExclusion, Goes
<1>1. ASSUME NEW r \in Resolvers, NeedManifest(r) PROVE ManifestInv'
  BY <1>1 DEF NeedManifest
<1>2. ASSUME NEW r \in Resolvers, RamHit(r) PROVE ManifestInv'
  BY <1>2 DEF RamHit
<1>3. ASSUME NEW r \in Resolvers, BecomeProducer(r) PROVE ManifestInv'
  BY <1>3 DEF BecomeProducer, DownloadLocks!Acquire, DownloadLocks!Free
<1>4. ASSUME NEW r \in Resolvers, SomeoneElseProduces(r) PROVE ManifestInv'
  BY <1>4 DEF SomeoneElseProduces
<1>5. ASSUME NEW r \in Resolvers, LockReturns(r) PROVE ManifestInv'
  BY <1>5 DEF LockReturns, DownloadLocks!Acquire, DownloadLocks!Free
<1>6. ASSUME NEW r \in Resolvers, Retry(r) PROVE ManifestInv'
  BY <1>6 DEF Retry, DownloadLocks!Release
<1>7. ASSUME NEW r \in Resolvers, DiskHit(r) PROVE ManifestInv'
  BY <1>7 DEF DiskHit, AfterRead
<1>8. ASSUME NEW r \in Resolvers, DiskMiss(r) PROVE ManifestInv'
  <2>1. fetches[want[r]] = 0 \/ want[r] \in excused
    BY <1>0, <1>8 DEF DiskMiss
  <2> QED
    BY <1>8, <2>1 DEF DiskMiss
<1>9. ASSUME NEW r \in Resolvers, DiskFault(r) PROVE ManifestInv'
  BY <1>9 DEF DiskFault
<1>10. ASSUME NEW r \in Resolvers, OriginRead(r) PROVE ManifestInv'
  <2>1. /\ at[r] = "origin"
        /\ at' = [at EXCEPT ![r] = "insert"]
        /\ UNCHANGED <<ram, disk, held, want, excused>>
    BY <1>10 DEF OriginRead
  <2>2. fetches' \in [Manifests -> 0..2]
    BY <1>10 DEF OriginRead
  <2>3. DownloadInv' /\ DownloadedOnce'
    BY <1>10, <2>1, <2>2 DEF OriginRead
  <2>4. FirstInv'
    BY <1>0, <1>10, <2>1 DEF OriginRead
  <2> QED
    BY <2>1, <2>2, <2>3, <2>4
<1>11. ASSUME NEW r \in Resolvers, OriginFault(r) PROVE ManifestInv'
  BY <1>11 DEF OriginFault
<1>12. ASSUME NEW r \in Resolvers, Insert(r) PROVE ManifestInv'
  <2>1. OriginInv'
    BY <1>0, <1>12 DEF Insert
  <2> QED
    BY <1>12, <2>1 DEF Insert
<1>13. ASSUME NEW r \in Resolvers, InsertFault(r) PROVE ManifestInv'
  BY <1>13 DEF InsertFault
<1>14. ASSUME NEW r \in Resolvers, Decode(r) PROVE ManifestInv'
  BY <1>14 DEF Decode, AfterRead
<1>15. ASSUME NEW r \in Resolvers, Store(r) PROVE ManifestInv'
  <2>1. KnownIsNotLoaded'
    BY <1>0, <1>15 DEF Store
  <2> QED
    BY <1>15, <2>1 DEF Store
<1>16. ASSUME NEW r \in Resolvers, ReleaseLock(r) PROVE ManifestInv'
  BY <1>16 DEF ReleaseLock, DownloadLocks!Release
<1>17. ASSUME Restart PROVE ManifestInv'
  BY <1>17 DEF Restart
<1>18. CASE UNCHANGED manifestVars
  BY <1>18 DEF manifestVars
<1> QED
  BY <1>1, <1>2, <1>3, <1>4, <1>5, <1>6, <1>7, <1>8, <1>9, <1>10, <1>11,
     <1>12, <1>13, <1>14, <1>15, <1>16, <1>17, <1>18
  DEF ManifestNext, Step

\* The invariant holds at every step of every run.
THEOREM ManifestInductive == ManifestSpec => []ManifestInv
<1>1. ManifestInit => ManifestInv
  BY InitManifestInv
<1>2. ManifestInv /\ [ManifestNext]_manifestVars => ManifestInv'
  BY StepManifestInv
<1> QED
  BY <1>1, <1>2, PTL DEF ManifestSpec

\* The caches, the locks and the requests keep their types.
THEOREM ManifestTypes == ManifestSpec => []ManifestTypeOK
<1>1. ManifestInv => ManifestTypeOK
  BY DEF ManifestInv
<1> QED
  BY <1>1, ManifestInductive, PTL

\* Below line 341 of manifesthandler.go nobody else produces the same
\* manifest.
THEOREM NoCompetingProducers == ManifestSpec => []OneProducer
  BY ManifestInvOneProducer, ManifestInductive, PTL

\* A manifest that RAM has is not being loaded by anybody.
THEOREM NoLoadOfKnown == ManifestSpec => []KnownIsNotLoaded
<1>1. ManifestInv => KnownIsNotLoaded
  BY DEF ManifestInv
<1> QED
  BY <1>1, ManifestInductive, PTL

\* Any number of requests and restarts download a manifest at most once, but
\* for faults of the disk cache and crashes before the insert.
THEOREM SingleDownload == ManifestSpec => []DownloadedOnce
<1>1. ManifestInv => DownloadedOnce
  BY DEF ManifestInv
<1> QED
  BY <1>1, ManifestInductive, PTL
=============================================================================
