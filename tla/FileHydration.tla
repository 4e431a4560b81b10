--------------------------- MODULE FileHydration ---------------------------
(***************************************************************************)
(* How ManifestHandler answers a request whose path the manifest has       *)
(* (manifesthandler.go:112-304) out of two caches on local disk: one keeps *)
(* gzipped content, the other plain content.  On a miss of both, one       *)
(* request per content downloads it from the origin into one of the caches *)
(* while the others wait; then each looks in the caches once more.         *)
(*                                                                         *)
(* Content that compresses well is piped (io.Pipe) through a goroutine of  *)
(* its own: the "writer" reads from the origin, compresses and writes to   *)
(* the pipe; InsertObject reads the pipe.  A write to a pipe returns only  *)
(* once it has been read, and a reader of a pipe sees its end only once    *)
(* the writer has closed it.  The pipe carries pieces: the model keeps     *)
(* whether the writer is reading a piece or has one to hand over.          *)
(***************************************************************************)
EXTENDS Naturals

CONSTANTS
    Requests,      \* HTTP requests, each a goroutine of net/http
    Paths,         \* the manifest's entries, file.Path
    Contents,      \* content IDs
    ContentOf,     \* [Paths -> Contents]: file.ContentID
    Compressible,  \* the paths isExpectedToCompressWell accepts
    Faults         \* the faults that can happen

AllFaults == {"cacheRead",   \* GetObject of a cache, other than ErrNotExist
              "originGet",   \* the origin does not deliver the object
              "originRead",  \* the origin's stream breaks off
              "cacheWrite"}  \* InsertObject of a cache

ASSUME PathAssumption == /\ ContentOf \in [Paths -> Contents]
                         /\ Compressible \subseteq Paths
                         /\ Faults \subseteq AllFaults

VARIABLES gzipped,       \* cacheGzipped: the contents it has, all complete
          uncompressed,  \* cacheUncompressed: likewise
          locked,        \* originFileDownloadLocks
          pc,            \* where each request is
          path,          \* the path it asks for
          writer,        \* its gzip goroutine and pipe
          faulted        \* history: whether a cacheRead, or another fault, has happened

vars == <<gzipped, uncompressed, locked, pc, path, writer, faulted>>

Content(r) == ContentOf[path[r]]

\* MutexMap, as its callers see it.
Locks == INSTANCE KeyedLock
         WITH Clients <- Requests, Keys <- Contents, held <- locked

\* From winning TryLock() to the deferred unlock.
Hydrating == {"origin", "insert", "copy", "inserted", "insertFailed",
              "hydrated", "hydrationFailed"}

Answered == {"served", "failed"}

\* The reads of the caches come in two rounds: before and after hydration.
Places == {"new", "gzip1", "plain1", "lock", "wait", "through",
           "gzip2", "plain2", "lost"} \cup Hydrating \cup Answered

\* none: there is no goroutine; reading: it reads from the origin; writing:
\* it has a piece for the pipe; closed: gzip footer written, pipe closed, nil
\* sent to gzipWriterDone; broken: an error sent to it, pipe left open.
WriterStates == {"none", "reading", "writing", "closed", "broken"}

TypeOK ==
    /\ gzipped \subseteq Contents
    /\ uncompressed \subseteq Contents
    /\ Locks!TypeOK
    /\ pc \in [Requests -> Places]
    /\ path \in [Requests -> Paths]
    /\ writer \in [Requests -> WriterStates]
    /\ faulted \in {"none", "cacheRead", "another"}

Init ==
    /\ gzipped = {}
    /\ uncompressed = {}
    /\ Locks!Init
    /\ pc = [r \in Requests |-> "new"]
    /\ path \in [Requests -> Paths]
    /\ writer = [r \in Requests |-> "none"]
    /\ faulted = "none"

Moves(r, from, to) == pc[r] = from /\ pc' = [pc EXCEPT ![r] = to]

-----------------------------------------------------------------------------
(* serveFromCache (lines 169-194): gzip first, then plain                  *)

Arrive(r) ==
    /\ Moves(r, "new", "gzip1")
    /\ UNCHANGED <<gzipped, uncompressed, locked, path, writer, faulted>>

HitGzip(r) ==
    /\ Content(r) \in gzipped
    /\ Moves(r, "gzip1", "served") \/ Moves(r, "gzip2", "served")
    /\ UNCHANGED <<gzipped, uncompressed, locked, path, writer, faulted>>

\* Fault: after a miss of the gzip cache the plain cache is not asked.
MissBoth(r) ==
    /\ Content(r) \notin gzipped
    /\ Moves(r, "gzip1", "lock") \/ Moves(r, "gzip2", "plain2")
    /\ UNCHANGED <<gzipped, uncompressed, locked, path, writer, faulted>>

MissGzip(r) ==
    /\ Content(r) \notin gzipped
    /\ Moves(r, "gzip1", "plain1") \/ Moves(r, "gzip2", "plain2")
    /\ UNCHANGED <<gzipped, uncompressed, locked, path, writer, faulted>>

HitPlain(r) ==
    /\ Content(r) \in uncompressed
    /\ Moves(r, "plain1", "served") \/ Moves(r, "plain2", "served")
    /\ UNCHANGED <<gzipped, uncompressed, locked, path, writer, faulted>>

\* The first round goes on to hydrate, the second reports "cache hydration
\* failed".
MissPlain(r) ==
    /\ Content(r) \notin uncompressed
    /\ Moves(r, "plain1", "lock") \/ Moves(r, "plain2", "failed")
    /\ UNCHANGED <<gzipped, uncompressed, locked, path, writer, faulted>>

\* This fault happens, if it is one of those that can.
Happens(fault) ==
    /\ fault \in Faults
    /\ faulted' = IF fault = "cacheRead" \/ faulted = "cacheRead"
                  THEN "cacheRead" ELSE "another"

\* An error other than ErrNotExist is logged and counts as a miss.
CacheUnreadable(r) ==
    /\ Happens("cacheRead")
    /\ \/ Moves(r, "gzip1", "plain1") \/ Moves(r, "gzip2", "plain2")
       \/ Moves(r, "plain1", "lock") \/ Moves(r, "plain2", "failed")
    /\ UNCHANGED <<gzipped, uncompressed, locked, path, writer>>

-----------------------------------------------------------------------------
(* Who hydrates (lines 239-246)                                            *)

\* Fault: the result of TryLock() is ignored.
HydrateAnyway(r) ==
    /\ Moves(r, "lock", "origin")
    /\ locked' = locked \cup {<<r, Content(r)>>}
    /\ UNCHANGED <<gzipped, uncompressed, path, writer, faulted>>

WinTryLock(r) ==
    /\ Moves(r, "lock", "origin")
    /\ Locks!Acquire(r, Content(r))
    /\ UNCHANGED <<gzipped, uncompressed, path, writer, faulted>>

\* Fault: the caches are read again without waiting.
LookAgain(r) ==
    /\ Moves(r, "lock", "gzip2")
    /\ ~Locks!Free(Content(r))
    /\ UNCHANGED <<gzipped, uncompressed, locked, path, writer, faulted>>

LoseTryLock(r) ==
    /\ Moves(r, "lock", "wait")
    /\ ~Locks!Free(Content(r))
    /\ UNCHANGED <<gzipped, uncompressed, locked, path, writer, faulted>>

\* "definitely wait for the cache hydration to finish": Lock() ...
WaitOver(r) ==
    /\ Moves(r, "wait", "through")
    /\ Locks!Acquire(r, Content(r))
    /\ UNCHANGED <<gzipped, uncompressed, path, writer, faulted>>

\* ... and "also unlock when returning".
PassThrough(r) ==
    /\ Moves(r, "through", "gzip2")
    /\ Locks!Release(r, Content(r))
    /\ UNCHANGED <<gzipped, uncompressed, path, writer, faulted>>

-----------------------------------------------------------------------------
(* Hydration (lines 248-289)                                               *)

\* The object is opened and, for content that compresses well, the gzip
\* goroutine started; otherwise gzipWriterDone already has its nil.
OpenOrigin(r) ==
    /\ Moves(r, "origin", "insert")
    /\ writer' = [writer EXCEPT
                    ![r] = IF path[r] \in Compressible THEN "reading" ELSE "closed"]
    /\ UNCHANGED <<gzipped, uncompressed, locked, path, faulted>>

OriginMissing(r) ==
    /\ Happens("originGet")
    /\ Moves(r, "origin", "hydrationFailed")
    /\ UNCHANGED <<gzipped, uncompressed, locked, path, writer>>

\* The cache that fits the path.
Cached(r) == IF path[r] \in Compressible THEN Content(r) \in gzipped
                                         ELSE Content(r) \in uncompressed

\* fileStore.InsertObject, the object exists: nil, and nothing is read.
AlreadyThere(r) ==
    /\ Cached(r)
    /\ Moves(r, "insert", "inserted")
    /\ UNCHANGED <<gzipped, uncompressed, locked, path, writer, faulted>>

StartCopy(r) ==
    /\ ~Cached(r)
    /\ Moves(r, "insert", "copy")
    /\ UNCHANGED <<gzipped, uncompressed, locked, path, writer, faulted>>

\* io.Copy has seen the end of its input; the complete file is renamed into
\* place.
FinishCopy(r) ==
    /\ writer[r] = "closed"
    /\ Moves(r, "copy", "inserted")
    /\ IF path[r] \in Compressible
       THEN /\ gzipped' = gzipped \cup {Content(r)}
            /\ UNCHANGED uncompressed
       ELSE /\ uncompressed' = uncompressed \cup {Content(r)}
            /\ UNCHANGED gzipped
    /\ UNCHANGED <<locked, path, writer, faulted>>

\* InsertObject fails before or while it reads; nothing is left in the cache.
InsertFails(r) ==
    /\ Happens("cacheWrite")
    /\ Moves(r, "insert", "insertFailed") \/ Moves(r, "copy", "insertFailed")
    /\ UNCHANGED <<gzipped, uncompressed, locked, path, writer>>

\* Without a pipe it is InsertObject that the origin's stream breaks under.
OriginBreaks(r) ==
    /\ Happens("originRead")
    /\ path[r] \notin Compressible
    /\ Moves(r, "copy", "insertFailed")
    /\ UNCHANGED <<gzipped, uncompressed, locked, path, writer>>

\* "<-gzipWriterDone", after InsertObject succeeded or failed.
JoinWriter(r) ==
    /\ writer[r] \in {"closed", "broken"}
    /\ \/ writer[r] = "closed" /\ Moves(r, "inserted", "hydrated")
       \/ writer[r] = "broken" /\ Moves(r, "inserted", "hydrationFailed")
       \/ Moves(r, "insertFailed", "hydrationFailed")
    /\ writer' = [writer EXCEPT ![r] = "none"]
    /\ UNCHANGED <<gzipped, uncompressed, locked, path, faulted>>

\* Fault: the unlock is not deferred, an error returns without it.
UnlockOnSuccess(r) ==
    /\ \/ /\ Moves(r, "hydrated", "gzip2")
          /\ Locks!Release(r, Content(r))
       \/ /\ Moves(r, "hydrationFailed", "failed")
          /\ UNCHANGED locked
    /\ UNCHANGED <<gzipped, uncompressed, path, writer, faulted>>

\* The deferred fileDownloadUnlock().
Unlock(r) ==
    /\ \/ Moves(r, "hydrated", "gzip2")
       \/ Moves(r, "hydrationFailed", "failed")
    /\ Locks!Release(r, Content(r))
    /\ UNCHANGED <<gzipped, uncompressed, path, writer, faulted>>

-----------------------------------------------------------------------------
(* The gzip goroutine (lines 263-274)                                      *)

\* It got a piece, or the end of the content and thus the gzip footer.
WriterReads(r) ==
    /\ writer[r] = "reading"
    /\ writer' = [writer EXCEPT ![r] = "writing"]
    /\ UNCHANGED <<gzipped, uncompressed, locked, pc, path, faulted>>

\* The copy failed: the goroutine returns without closing its end.
WriterBreaks(r) ==
    /\ Happens("originRead")
    /\ writer[r] = "reading"
    /\ writer' = [writer EXCEPT ![r] = "broken"]
    /\ UNCHANGED <<gzipped, uncompressed, locked, pc, path>>

\* A reader takes the piece: there is more to read, or that was the footer.
PipeTransfer(r) ==
    /\ writer[r] = "writing"
    /\ pc[r] = "copy"
    /\ \E next \in {"reading", "closed"} : writer' = [writer EXCEPT ![r] = next]
    /\ UNCHANGED <<gzipped, uncompressed, locked, pc, path, faulted>>

-----------------------------------------------------------------------------
\* The process dies and starts again.  Files are written atomically, so the
\* caches on disk have all they had; a temporary file is not an object.
Crash ==
    /\ locked' = {}
    /\ pc' = [r \in Requests |-> IF pc[r] \in {"new", "lost"} \cup Answered
                                 THEN pc[r] ELSE "lost"]
    /\ writer' = [r \in Requests |-> "none"]
    /\ UNCHANGED <<gzipped, uncompressed, path, faulted>>

Serve(r) == HitGzip(r) \/ MissGzip(r) \/ HitPlain(r) \/ MissPlain(r)

Queue(r) == WinTryLock(r) \/ LoseTryLock(r) \/ WaitOver(r) \/ PassThrough(r)

Hydrate(r) == \/ OpenOrigin(r) \/ AlreadyThere(r) \/ StartCopy(r)
              \/ FinishCopy(r) \/ JoinWriter(r) \/ Unlock(r)

Fail(r) == \/ CacheUnreadable(r) \/ OriginMissing(r) \/ InsertFails(r)
           \/ OriginBreaks(r) \/ WriterBreaks(r)

Writer(r) == WriterReads(r) \/ PipeTransfer(r)

Next == Crash \/ \E r \in Requests :
                    \/ Arrive(r) \/ Serve(r) \/ Queue(r) \/ Writer(r)
                    \/ Hydrate(r) \/ Fail(r)

Spec == Init /\ [][Next]_vars

\* Goroutines that can run do, without a fault having to help them, and
\* content is finite: a piece that is handed over again and again is the last
\* one at some time.
FairSpec ==
    /\ Spec
    /\ \A r \in Requests :
          /\ WF_vars(Serve(r) \/ Queue(r) \/ Hydrate(r))
          /\ WF_vars(Writer(r))
          /\ SF_vars(PipeTransfer(r) /\ writer'[r] = "closed")

-----------------------------------------------------------------------------
(* Properties                                                              *)

\* "only one download for the same file" (manifesthandler.go:214): of all
\* requests for a content one at most is past TryLock() and not yet unlocked.
OneDownload ==
    \A r, s \in Requests :
        pc[r] \in Hydrating /\ pc[s] \in Hydrating /\ Content(r) = Content(s)
            => r = s

\* Where nothing fails no request fails: whoever finds both caches empty and
\* then waits, or hydrates a second time, finds the content in its second
\* look (lines 239-301).
NobodyFails == faulted = "none" => \A r \in Requests : pc[r] # "failed"

\* Once a content is cached, under whatever path, requests that arrive later
\* are served without the origin (lines 105-121), also after a restart, as long
\* as the caches can be read.
CachedNeedsNoOrigin ==
    \A r \in Requests :
        [](pc[r] = "new" /\ Content(r) \in gzipped \cup uncompressed
            => [](pc[r] \in {"lock"} \cup Hydrating => faulted = "cacheRead"))

\* A hydration that hangs with the content's lock held: the origin's stream
\* broke, and the gzip goroutine left the pipe open for InsertObject to read
\* (line 266); or InsertObject returned without having read the pipe to its
\* end, as the content exists or could not be written, and the request waits
\* for a goroutine whose write nobody reads (lines 283, 288).
Hangs(r) == \/ pc[r] = "copy" /\ writer[r] = "broken"
            \/ pc[r] \in {"inserted", "insertFailed"} /\ writer[r] = "writing"

\* Every request is answered, those that queued for the hydration too, with
\* the content or with an error, whatever fails (lines 239-301), unless a
\* hydration of its content hangs: the request, its gzip goroutine and the
\* others in the queue have no other way of waiting for each other.
EveryRequestAnswered ==
    \A r \in Requests :
        pc[r] # "new" ~> \/ pc[r] \in Answered \cup {"lost"}
                        \/ \E s \in Requests : Content(s) = Content(r) /\ Hangs(s)

-----------------------------------------------------------------------------
(* What comments say and the code does not do                              *)

\* A consumer that wins TryLock() late "will trigger additional hydrations
\* (but that's not dangerous)" (lines 219-220).  It is: InsertObject does not
\* read the pipe of content that exists, so that the gzip goroutine never
\* finishes its write, and the request waits for it with the lock held.
AdditionalHydrationHarmless ==
    \A r \in Requests : ~(pc[r] = "inserted" /\ writer[r] = "writing")
=============================================================================
