------------------------------ MODULE S3Deploy ------------------------------
(***************************************************************************)
(* Deploy of a static website to a S3 bucket                               *)
(* (pkg/erbackend/statics3websitebackend/deploy.go): the tar archive is    *)
(* read by the main goroutine, which hands the files to workers through a  *)
(* buffered channel; workers report their first error through another and  *)
(* exit.  When all is uploaded the application in the discovery is         *)
(* pointed to the new version.                                             *)
(***************************************************************************)
EXTENDS Naturals, Sequences, FiniteSets

CONSTANTS Files,    \* entries of the archive
          DeploymentSpec,    \* the ".deployment.json" that is uploaded after them
          Workers,  \* upload goroutines (2 in the code)
          NoItem

ASSUME ItemAssumption == /\ IsFiniteSet(Workers) /\ Workers # {}
                         /\ DeploymentSpec \notin Files
                         /\ NoItem \notin Files \cup {DeploymentSpec}

Items == Files \cup {DeploymentSpec}

\* The capacity of both channels is workerCount.
Capacity == Cardinality(Workers)

VARIABLES
    pc,         \* the main goroutine
    unread,     \* the files still to come from the archive
    offer,      \* the upload request it wants to send
    workItems,  \* channel of upload requests
    isClosed,   \* close(workItems) has been called
    workError,  \* channel of errors: how many there are in it
    worker,     \* [Workers -> place]
    object,     \* [Workers -> what it uploads]
    bucket,     \* what S3 has of this version
    result,     \* of uploadAllFiles
    pointer     \* the version that the application in the discovery has

vars == <<pc, unread, offer, workItems, isClosed, workError, worker, object,
          bucket, result, pointer>>

Places == {"read", "send", "spec", "close", "wait", "update", "returned"}

WorkerPlaces == {"receive", "upload", "report", "exited"}

TypeOK ==
    /\ pc \in Places
    /\ unread \subseteq Files
    /\ offer \in Items \cup {NoItem}
    /\ workItems \in Seq(Items) /\ Len(workItems) <= Capacity
    /\ isClosed \in BOOLEAN
    /\ workError \in 0..Capacity
    /\ worker \in [Workers -> WorkerPlaces]
    /\ object \in [Workers -> Items \cup {NoItem}]
    /\ bucket \subseteq Items
    /\ result \in {"none", "ok", "error"}
    /\ pointer \in {"old", "new"}

Init ==
    /\ pc = "read"
    /\ unread = Files
    /\ offer = NoItem
    /\ workItems = <<>>
    /\ isClosed = FALSE
    /\ workError = 0
    /\ worker = [w \in Workers |-> "receive"]
    /\ object = [w \in Workers |-> NoItem]
    /\ bucket = {}
    /\ result = "none"
    /\ pointer = "old"

workerVars == <<worker, object, bucket>>

Goes(from, to) == pc = from /\ pc' = to

-----------------------------------------------------------------------------
(* uploadAllFiles, the main goroutine                                      *)

ReadEntry ==
    /\ Goes("read", "send")
    /\ \E f \in unread : offer' = f /\ unread' = unread \ {f}
    /\ UNCHANGED <<workItems, isClosed, workError, workerVars, result, pointer>>

\* A broken archive: return err, by way of the deferred closeOnceAndWait().
ReadFails ==
    /\ Goes("read", "close")
    /\ result' = "error"
    /\ UNCHANGED <<unread, offer, workItems, isClosed, workError, workerVars, pointer>>

EndOfArchive ==
    /\ Goes("read", "spec")
    /\ unread = {}
    /\ offer' = DeploymentSpec
    /\ UNCHANGED <<unread, workItems, isClosed, workError, workerVars, result, pointer>>

Enqueue ==
    /\ Len(workItems) < Capacity
    /\ workItems' = Append(workItems, offer)
    /\ offer' = NoItem

\* The select of line 131: when both cases are ready, either is chosen.
SendFile ==
    /\ Goes("send", "read")
    /\ Enqueue
    /\ UNCHANGED <<unread, isClosed, workError, workerVars, result, pointer>>

SeeError ==
    /\ Goes("send", "close")
    /\ workError > 0
    /\ workError' = workError - 1
    /\ result' = "error"
    /\ UNCHANGED <<unread, offer, workItems, isClosed, workerVars, pointer>>

\* The send of line 144 is not in a select.
SendSpec ==
    /\ Goes("spec", "close")
    /\ Enqueue
    /\ UNCHANGED <<unread, isClosed, workError, workerVars, result, pointer>>

\* Fault: wg.Wait() without close(workItems).
CloseForgotten ==
    /\ Goes("close", "wait")
    /\ UNCHANGED <<unread, offer, workItems, isClosed, workError, workerVars, result,
                   pointer>>

CloseChannel ==
    /\ Goes("close", "wait")
    /\ isClosed' = TRUE
    /\ UNCHANGED <<unread, offer, workItems, workError, workerVars, result, pointer>>

\* Fault: the channel of errors is not looked at in the end.
WorkersDoneUnread ==
    /\ pc = "wait"
    /\ \A w \in Workers : worker[w] = "exited"
    /\ IF result = "error"
       THEN pc' = "returned" /\ UNCHANGED result
       ELSE result' = "ok" /\ pc' = "update"
    /\ UNCHANGED <<unread, offer, workItems, isClosed, workError, workerVars, pointer>>

\* wg.Wait() returns; without an error so far the channel of errors decides.
WorkersDone ==
    /\ pc = "wait"
    /\ \A w \in Workers : worker[w] = "exited"
    /\ IF result = "error" \/ workError > 0
       THEN result' = "error" /\ pc' = "returned"
       ELSE result' = "ok" /\ pc' = "update"
    /\ UNCHANGED <<unread, offer, workItems, isClosed, workError, workerVars, pointer>>

-----------------------------------------------------------------------------
(* uploadWorker                                                            *)

Receive(w) ==
    /\ worker[w] = "receive" /\ workItems # <<>>
    /\ worker' = [worker EXCEPT ![w] = "upload"]
    /\ object' = [object EXCEPT ![w] = Head(workItems)]
    /\ workItems' = Tail(workItems)
    /\ UNCHANGED <<pc, unread, offer, isClosed, workError, bucket, result, pointer>>

NoMoreItems(w) ==
    /\ worker[w] = "receive" /\ workItems = <<>> /\ isClosed
    /\ worker' = [worker EXCEPT ![w] = "exited"]
    /\ UNCHANGED <<pc, unread, offer, workItems, isClosed, workError, object,
                   bucket, result, pointer>>

Uploaded(w) ==
    /\ worker[w] = "upload"
    /\ worker' = [worker EXCEPT ![w] = "receive"]
    /\ object' = [object EXCEPT ![w] = NoItem]
    /\ bucket' = bucket \cup {object[w]}
    /\ UNCHANGED <<pc, unread, offer, workItems, isClosed, workError, result, pointer>>

UploadFails(w) ==
    /\ worker[w] = "upload"
    /\ worker' = [worker EXCEPT ![w] = "report"]
    /\ object' = [object EXCEPT ![w] = NoItem]
    /\ UNCHANGED <<pc, unread, offer, workItems, isClosed, workError, bucket,
                   result, pointer>>

Report(w) ==
    /\ worker[w] = "report" /\ workError < Capacity
    /\ worker' = [worker EXCEPT ![w] = "exited"]
    /\ workError' = workError + 1
    /\ UNCHANGED <<pc, unread, offer, workItems, isClosed, object, bucket, result,
                   pointer>>

-----------------------------------------------------------------------------
(* Deploy, after uploadAllFiles                                            *)

UpdateApplication ==
    /\ Goes("update", "returned")
    /\ pointer' \in {"new", pointer}  \* or the discovery refuses
    /\ UNCHANGED <<unread, offer, workItems, isClosed, workError, workerVars, result>>

Main == \/ ReadEntry \/ EndOfArchive \/ SendFile \/ SeeError \/ SendSpec
        \/ CloseChannel \/ WorkersDone \/ UpdateApplication

Work(w) == Receive(w) \/ NoMoreItems(w) \/ Uploaded(w) \/ UploadFails(w) \/ Report(w)

Next == Main \/ ReadFails \/ \E w \in Workers : Work(w)

Spec == Init /\ [][Next]_vars

\* Goroutines run; an upload ends, for it has a timeout of 120 s.
FairSpec == Spec /\ WF_vars(Main) /\ \A w \in Workers : WF_vars(Work(w))

-----------------------------------------------------------------------------
(* Properties                                                              *)

\* "atomically deploys a new version" (deploy.go:32): the routers are pointed
\* to a version only when every file of the archive is in the bucket, however
\* the workers, their errors and the reading of the archive interleave.
AtomicDeploy == pointer = "new" => bucket = Items

\* A failed worker can always report: there is room in workError for each
\* (deploy.go:91, 202).
ReportNeverBlocks ==
    \A w \in Workers : worker[w] = "report" => workError < Capacity

\* Deploy returns, whatever fails: no goroutine waits for one that is gone, or
\* for a channel to be closed.  The one exception is against the comment "cancel
\* and wait for workers exit in all exit paths" (deploy.go:100): when all workers
\* have left with an error and the channel is full, the send of the deployment
\* spec (line 144), which is in no select, blocks for ever.
DeployEnds ==
    <>(\/ pc = "returned"
       \/ pc = "spec" /\ \A w \in Workers : worker[w] = "exited")
=============================================================================
