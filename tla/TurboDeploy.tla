---------------------------- MODULE TurboDeploy ----------------------------
(***************************************************************************)
(* deploymentManager.Deploy (pkg/turbocharger/deployment.go) on top of     *)
(* syncutil.Concurrently (concurrently.go), with the nextFile() of the     *)
(* command tar-deploy-to-store (turbochargerdeploy/cli.go): a submitter    *)
(* reads an archive and hands its files over an unbuffered channel to      *)
(* workers, which insert them into the content-addressable store; when all *)
(* of them are done, the list of the files, the manifest, is inserted too. *)
(* The first error cancels the context of all the others.                  *)
(*                                                                         *)
(* Content IDs are the contents themselves, and a manifest's ID is the     *)
(* manifest: the hash is taken to be injective.  Of a manifest's metadata  *)
(* there is the archive that it was made of.  Names and paths are          *)
(* sequences of segments; the first one of "/a" is "".                     *)
(***************************************************************************)
EXTENDS Naturals, SequencesExt, Functions

CONSTANTS Workers,   \* 3 in the code
          NoFile,
          PathOrder, \* the sequence of all paths, in the order of their names
          Dotted     \* the segments that begin with a dot

VARIABLES
    archive,   \* the tar stream: sequence of [kind, name, content]
    submitter, \* the goroutine of workSubmitter
    taken,     \* how much of the archive it has read
    worker,    \* [Workers -> place]
    item,      \* [Workers -> the file it has received]
    failed,    \* the errgroup has an error, and taskCtx is cancelled
    listed,    \* manifest.Files
    pc,        \* "idle" before Deploy, then "wait", "publish", ...
    files,     \* storages.Files
    manifests  \* storages.Manifests

deployVars == <<submitter, taken, worker, item, failed, listed, pc>>

stores == <<files, manifests>>

\* "cut": a header whose content does not follow whole.  "end": the trailer.
Kinds == {"file", "dir", "cut", "end"}

IsFile(entry) == entry.kind \in {"file", "cut"}

FilesOf(entries) == {entries[i] : i \in {j \in DOMAIN entries : IsFile(entries[j])}}

\* Neither "/x" nor "./x", nor ".x".
Relative(name) == Head(name) \notin Dotted \cup {""}

\* "/" + name
PathOf(name) == <<"">> \o name

Listed(entry) == [path |-> PathOf(entry.name), content |-> entry.content]

DeployTypeOK ==
    /\ \A i \in DOMAIN archive : archive[i].kind \in Kinds
    /\ submitter \in {"next", "offer", "exited"}
    /\ taken \in 0..Len(archive)
    /\ worker \in [Workers -> {"range", "insert", "append", "exited"}]
    /\ item \in [Workers -> FilesOf(archive) \cup {NoFile}]
    /\ failed \in BOOLEAN
    /\ ToSet(listed) \subseteq {Listed(e) : e \in FilesOf(archive)}
    /\ pc \in {"idle", "wait", "publish", "deployed", "error"}

\* No tar-deploy-to-store runs, or has only begun.
Reset(place) ==
    /\ submitter' = "next"
    /\ taken' = 0
    /\ worker' = [w \in Workers |-> "range"]
    /\ item' = [w \in Workers |-> NoFile]
    /\ failed' = FALSE
    /\ listed' = <<>>
    /\ pc' = place

DeployInit ==
    /\ submitter = "next"
    /\ taken = 0
    /\ worker = [w \in Workers |-> "range"]
    /\ item = [w \in Workers |-> NoFile]
    /\ failed = FALSE
    /\ listed = <<>>
    /\ pc = "idle"
    /\ files = {}
    /\ manifests = {}

-----------------------------------------------------------------------------
(* workSubmitter (lines 91-119): the channel is closed when it returns     *)

Submitting == pc = "wait" /\ submitter = "next"

\* nextFile() skips directories.
NextFile(i) ==
    /\ i \in (taken + 1)..Len(archive)
    /\ IsFile(archive[i])
    /\ \A j \in (taken + 1)..(i - 1) : ~IsFile(archive[j])

Deployable(entry) == entry.kind = "file" /\ Relative(entry.name)

ReadFile ==
    /\ Submitting
    /\ \E i \in DOMAIN archive :
          /\ NextFile(i) /\ Deployable(archive[i])
          /\ taken' = i
    /\ submitter' = "offer"
    /\ UNCHANGED <<archive, worker, item, failed, listed, pc, stores>>

\* The stream ends between two entries, with or without a trailer.
NoMoreFiles ==
    /\ Submitting
    /\ \A i \in (taken + 1)..Len(archive) : ~IsFile(archive[i])
    /\ submitter' = "exited"
    /\ UNCHANGED <<archive, taken, worker, item, failed, listed, pc, stores>>

SubmitterFails ==
    /\ submitter' = "exited"
    /\ failed' = TRUE
    /\ UNCHANGED <<archive, taken, worker, item, listed, pc, stores>>

\* A file that is not relative to the root, or not all there.
RefuseFile ==
    /\ Submitting
    /\ \E i \in DOMAIN archive : NextFile(i) /\ ~Deployable(archive[i])
    /\ SubmitterFails

\* Whatever else ends the stream with an error.
ReadFails == Submitting /\ SubmitterFails

\* Fault: a plain send, not in a select.
SeeCancelNever == FALSE

\* workersCancel.Done()
SeeCancel ==
    /\ submitter = "offer" /\ failed
    /\ submitter' = "exited"
    /\ UNCHANGED <<archive, taken, worker, item, failed, listed, pc, stores>>

-----------------------------------------------------------------------------
(* A worker (lines 61-91)                                                  *)

\* The channel has no buffer: a send and a receive happen together.
Receive(w) ==
    /\ submitter = "offer" /\ worker[w] = "range"
    /\ submitter' = "next"
    /\ worker' = [worker EXCEPT ![w] = "insert"]
    /\ item' = [item EXCEPT ![w] = archive[taken]]
    /\ UNCHANGED <<archive, taken, failed, listed, pc, stores>>

WorkClosed(w) ==
    /\ pc = "wait" /\ submitter = "exited" /\ worker[w] = "range"
    /\ worker' = [worker EXCEPT ![w] = "exited"]
    /\ UNCHANGED <<archive, submitter, taken, item, failed, listed, pc, stores>>

InsertFile(w) ==
    /\ worker[w] = "insert"
    /\ worker' = [worker EXCEPT ![w] = "append"]
    /\ files' = files \cup {item[w].content}
    /\ UNCHANGED <<archive, submitter, taken, item, failed, listed, pc, manifests>>

\* Fault: the error is logged, and the worker goes on with the next file.
InsertFailsSilently(w) ==
    /\ worker[w] = "insert"
    /\ worker' = [worker EXCEPT ![w] = "range"]
    /\ UNCHANGED <<archive, submitter, taken, item, failed, listed, pc, stores>>

\* Also because taskCtx is cancelled.
InsertFails(w) ==
    /\ worker[w] = "insert"
    /\ worker' = [worker EXCEPT ![w] = "exited"]
    /\ failed' = TRUE
    /\ UNCHANGED <<archive, submitter, taken, item, listed, pc, stores>>

\* Inside manifestMu.
AppendToManifest(w) ==
    /\ worker[w] = "append"
    /\ worker' = [worker EXCEPT ![w] = "range"]
    /\ item' = [item EXCEPT ![w] = NoFile]
    /\ listed' = Append(listed, Listed(item[w]))
    /\ UNCHANGED <<archive, submitter, taken, failed, pc, stores>>

-----------------------------------------------------------------------------
(* Deploy                                                                  *)

\* errGroup.Wait() has seen all of them return (line 119); no files at all is
\* an error too (line 123).
Join ==
    /\ pc = "wait"
    /\ submitter = "exited" /\ \A w \in Workers : worker[w] = "exited"
    /\ pc' = IF failed \/ listed = <<>> THEN "error" ELSE "publish"
    /\ UNCHANGED <<archive, submitter, taken, worker, item, failed, listed, stores>>

Rank(entry) == CHOOSE i \in DOMAIN PathOrder : PathOrder[i] = entry.path

\* sort.Slice is not stable: entries of one path come in any order.
SortedByPath(entries) ==
    {[i \in DOMAIN entries |-> entries[p[i]]] :
        p \in {q \in Bijection(DOMAIN entries, DOMAIN entries) :
                 \A i, j \in DOMAIN entries :
                    i < j => Rank(entries[q[i]]) <= Rank(entries[q[j]])}}

Publish ==
    /\ pc = "publish"
    /\ \E m \in SortedByPath(listed) :
          manifests' = manifests \cup {[archive |-> archive, files |-> m]}
    /\ pc' = "deployed"
    /\ UNCHANGED <<archive, submitter, taken, worker, item, failed, listed, files>>

\* Also because the command is interrupted: this insert has its context.
PublishFails ==
    /\ pc = "publish"
    /\ pc' = "error"
    /\ UNCHANGED <<archive, submitter, taken, worker, item, failed, listed, stores>>

Submit == ReadFile \/ NoMoreFiles \/ RefuseFile \/ SeeCancel

Work(w) == \/ Receive(w) \/ WorkClosed(w) \/ InsertFile(w) \/ InsertFails(w)
           \/ AppendToManifest(w)

Finish == Join \/ Publish \/ PublishFails

Deploy == Submit \/ ReadFails \/ Finish \/ \E w \in Workers : Work(w)

-----------------------------------------------------------------------------
(* Properties                                                              *)

\* A manifest in the store, which a router can be pointed to, lists each file
\* that the archive has up to where it ends, and nothing else, all of them
\* relative to the root, and their contents are in the store, whatever failed
\* or was killed before (deployment.go:61-138, cli.go:82-103).
ManifestComplete ==
    \A m \in manifests :
        /\ ToSet(m.files) = {Listed(e) : e \in FilesOf(m.archive)}
        /\ \A e \in FilesOf(m.archive) : Deployable(e) /\ e.content \in files
=============================================================================
