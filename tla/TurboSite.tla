----------------------------- MODULE TurboSite -----------------------------
(***************************************************************************)
(* A site on its way into the store and back: an application's command     *)
(* static-files-export (turbochargerapp/appintegration.go) writes its      *)
(* files to a tar stream, tar-deploy-to-store reads it (TurboDeploy), and  *)
(* download-from-store (turbochargerdeploy/cli.go) fetches the files of a  *)
(* manifest into a directory.                                              *)
(*                                                                         *)
(* The three are processes of a pipe or a script.  A reader of the stream  *)
(* sees a prefix of it wherever it is, so that the export runs first here; *)
(* its exit status reaches nobody in a pipe.                               *)
(***************************************************************************)
EXTENDS TurboDeploy

CONSTANTS
    Children, \* [directories -> the names in it, as ReadDir sorts them]
    Content,  \* [names of files -> content]
    Foreign,  \* archives of the same files that another tar has made
    Missing, Partial, \* what the directory of a download has of a file
    MaxManifests \* there are no more deploys then

Top == <<>>

Names == DOMAIN Children \cup DOMAIN Content

Entry(kind, name, content) == [kind |-> kind, name |-> name, content |-> content]

\* A file is found by way of this name.
LeadsTo(name, file) ==
    name = file \/ (name \in DOMAIN Children /\ IsPrefix(name, file))

\* The site is a tree of directories.  Another tar has archived all of it, under the
\* same names or under names that tar-deploy-to-store refuses.
ASSUME SiteAssumption ==
    /\ Top \in DOMAIN Children
    /\ \A n \in Names : n \in Seq(STRING)
    /\ \A d \in DOMAIN Children : d \notin DOMAIN Content /\ Children[d] \in Seq(Names)
    /\ \A f \in DOMAIN Content, d \in DOMAIN Children :
          LeadsTo(d, f) => \E c \in ToSet(Children[d]) : LeadsTo(c, f)
    /\ Content \in [DOMAIN Content -> Range(Content)]
    /\ Missing # Partial /\ {Missing, Partial} \cap Range(Content) = {}
    /\ \A a \in Foreign :
          /\ a \in Seq(ToSet(a))
          /\ \A e \in ToSet(a) : /\ e.kind \in Kinds /\ e.name \in Seq(STRING)
                                 /\ e = Entry(e.kind, e.name, e.content)
          /\ \A e \in FilesOf(a) :
                Deployable(e) => e.name \in DOMAIN Content /\ e.content = Content[e.name]
          /\ (\A e \in FilesOf(a) : Deployable(e)) =>
                DOMAIN Content \subseteq {e.name : e \in FilesOf(a)}

VARIABLES
    exporter, \* staticFilesExport: "walk", "closed" or "failed"
    todo,     \* the names that its loops have yet to visit
    download, \* downloadFromStore: "none", "files", "downloaded" or "failed"
    wanted,   \* the manifest it downloads
    written,  \* how many of the manifest's files it has written
    local     \* [names -> content, Missing or Partial]

exportVars == <<exporter, todo>>

downloadVars == <<download, wanted, written, local>>

vars == <<archive, deployVars, stores, exportVars, downloadVars>>

Empty == [n \in DOMAIN Content |-> Missing]

NoManifest == [archive |-> <<>>, files |-> <<>>]

TypeOK ==
    /\ DeployTypeOK
    /\ exporter \in {"walk", "closed", "failed"}
    /\ todo \in Seq(Names)
    /\ download \in {"none", "files", "downloaded", "failed"}
    /\ wanted \in manifests \cup {NoManifest}
    /\ written \in 0..Len(wanted.files)
    /\ local \in [DOMAIN Content -> Range(Content) \cup {Missing, Partial}]

Init ==
    /\ DeployInit
    /\ exporter = "walk" /\ archive = <<>> /\ todo = Children[Top]
    /\ download = "none" /\ wanted = NoManifest /\ written = 0 /\ local = Empty

-----------------------------------------------------------------------------
(* staticFilesExport (appintegration.go:62-133)                            *)

Exporting == pc = "idle" /\ exporter = "walk"

Exported(entries) ==
    /\ archive' = archive \o entries
    /\ UNCHANGED <<deployVars, stores, downloadVars>>

WriteDirectory ==
    /\ Exporting /\ todo # <<>> /\ Head(todo) \in DOMAIN Children
    /\ Exported(<<Entry("dir", Head(todo), NoFile)>>)
    /\ todo' = Children[Head(todo)] \o Tail(todo)
    /\ UNCHANGED exporter

WriteFile ==
    /\ Exporting /\ todo # <<>> /\ Head(todo) \in DOMAIN Content
    /\ Exported(<<Entry("file", Head(todo), Content[Head(todo)])>>)
    /\ todo' = Tail(todo)
    /\ UNCHANGED exporter

\* tarWriter.Close()
CloseArchive ==
    /\ Exporting /\ todo = <<>>
    /\ Exported(<<Entry("end", Top, NoFile)>>)
    /\ exporter' = "closed"
    /\ UNCHANGED todo

\* Fault: a deferred Close() closes the archive after an error too.
ExportFailsClosed ==
    /\ Exporting
    /\ Exported(<<Entry("end", Top, NoFile)>>)
    /\ exporter' = "failed"
    /\ todo' = <<>>

\* Whatever fails, the archive is not closed.  A directory that cannot be read has
\* its header written, a file that cannot be opened or copied too.
ExportFails ==
    /\ Exporting
    /\ \/ Exported(<<>>)
       \/ /\ todo # <<>>
          /\ LET kind == IF Head(todo) \in DOMAIN Children THEN "dir" ELSE "cut" IN
             Exported(<<Entry(kind, Head(todo), NoFile)>>)
    /\ exporter' = "failed"
    /\ todo' = <<>>

-----------------------------------------------------------------------------
(* tarDeploy (cli.go:66-117)                                               *)

\* Reads what was exported, or an archive made elsewhere.
TarDeploy ==
    /\ pc = "idle" /\ exporter # "walk"
    /\ archive' \in {archive} \cup Foreign
    /\ Reset("wait")
    /\ UNCHANGED <<stores, exportVars, downloadVars>>

\* The process has ended, or was killed at whatever point, and the operator runs
\* the export and the deploy again.
Again ==
    /\ pc # "idle" /\ Cardinality(manifests) < MaxManifests
    /\ Reset("idle")
    /\ exporter' = "walk" /\ archive' = <<>> /\ todo' = Children[Top]
    /\ download' = "none" /\ wanted' = NoManifest /\ written' = 0 /\ local' = Empty
    /\ UNCHANGED stores

-----------------------------------------------------------------------------
(* downloadFromStore (cli.go:119-167)                                      *)

\* Into an empty directory, or (again) into what an earlier attempt has left.
StartDownload ==
    /\ pc \in {"deployed", "error"} /\ download # "files"
    /\ \E m \in manifests : wanted' = m
    /\ download' = "files"
    /\ written' = 0
    /\ local' \in {Empty, local}
    /\ UNCHANGED <<archive, deployVars, stores, exportVars>>

\* strings.TrimLeft(path, "/"): less what is empty in front.
LocalName(path) ==
    LET named == {i \in DOMAIN path : path[i] # ""}
    IN IF named = {} THEN <<>> ELSE SubSeq(path, Min(named), Len(path))

Downloads(entry, content) ==
    local' = [n \in DOMAIN local |-> IF n = LocalName(entry.path) THEN content ELSE local[n]]

DownloadFile ==
    /\ download = "files" /\ written < Len(wanted.files)
    /\ LET entry == wanted.files[written + 1] IN
       /\ entry.content \in files
       /\ Downloads(entry, entry.content)
    /\ written' = written + 1
    /\ UNCHANGED <<archive, deployVars, stores, exportVars, download, wanted>>

\* The object cannot be fetched, or its copying ends half way.
DownloadFails ==
    /\ download = "files" /\ written < Len(wanted.files)
    /\ \/ UNCHANGED local
       \/ Downloads(wanted.files[written + 1], Partial)
    /\ download' = "failed"
    /\ UNCHANGED <<archive, deployVars, stores, exportVars, wanted, written>>

DownloadEnds ==
    /\ download = "files" /\ written = Len(wanted.files)
    /\ download' = "downloaded"
    /\ UNCHANGED <<archive, deployVars, stores, exportVars, wanted, written, local>>

-----------------------------------------------------------------------------
Export == WriteDirectory \/ WriteFile \/ CloseArchive

Download == DownloadFile \/ DownloadEnds

Next ==
    \/ Export \/ ExportFails
    \/ TarDeploy \/ (Deploy /\ UNCHANGED <<exportVars, downloadVars>>)
    \/ Again
    \/ StartDownload \/ Download \/ DownloadFails

Spec == Init /\ [][Next]_vars

\* Goroutines run, reads and writes of files and inserts end.
FairSpec ==
    Spec /\ WF_vars(Export) /\ WF_vars(TarDeploy) /\ WF_vars(Download)
         /\ WF_vars(Submit /\ UNCHANGED <<exportVars, downloadVars>>)
         /\ WF_vars(Finish /\ UNCHANGED <<exportVars, downloadVars>>)
         /\ \A w \in Workers : WF_vars(Work(w) /\ UNCHANGED <<exportVars, downloadVars>>)

-----------------------------------------------------------------------------
(* Properties                                                              *)

Closed(entries) == entries # <<>> /\ Last(entries).kind = "end"

\* A download that succeeds has the files that the manifest's archive had, and if
\* that archive was closed, every file of the site, under its name and with its
\* content, whatever an earlier attempt has left (appintegration.go:62-133,
\* cli.go:82-103 and 135-164).
RoundTrip ==
    download = "downloaded" =>
        /\ \A e \in FilesOf(wanted.archive) : local[e.name] = e.content
        /\ Closed(wanted.archive) => local = Content

\* A deploy that is not started over ends: neither the submitter nor a worker
\* waits for a goroutine that has left with an error (deployment.go:110-117).
DeployEnds == <>[][~Again]_vars => <>(pc \in {"deployed", "error"})
=============================================================================
