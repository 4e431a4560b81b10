-------------------------- MODULE TurboSiteProofs --------------------------
(***************************************************************************)
(* Theorems about TurboSite, and the TurboDeploy in it, for any site, any  *)
(* archives and any number of workers.                                     *)
(***************************************************************************)
EXTENDS TurboSite, SequenceTheorems, TLAPS

\* The entries that there are, and could be.
Contents == {e.content : e \in UNION {ToSet(a) : a \in Foreign}}
                \cup {Content[n] : n \in DOMAIN Content} \cup {NoFile}

Entries == [kind : Kinds, name : Seq(STRING), content : Contents]

Has(w) == worker[w] \in {"insert", "append"}

\* What the proof needs of the types.
DeployTypes ==
    /\ archive \in Seq(Entries)
    /\ todo \in Seq(Names)
    /\ taken \in 0..Len(archive)
    /\ worker \in [Workers -> {"range", "insert", "append", "exited"}]
    /\ DOMAIN item = Workers
    /\ failed \in BOOLEAN
    /\ listed \in Seq({Listed(e) : e \in FilesOf(archive)})

\* Nothing is read before the export has ended.
IdleInv ==
    pc = "idle" => /\ taken = 0 /\ listed = <<>> /\ submitter = "next"
                   /\ worker = [w \in Workers |-> "range"]

\* A file in somebody's hands is one of the archive, and deployable.
ItemInv ==
    /\ submitter = "offer" => /\ taken \in DOMAIN archive
                              /\ IsFile(archive[taken]) /\ Deployable(archive[taken])
    /\ \A w \in Workers : Has(w) => item[w] \in FilesOf(archive) /\ Deployable(item[w])

\* Unless something failed, each file up to where the submitter is can be deployed,
\* and is listed, offered or with a worker.
NothingLost ==
    failed \/ \A i \in 1..taken : IsFile(archive[i]) =>
        /\ Deployable(archive[i])
        /\ \/ Listed(archive[i]) \in ToSet(listed)
           \/ submitter = "offer" /\ i = taken
           \/ \E w \in Workers : Has(w) /\ item[w] = archive[i]

\* The submitter leaves without an error only when there are no more files.
SubmitterInv ==
    submitter = "exited" =>
        failed \/ \A i \in (taken + 1)..Len(archive) : ~IsFile(archive[i])

\* What is listed, or about to be, is in the store.
StoredInv ==
    /\ \A w \in Workers : worker[w] = "append" => item[w].content \in files
    /\ \A e \in ToSet(listed) : e.content \in files

\* Deploy publishes what all of them have left, without an error.
PublishInv ==
    pc = "publish" => /\ ~failed /\ submitter = "exited"
                      /\ \A w \in Workers : worker[w] = "exited"

\* The inductive invariant for ManifestComplete.
IInv == /\ DeployTypes /\ IdleInv /\ ItemInv /\ NothingLost /\ SubmitterInv
        /\ StoredInv /\ PublishInv /\ ManifestComplete

-----------------------------------------------------------------------------
\* Sorting changes the order only.
LEMMA SortingKeeps ==
    ASSUME NEW S, NEW entries \in Seq(S), NEW m \in SortedByPath(entries)
    PROVE  ToSet(m) = ToSet(entries)
<1>1. PICK p \in Bijection(DOMAIN entries, DOMAIN entries) :
          m = [i \in DOMAIN entries |-> entries[p[i]]]
  BY DEF SortedByPath
<1>2. /\ p \in [DOMAIN entries -> DOMAIN entries]
      /\ \A j \in DOMAIN entries : \E i \in DOMAIN entries : p[i] = j
  BY DEF Bijection, Injection, Surjection
<1> QED
  BY <1>1, <1>2 DEF ToSet

\* The list of an append is the list and the entry.
LEMMA AppendAdds ==
    ASSUME NEW S, NEW entries \in Seq(S), NEW e \in S
    PROVE  Append(entries, e) \in Seq(S) /\ ToSet(Append(entries, e)) = ToSet(entries) \cup {e}
<1>1. /\ Append(entries, e) \in Seq(S)
      /\ Len(Append(entries, e)) = Len(entries) + 1
      /\ \A i \in 1..Len(entries) : Append(entries, e)[i] = entries[i]
      /\ Append(entries, e)[Len(entries) + 1] = e
      /\ Len(entries) \in Nat
      /\ DOMAIN entries = 1..Len(entries)
      /\ DOMAIN Append(entries, e) = 1..(Len(entries) + 1)
  OBVIOUS
<1>2. ToSet(entries) \cup {e} \subseteq ToSet(Append(entries, e))
  BY <1>1 DEF ToSet
<1>3. ToSet(Append(entries, e)) \subseteq ToSet(entries) \cup {e}
  BY <1>1 DEF ToSet
<1> QED
  BY <1>1, <1>2, <1>3

\* While nothing is read, whatever the archive is, the invariant holds.
LEMMA IdleKeeps ==
    ASSUME IInv, archive' \in Seq(Entries),
           todo' \in Seq(Names),
           taken' = 0, listed' = <<>>, submitter' = "next", failed' \in BOOLEAN,
           worker' = [w \in Workers |-> "range"], DOMAIN item' = Workers,
           pc' \in {"idle", "wait"}, UNCHANGED stores
    PROVE  IInv'
<1>1. DeployTypes'
  BY DEF DeployTypes
<1>2. ToSet(listed') = {}
  BY DEF ToSet
<1>3. (IdleInv /\ ItemInv /\ SubmitterInv /\ PublishInv)'
  BY DEF IdleInv, ItemInv, SubmitterInv, PublishInv, Has
<1>4. NothingLost'
  BY DEF NothingLost
<1>5. StoredInv' /\ ManifestComplete'
  BY <1>2 DEF IInv, StoredInv, ManifestComplete, stores
<1> QED
  BY <1>1, <1>3, <1>4, <1>5 DEF IInv

\* What the exporter writes is an entry.
LEMMA ExportedTypes ==
    ASSUME IInv, NEW e \in Entries
    PROVE  archive \o <<e>> \in Seq(Entries)
  BY DEF IInv, DeployTypes

\* An export, also one that fails, keeps the invariant: nothing is read yet.
LEMMA ExportKeeps ==
    ASSUME IInv, Export \/ ExportFails
    PROVE  IInv'
<1> USE DEF Exporting, Exported, deployVars, stores
<1>1. /\ taken' = 0 /\ listed' = <<>> /\ submitter' = "next" /\ failed' \in BOOLEAN
      /\ worker' = [w \in Workers |-> "range"] /\ DOMAIN item' = Workers
      /\ pc' = "idle" /\ UNCHANGED stores
  BY DEF IInv, DeployTypes, IdleInv, Export, WriteDirectory, WriteFile, CloseArchive,
         ExportFails
<1>2. todo \in Seq(Names) /\ archive \in Seq(Entries)
  BY DEF IInv, DeployTypes
<1>3. Entry("end", Top, NoFile) \in Entries
  BY DEF Entry, Entries, Kinds, Contents, Top
<1>4. ASSUME todo # <<>>
      PROVE  /\ Head(todo) \in Names /\ Tail(todo) \in Seq(Names)
             /\ Entry("dir", Head(todo), NoFile) \in Entries
             /\ Entry("cut", Head(todo), NoFile) \in Entries
  <2>1. Head(todo) \in Names /\ Tail(todo) \in Seq(Names)
    BY <1>2, <1>4
  <2>2. Head(todo) \in Seq(STRING)
    BY <2>1, SiteAssumption
  <2> QED
    BY <2>1, <2>2 DEF Entry, Entries, Kinds, Contents
<1>5. archive' \in Seq(Entries) /\ todo' \in Seq(Names)
  <2>1. CASE WriteDirectory
    <3>1. Children[Head(todo)] \in Seq(Names)
      BY <2>1, SiteAssumption DEF WriteDirectory
    <3> QED
      BY <2>1, <3>1, <1>2, <1>4, ExportedTypes DEF WriteDirectory
  <2>2. CASE WriteFile
    <3>1. Content[Head(todo)] \in Contents /\ Head(todo) \in Seq(STRING)
      BY <2>2, SiteAssumption DEF WriteFile, Names, Contents
    <3>2. Entry("file", Head(todo), Content[Head(todo)]) \in Entries
      BY <3>1 DEF Entry, Entries, Kinds, Contents
    <3> QED
      BY <2>2, <3>2, <1>2, <1>4, ExportedTypes DEF WriteFile
  <2>3. CASE CloseArchive
    BY <2>3, <1>2, <1>3, ExportedTypes DEF CloseArchive
  <2>4. CASE ExportFails
    <3>1. todo' = <<>>
      BY <2>4 DEF ExportFails
    <3>2. CASE Exported(<<>>)
      BY <3>1, <3>2, <1>2
    <3>3. CASE todo # <<>> /\ \E kind \in {"dir", "cut"} :
                                 Exported(<<Entry(kind, Head(todo), NoFile)>>)
      BY <3>1, <3>3, <1>4, ExportedTypes
    <3> QED
      BY <2>4, <3>2, <3>3 DEF ExportFails
  <2> QED
    BY <2>1, <2>2, <2>3, <2>4 DEF Export
<1> QED
  BY <1>1, <1>5, IdleKeeps

\* What tar-deploy-to-store may be given is a sequence of entries.
LEMMA ArchiveTypes ==
    /\ Foreign \subseteq Seq(Entries)
    /\ <<>> \in Seq(Entries) /\ Len(<<>>) = 0
    /\ Children[Top] \in Seq(Names)
<1>1. ASSUME NEW a \in Foreign PROVE a \in Seq(Entries)
  <2>1. a \in Seq(ToSet(a))
    BY SiteAssumption
  <2>2. ASSUME NEW e \in ToSet(a) PROVE e \in Entries
    <3>1. /\ e.kind \in Kinds /\ e.name \in Seq(STRING)
          /\ e = [kind |-> e.kind, name |-> e.name, content |-> e.content]
      BY SiteAssumption DEF Entry
    <3>2. e.content \in Contents
      BY DEF Contents
    <3> QED
      BY <3>1, <3>2 DEF Entries
  <2> QED
    BY <2>1, <2>2
<1> QED
  BY <1>1, SiteAssumption

\* A file changes hands, or its hands leave with an error: each step of Deploy
\* keeps the invariant.
LEMMA SubmitKeeps ==
    ASSUME IInv, Submit \/ ReadFails, UNCHANGED todo
    PROVE  IInv'
<1> USE DEF stores
<1>1. archive' = archive /\ UNCHANGED <<worker, item, listed, pc, files, manifests>>
  BY DEF Submit, ReadFile, NoMoreFiles, RefuseFile, ReadFails, SubmitterFails, SeeCancel
<1>2. pc = "wait" \/ submitter = "offer"
  BY DEF Submit, ReadFile, NoMoreFiles, RefuseFile, ReadFails, SeeCancel, Submitting
<1>3. pc # "idle" /\ submitter # "exited"
  BY <1>2 DEF IInv, IdleInv, Submit, ReadFile, NoMoreFiles, RefuseFile, ReadFails, SeeCancel,
              Submitting
<1>4. /\ archive \in Seq(Entries) /\ taken \in 0..Len(archive) /\ failed \in BOOLEAN
      /\ DOMAIN archive = 1..Len(archive) /\ Len(archive) \in Nat
  BY DEF IInv, DeployTypes
<1>5. CASE ReadFile
  <2>1. PICK i \in DOMAIN archive :
            NextFile(i) /\ Deployable(archive[i]) /\ taken' = i
    BY <1>5 DEF ReadFile
  <2>2. submitter' = "offer" /\ UNCHANGED failed /\ submitter = "next"
    BY <1>5 DEF ReadFile, Submitting
  <2>3. DeployTypes' /\ ItemInv'
    BY <1>1, <1>4, <2>1, <2>2 DEF IInv, DeployTypes, ItemInv, NextFile, Has
  <2>4. ASSUME ~failed, NEW j \in 1..i, IsFile(archive[j])
        PROVE  /\ Deployable(archive[j])
               /\ \/ Listed(archive[j]) \in ToSet(listed)
                  \/ j = i
                  \/ \E w \in Workers : Has(w) /\ item[w] = archive[j]
    <3>1. CASE j \in 1..taken
      BY <2>2, <2>4, <3>1 DEF IInv, NothingLost
    <3>2. CASE j \notin 1..taken
      BY <1>4, <2>1, <2>4, <3>2 DEF NextFile
    <3> QED
      BY <3>1, <3>2
  <2>5. NothingLost'
    BY <1>1, <2>1, <2>2, <2>4 DEF NothingLost, Has
  <2>6. (IdleInv /\ SubmitterInv /\ StoredInv /\ PublishInv /\ ManifestComplete)'
    BY <1>1, <1>3, <2>2 DEF IInv, IdleInv, SubmitterInv, StoredInv, PublishInv, ManifestComplete
  <2> QED
    BY <2>3, <2>5, <2>6 DEF IInv
<1>6. CASE ~ReadFile
  <2>1. /\ submitter' = "exited" /\ taken' = taken
        /\ \/ failed'
           \/ /\ failed' = failed /\ submitter = "next"
              /\ \A i \in (taken + 1)..Len(archive) : ~IsFile(archive[i])
    BY <1>6 DEF Submit, NoMoreFiles, RefuseFile, ReadFails, SubmitterFails, SeeCancel,
                Submitting
  <2>2. failed' \in BOOLEAN
    BY <1>4, <1>6 DEF Submit, NoMoreFiles, RefuseFile, ReadFails, SubmitterFails, SeeCancel
  <2>3. DeployTypes'
    BY <1>1, <2>1, <2>2 DEF IInv, DeployTypes
  <2>4. (ItemInv /\ NothingLost)'
    BY <1>1, <2>1 DEF IInv, ItemInv, NothingLost, Has
  <2>5. (IdleInv /\ SubmitterInv /\ StoredInv /\ ManifestComplete)'
    BY <1>1, <1>3, <2>1 DEF IInv, IdleInv, SubmitterInv, StoredInv, ManifestComplete
  <2>6. PublishInv'
    BY <1>1, <1>3 DEF IInv, PublishInv
  <2> QED
    BY <2>3, <2>4, <2>5, <2>6 DEF IInv
<1> QED
  BY <1>5, <1>6

LEMMA WorkKeeps ==
    ASSUME IInv, NEW w \in Workers, Work(w), UNCHANGED todo
    PROVE  IInv'
<1> USE DEF stores
<1>1. /\ archive \in Seq(Entries) /\ taken \in 0..Len(archive) /\ failed \in BOOLEAN
      /\ DOMAIN archive = 1..Len(archive) /\ Len(archive) \in Nat
      /\ worker \in [Workers -> {"range", "insert", "append", "exited"}]
      /\ DOMAIN item = Workers
      /\ listed \in Seq({Listed(e) : e \in FilesOf(archive)})
  BY DEF IInv, DeployTypes
<1>2. archive' = archive /\ taken' = taken /\ pc' = pc /\ manifests' = manifests
  BY DEF Work, Receive, WorkClosed, InsertFile, InsertFails, AppendToManifest
<1>3. pc # "idle" /\ worker[w] # "exited"
  BY <1>1 DEF Work, Receive, WorkClosed, InsertFile, InsertFails, AppendToManifest, IInv, IdleInv
<1>4. CASE Receive(w)
  <2>1. /\ submitter = "offer" /\ submitter' = "next" /\ worker[w] = "range"
        /\ worker' = [worker EXCEPT ![w] = "insert"]
        /\ item' = [item EXCEPT ![w] = archive[taken]]
        /\ UNCHANGED <<failed, listed, files>>
    BY <1>4 DEF Receive
  <2>2. archive[taken] \in FilesOf(archive) /\ Deployable(archive[taken])
    BY <2>1 DEF IInv, ItemInv, FilesOf
  <2>3. DeployTypes'
    BY <1>1, <1>2, <2>1 DEF IInv, DeployTypes
  <2>4. ItemInv'
    BY <1>1, <1>2, <2>1, <2>2 DEF IInv, ItemInv, Has
  <2>5. NothingLost'
    BY <1>1, <1>2, <2>1 DEF IInv, NothingLost, Has
  <2>6. StoredInv'
    BY <1>1, <1>2, <2>1 DEF IInv, StoredInv
  <2>7. (IdleInv /\ SubmitterInv /\ PublishInv /\ ManifestComplete)'
    BY <1>2, <1>3, <2>1 DEF IInv, IdleInv, SubmitterInv, PublishInv, ManifestComplete
  <2> QED
    BY <2>3, <2>4, <2>5, <2>6, <2>7 DEF IInv
<1>5. CASE WorkClosed(w)
  BY <1>1, <1>2, <1>3, <1>5
     DEF WorkClosed, IInv, DeployTypes, IdleInv, ItemInv, NothingLost, SubmitterInv, StoredInv,
         PublishInv, ManifestComplete, Has
<1>6. CASE InsertFile(w)
  BY <1>1, <1>2, <1>3, <1>6
     DEF InsertFile, IInv, DeployTypes, IdleInv, ItemInv, NothingLost, SubmitterInv, StoredInv,
         PublishInv, ManifestComplete, Has
<1>7. CASE InsertFails(w)
  BY <1>1, <1>2, <1>3, <1>7
     DEF InsertFails, IInv, DeployTypes, IdleInv, ItemInv, NothingLost, SubmitterInv, StoredInv,
         PublishInv, ManifestComplete, Has
<1>8. CASE AppendToManifest(w)
  <2>1. /\ worker[w] = "append"
        /\ worker' = [worker EXCEPT ![w] = "range"]
        /\ item' = [item EXCEPT ![w] = NoFile]
        /\ listed' = Append(listed, Listed(item[w]))
        /\ UNCHANGED <<submitter, failed, files>>
    BY <1>8 DEF AppendToManifest
  <2>2. item[w] \in FilesOf(archive) /\ item[w].content \in files
    BY <2>1 DEF IInv, ItemInv, StoredInv, Has
  <2>3. /\ listed' \in Seq({Listed(e) : e \in FilesOf(archive)})
        /\ ToSet(listed') = ToSet(listed) \cup {Listed(item[w])}
    BY <1>1, <2>1, <2>2, AppendAdds, SMTT(30)
  <2>4. DeployTypes'
    BY <1>1, <1>2, <2>1, <2>3 DEF IInv, DeployTypes
  <2>5. ItemInv'
    BY <1>1, <1>2, <2>1 DEF IInv, ItemInv, Has
  <2>6. NothingLost'
    BY <1>1, <1>2, <2>1, <2>3 DEF IInv, NothingLost, Has
  <2>7. StoredInv'
    BY <1>1, <1>2, <2>1, <2>2, <2>3 DEF IInv, StoredInv, Listed
  <2>8. (IdleInv /\ SubmitterInv /\ PublishInv /\ ManifestComplete)'
    BY <1>2, <1>3, <2>1 DEF IInv, IdleInv, SubmitterInv, PublishInv, ManifestComplete
  <2> QED
    BY <2>4, <2>5, <2>6, <2>7, <2>8 DEF IInv
<1> QED
  BY <1>4, <1>5, <1>6, <1>7, <1>8 DEF Work

LEMMA FinishKeeps ==
    ASSUME IInv, Finish, UNCHANGED todo
    PROVE  IInv'
<1> USE DEF stores
<1>1. /\ pc # "idle"
      /\ UNCHANGED <<archive, submitter, taken, worker, item, failed, listed, files>>
  BY DEF Finish, Join, Publish, PublishFails
<1>2. (DeployTypes /\ ItemInv /\ NothingLost /\ SubmitterInv /\ StoredInv)'
  BY <1>1 DEF IInv, DeployTypes, ItemInv, NothingLost, SubmitterInv, StoredInv, Has
<1>3. (IdleInv /\ PublishInv)'
  BY <1>1 DEF Finish, Join, Publish, PublishFails, IdleInv, PublishInv
<1>4. ManifestComplete'
  <2>1. CASE manifests' = manifests
    BY <1>1, <2>1 DEF IInv, ManifestComplete
  <2>2. CASE Publish
    <3>1. PICK m \in SortedByPath(listed) :
              manifests' = manifests \cup {[archive |-> archive, files |-> m]}
      BY <2>2 DEF Publish
    <3>2. /\ archive \in Seq(Entries) /\ taken \in 0..Len(archive)
          /\ DOMAIN archive = 1..Len(archive) /\ Len(archive) \in Nat
          /\ listed \in Seq({Listed(e) : e \in FilesOf(archive)})
      BY DEF IInv, DeployTypes
    <3>3. ToSet(m) = ToSet(listed)
      BY <3>2, SortingKeeps
    <3>4. ToSet(listed) \subseteq {Listed(e) : e \in FilesOf(archive)}
      BY <3>2 DEF ToSet
    <3>5. ASSUME NEW i \in DOMAIN archive, IsFile(archive[i])
          PROVE  Listed(archive[i]) \in ToSet(listed) /\ Deployable(archive[i])
      <4>1. /\ ~failed /\ submitter = "exited" /\ \A w \in Workers : ~Has(w)
        BY <2>2 DEF IInv, PublishInv, Publish, Has
      <4>2. i \in 1..taken
        BY <3>2, <3>5, <4>1 DEF IInv, SubmitterInv
      <4> QED
        BY <3>5, <4>1, <4>2 DEF IInv, NothingLost
    <3>6. \A e \in FilesOf(archive) : Listed(e) \in ToSet(listed) /\ Deployable(e)
      BY <3>5 DEF FilesOf
    <3>7. \A e \in FilesOf(archive) : e.content \in files
      BY <3>6 DEF IInv, StoredInv, Listed
    <3> QED
      BY <1>1, <3>1, <3>3, <3>4, <3>6, <3>7 DEF IInv, ManifestComplete
  <2> QED
    BY <2>1, <2>2 DEF Finish, Join, PublishFails
<1> QED
  BY <1>2, <1>3, <1>4 DEF IInv

\* Every step keeps the invariant.
LEMMA NextIInv == IInv /\ [Next]_vars => IInv'
<1> SUFFICES ASSUME IInv, [Next]_vars PROVE IInv'
  OBVIOUS
<1>1. CASE Export \/ ExportFails
  BY <1>1, ExportKeeps
<1>2. CASE TarDeploy
  <2>1. archive' \in Seq(Entries) /\ UNCHANGED todo
    BY <1>2, ArchiveTypes DEF TarDeploy, IInv, DeployTypes, exportVars
  <2> QED
    BY <1>2, <2>1, IdleKeeps DEF TarDeploy, Reset, IInv, DeployTypes
<1>3. CASE Again
  <2>1. /\ archive' = <<>> /\ todo' = Children[Top] /\ UNCHANGED stores
        /\ taken' = 0 /\ listed' = <<>> /\ submitter' = "next" /\ failed' \in BOOLEAN
        /\ worker' = [w \in Workers |-> "range"] /\ DOMAIN item' = Workers /\ pc' = "idle"
    BY <1>3 DEF Again, Reset
  <2> QED
    BY <2>1, IdleKeeps, ArchiveTypes
<1>4. CASE Deploy /\ UNCHANGED <<exportVars, downloadVars>>
  BY <1>4, SubmitKeeps, WorkKeeps, FinishKeeps DEF Deploy, exportVars
<1>5. CASE StartDownload \/ Download \/ DownloadFails \/ UNCHANGED vars
  <2>1. UNCHANGED <<archive, deployVars, stores, todo>>
    BY <1>5 DEF StartDownload, Download, DownloadFile, DownloadEnds, DownloadFails, vars,
                exportVars
  <2> QED
    BY <2>1 DEF IInv, DeployTypes, IdleInv, ItemInv, NothingLost, SubmitterInv, StoredInv,
                PublishInv, ManifestComplete, Has, deployVars, stores
<1> QED
  BY <1>1, <1>2, <1>3, <1>4, <1>5 DEF Next

-----------------------------------------------------------------------------
(* There and back                                                          *)

\* The deployable files of an archive are the site's, and a closed one has all of them.
Genuine(a) ==
    /\ a \in Seq(Entries)
    /\ \A e \in FilesOf(a) : Deployable(e) => e.name \in DOMAIN Content /\ e.content = Content[e.name]
    /\ Closed(a) /\ (\A e \in FilesOf(a) : Deployable(e)) =>
          DOMAIN Content \subseteq {e.name : e \in FilesOf(a)}

\* What is not yet exported is below what the export has yet to visit.
ExportInv ==
    exporter = "walk" /\ pc = "idle" =>
        /\ ~Closed(archive)
        /\ \A f \in DOMAIN Content : \/ \E e \in FilesOf(archive) : e.name = f
                                     \/ \E t \in ToSet(todo) : LeadsTo(t, f)

\* So far, each file of the manifest is where it is to be.
DownloadInv ==
    /\ local \in [DOMAIN Content -> Range(Content) \cup {Missing, Partial}]
    /\ download \in {"files", "downloaded"} =>
          /\ wanted \in manifests /\ written \in 0..Len(wanted.files)
          /\ \A i \in 1..written :
                local[LocalName(wanted.files[i].path)] = wanted.files[i].content
    /\ download = "downloaded" => written = Len(wanted.files)

\* The inductive invariant for RoundTrip, on top of IInv.
RoundInv ==
    /\ Genuine(archive)
    /\ \A m \in manifests : Genuine(m.archive) /\ m.files \in Seq(ToSet(m.files))
    /\ ExportInv
    /\ DownloadInv

\* What follows the first element.
LEMMA AfterFirst ==
    ASSUME NEW S, NEW e \in S, NEW s \in Seq(S)
    PROVE  LET w == <<e>> \o s IN
           /\ w \in Seq(S) /\ Len(w) = Len(s) + 1 /\ DOMAIN w = 1..(Len(s) + 1)
           /\ w[1] = e /\ \A i \in 1..Len(s) : w[i + 1] = s[i]
           /\ s # <<>> => SubSeq(w, 2, Len(w)) = s
<1> DEFINE w == <<e>> \o s
           N == Len(s)
           r == SubSeq(w, 2, N + 1)
<1>1. /\ w \in Seq(S) /\ N \in Nat /\ Len(w) = N + 1 /\ DOMAIN w = 1..(N + 1)
      /\ w[1] = e /\ \A i \in 1..N : w[i + 1] = s[i]
  OBVIOUS
<1>2. ASSUME s # <<>> PROVE r = s
  <2>1. N \in Nat \ {0}
    BY <1>1, <1>2, EmptySeq
  <2> HIDE DEF w, N
  <2>2. 2 \in Int /\ N + 1 \in Int /\ 2 <= N + 1 /\ ((N + 1) - 2) + 1 = N
    BY <2>1
  <2>3. \A i \in 2..(N + 1) : w[i] \in S
    BY <1>1, <2>1
  <2>4. /\ r \in Seq(S)
        /\ Len(r) = IF 2 <= N + 1 THEN ((N + 1) - 2) + 1 ELSE 0
        /\ \A i \in 1..(((N + 1) - 2) + 1) : r[i] = w[(2 + i) - 1]
    BY <2>2, <2>3, SubSeqProperties
  <2> HIDE DEF r
  <2>5. Len(r) = N
    BY <2>2, <2>4
  <2>6. ASSUME NEW i \in 1..N PROVE r[i] = s[i]
    <3>1. (2 + i) - 1 = i + 1
      OBVIOUS
    <3>2. r[i] = w[i + 1]
      BY <2>2, <2>4, <3>1
    <3> QED
      BY <1>1, <3>2
  <2>7. Len(r) = Len(s) /\ \A i \in 1..Len(r) : r[i] = s[i]
    BY <2>5, <2>6 DEF N
  <2> QED
    BY <2>4, <2>7, SeqEqual
<1> QED
  BY <1>1, <1>2 DEF r, w, N

\* "/" + name is downloaded to the name.
LEMMA DownloadsToName ==
    ASSUME NEW name \in Seq(STRING), Relative(name)
    PROVE  LocalName(PathOf(name)) = name
<1> DEFINE path == PathOf(name)
           root == ""
           named == {i \in DOMAIN path : path[i] # root}
           N == Len(name)
           Segment == STRING \cup {root}
<1>1. path = <<root>> \o name
  BY Zenon DEF PathOf
<1>1a. Head(name) # root
  BY Zenon DEF Relative
<1> HIDE DEF root, path
<1>2. /\ N \in Nat /\ Len(path) = N + 1 /\ DOMAIN path = 1..(N + 1)
      /\ path[1] = root /\ \A i \in 1..N : path[i + 1] = name[i]
      /\ name # <<>> => SubSeq(path, 2, Len(path)) = name
  <2>1. root \in Segment /\ name \in Seq(Segment)
    OBVIOUS
  <2> HIDE DEF Segment
  <2> QED
    BY <1>1, <2>1, AfterFirst
<1>3. LocalName(path) = IF named = {} THEN <<>> ELSE SubSeq(path, Min(named), Len(path))
  BY Zenon DEF LocalName, root
<1>4. CASE name = <<>>
  <2>1. N = 0
    BY <1>4
  <2>2. named = {}
    BY <1>2, <2>1
  <2> QED
    BY <1>3, <1>4, <2>2 DEF path
<1>5. CASE name # <<>>
  <2>1. N # 0 /\ name[1] # root
    BY <1>1a, <1>5, EmptySeq, HeadTailProperties
  <2> HIDE DEF N
  <2>2. 1 \in 1..N /\ 1 + 1 = 2 /\ 2 \in 1..(N + 1)
    BY <1>2, <2>1
  <2>3. path[2] # root
    BY <1>2, <2>1, <2>2
  <2>4. 2 \in named /\ \A i \in named : i \in Nat /\ 2 <= i
    BY <1>2, <2>2, <2>3
  <2> HIDE DEF named
  <2>5. Min(named) = 2
    BY <2>4 DEF Min
  <2> QED
    BY <1>2, <1>3, <1>5, <2>4, <2>5 DEF path
<1> QED
  BY <1>4, <1>5

\* What an entry adds to an archive.
LEMMA EntryAdds ==
    ASSUME NEW a \in Seq(Entries), NEW e \in Entries
    PROVE  LET b == a \o <<e>> IN
           /\ b \in Seq(Entries)
           /\ Closed(b) <=> e.kind = "end"
           /\ FilesOf(b) = FilesOf(a) \cup (IF IsFile(e) THEN {e} ELSE {})
<1> DEFINE b == a \o <<e>>
           N == Len(a)
<1>1. /\ N \in Nat /\ DOMAIN a = 1..N /\ b \in Seq(Entries) /\ Len(b) = N + 1
      /\ DOMAIN b = 1..(N + 1)
      /\ b[N + 1] = e /\ \A i \in 1..N : b[i] = a[i]
  OBVIOUS
<1> HIDE DEF b, N
<1>2. Closed(b) <=> e.kind = "end"
  BY <1>1, EmptySeq DEF Closed, Last
<1>3. ASSUME NEW x PROVE x \in FilesOf(b) <=> x \in FilesOf(a) \/ (IsFile(e) /\ x = e)
  BY <1>1 DEF FilesOf
<1> QED
  BY <1>1, <1>2, <1>3 DEF b

\* The names that are left when the first one is visited.
LEMMA Visit ==
    ASSUME NEW S, NEW names \in Seq(S), names # <<>>, NEW more \in Seq(S)
    PROVE  /\ ToSet(names) \subseteq {Head(names)} \cup ToSet(Tail(names))
           /\ ToSet(more) \subseteq ToSet(more \o Tail(names))
           /\ ToSet(Tail(names)) \subseteq ToSet(more \o Tail(names))
<1> DEFINE t == Tail(names)
           N == Len(names)
           M == Len(more)
           w == more \o t
<1>1. /\ N \in Nat \ {0} /\ t \in Seq(S) /\ Len(t) = N - 1 /\ Head(names) = names[1]
      /\ \A i \in 1..(N - 1) : t[i] = names[i + 1]
      /\ DOMAIN names = 1..N /\ DOMAIN t = 1..(N - 1) /\ DOMAIN more = 1..M /\ M \in Nat
  BY EmptySeq, HeadTailProperties
<1>2. /\ w \in Seq(S) /\ Len(w) = M + Len(t) /\ DOMAIN w = 1..(M + Len(t))
      /\ \A i \in 1..(M + Len(t)) : w[i] = IF i <= M THEN more[i] ELSE t[i - M]
  BY <1>1, ConcatProperties
<1> HIDE DEF t, N, M, w
<1>3. ASSUME NEW i \in 1..N PROVE names[i] \in {Head(names)} \cup ToSet(t)
  <2>1. CASE i = 1
    BY <1>1, <2>1
  <2>2. CASE i # 1
    <3>1. i - 1 \in 1..(N - 1) /\ (i - 1) + 1 = i
      BY <1>1, <2>2
    <3> QED
      BY <1>1, <3>1 DEF ToSet
  <2> QED
    BY <2>1, <2>2
<1>4. ASSUME NEW i \in 1..M PROVE more[i] \in ToSet(w)
  <2>1. i \in 1..(M + Len(t)) /\ i <= M
    BY <1>1
  <2>2. w[i] = more[i]
    BY <1>2, <2>1
  <2> QED
    BY <1>2, <2>1, <2>2 DEF ToSet
<1>5. ASSUME NEW i \in 1..(N - 1) PROVE t[i] \in ToSet(w)
  <2>1. M + i \in 1..(M + Len(t)) /\ ~(M + i <= M) /\ (M + i) - M = i
    BY <1>1
  <2>2. w[M + i] = t[i]
    BY <1>2, <2>1
  <2> QED
    BY <1>2, <2>1, <2>2 DEF ToSet
<1> QED
  BY <1>1, <1>3, <1>4, <1>5, SMTT(30) DEF ToSet, t, w


\* Of what the export writes, only Close() ends the archive; what is a file is the
\* site's, or cut.
LEMMA EntryKeepsGenuine ==
    ASSUME Genuine(archive), ~Closed(archive), NEW e \in Entries, archive' = archive \o <<e>>,
           e.kind # "end",
           e.kind = "file" => e.name \in DOMAIN Content /\ e.content = Content[e.name]
    PROVE  Genuine(archive)' /\ ~Closed(archive)'
<1>1. /\ archive' \in Seq(Entries) /\ ~Closed(archive')
      /\ FilesOf(archive') = FilesOf(archive) \cup (IF IsFile(e) THEN {e} ELSE {})
  BY EntryAdds DEF Genuine
<1>2. Deployable(e) => e.name \in DOMAIN Content /\ e.content = Content[e.name]
  BY DEF Deployable
<1> QED
  BY <1>1, <1>2 DEF Genuine

\* An export leaves nothing out, unless it fails; then it does not close the archive.
LEMMA ExportKeepsRound ==
    ASSUME IInv, RoundInv, Export \/ ExportFails
    PROVE  Genuine(archive)' /\ ExportInv'
<1> USE DEF Exported
<1>1. /\ exporter = "walk" /\ pc = "idle" /\ pc' = "idle"
      /\ Genuine(archive) /\ ~Closed(archive) /\ archive \in Seq(Entries) /\ todo \in Seq(Names)
      /\ \A f \in DOMAIN Content : \/ \E e \in FilesOf(archive) : e.name = f
                                   \/ \E t \in ToSet(todo) : LeadsTo(t, f)
  BY DEF Export, ExportFails, WriteDirectory, WriteFile, CloseArchive, Exporting, RoundInv,
     ExportInv, IInv, DeployTypes, deployVars
<1>2. ASSUME todo # <<>>
      PROVE  /\ Head(todo) \in Names /\ Tail(todo) \in Seq(Names) /\ Head(todo) \in Seq(STRING)
             /\ Entry("dir", Head(todo), NoFile) \in Entries
             /\ Entry("cut", Head(todo), NoFile) \in Entries
             /\ ToSet(todo) \subseteq {Head(todo)} \cup ToSet(Tail(todo))
  <2>1. Head(todo) \in Names /\ Tail(todo) \in Seq(Names)
    BY <1>1, <1>2
  <2>2. Head(todo) \in Seq(STRING)
    BY <2>1, SiteAssumption
  <2>3. ToSet(todo) \subseteq {Head(todo)} \cup ToSet(Tail(todo))
    BY <1>1, <1>2, Visit
  <2> QED
    BY <2>1, <2>2, <2>3 DEF Entry, Entries, Kinds, Contents
<1>3. CASE WriteDirectory
  <2> DEFINE d == Head(todo)
             e == Entry("dir", d, NoFile)
  <2>1. /\ todo # <<>> /\ d \in DOMAIN Children /\ archive' = archive \o <<e>>
        /\ todo' = Children[d] \o Tail(todo) /\ exporter' = exporter
    BY <1>3 DEF WriteDirectory
  <2>2. e \in Entries /\ e.kind = "dir" /\ ~IsFile(e)
    BY <1>2, <2>1 DEF Entry, IsFile
  <2>3. Genuine(archive)' /\ ~Closed(archive)'
    BY <1>1, <2>1, <2>2, EntryKeepsGenuine
  <2>4. FilesOf(archive') = FilesOf(archive)
    BY <1>1, <2>1, <2>2, EntryAdds
  <2>5. Children[d] \in Seq(Names) /\ d \notin DOMAIN Content
    BY <2>1, SiteAssumption
  <2>6. /\ ToSet(Children[d]) \subseteq ToSet(todo')
        /\ ToSet(Tail(todo)) \subseteq ToSet(todo')
    BY <1>1, <2>1, <2>5, Visit
  <2>7. ASSUME NEW f \in DOMAIN Content, NEW t \in ToSet(todo), LeadsTo(t, f)
        PROVE  \E u \in ToSet(todo') : LeadsTo(u, f)
    <3>1. CASE t = d
      <4>1. PICK c \in ToSet(Children[d]) : LeadsTo(c, f)
        BY <2>1, <2>7, <3>1, SiteAssumption
      <4> QED
        BY <2>6, <4>1
    <3>2. CASE t # d
      BY <1>2, <2>1, <2>6, <2>7, <3>2
    <3> QED
      BY <3>1, <3>2
  <2>8. ExportInv'
    BY <1>1, <2>3, <2>4, <2>7 DEF ExportInv, LeadsTo
  <2> QED
    BY <2>3, <2>8
<1>4. CASE WriteFile
  <2> DEFINE n == Head(todo)
             e == Entry("file", n, Content[n])
  <2>1. /\ todo # <<>> /\ n \in DOMAIN Content /\ archive' = archive \o <<e>>
        /\ todo' = Tail(todo) /\ exporter' = exporter
    BY <1>4 DEF WriteFile
  <2>2. e.kind = "file" /\ e.name = n /\ e.content = Content[n] /\ IsFile(e)
    BY DEF Entry, IsFile
  <2>3. e \in Entries
    <3>1. Content[n] \in Contents /\ n \in Seq(STRING)
      BY <1>2, <2>1 DEF Contents
    <3> QED
      BY <3>1 DEF Entry, Entries, Kinds
  <2>4. Genuine(archive)' /\ ~Closed(archive)'
    BY <1>1, <2>1, <2>2, <2>3, EntryKeepsGenuine
  <2>5. FilesOf(archive') = FilesOf(archive) \cup {e}
    BY <1>1, <2>1, <2>2, <2>3, EntryAdds
  <2>6. n \notin DOMAIN Children
    BY <2>1, SiteAssumption
  <2>7. ASSUME NEW f \in DOMAIN Content, NEW t \in ToSet(todo), LeadsTo(t, f)
        PROVE  t \in ToSet(todo') \/ e.name = f
    BY <1>2, <2>1, <2>2, <2>6, <2>7 DEF LeadsTo
  <2> HIDE DEF e, n
  <2>8. ExportInv'
    BY <1>1, <2>4, <2>5, <2>7 DEF ExportInv, LeadsTo
  <2> QED
    BY <2>4, <2>8
<1>5. CASE CloseArchive
  <2> DEFINE e == Entry("end", Top, NoFile)
  <2>1. todo = <<>> /\ archive' = archive \o <<e>> /\ exporter' = "closed"
    BY <1>5 DEF CloseArchive
  <2>2. e \in Entries /\ ~IsFile(e)
    BY DEF Entry, Entries, Kinds, Contents, Top, IsFile
  <2>3. archive' \in Seq(Entries) /\ FilesOf(archive') = FilesOf(archive)
    BY <1>1, <2>1, <2>2, EntryAdds
  <2>4. ToSet(todo) = {}
    BY <2>1 DEF ToSet
  <2>5. DOMAIN Content \subseteq {x.name : x \in FilesOf(archive)}
    BY <1>1, <2>4
  <2>6. Genuine(archive)'
    BY <1>1, <2>3, <2>5 DEF Genuine
  <2> QED
    BY <2>1, <2>6 DEF ExportInv
<1>6. CASE ExportFails
  <2>1. exporter' = "failed"
    BY <1>6 DEF ExportFails
  <2>2. CASE Exported(<<>>)
    <3>1. archive' = archive
      BY <1>1, <2>2, ConcatEmptySeq
    <3> QED
      BY <1>1, <2>1, <3>1 DEF ExportInv, Genuine
  <2>3. CASE todo # <<>> /\ \E kind \in {"dir", "cut"} :
                               Exported(<<Entry(kind, Head(todo), NoFile)>>)
    <3>1. PICK kind \in {"dir", "cut"} :
             archive' = archive \o <<Entry(kind, Head(todo), NoFile)>>
      BY <2>3
    <3> DEFINE e == Entry(kind, Head(todo), NoFile)
    <3>2. e \in Entries /\ e.kind \notin {"file", "end"}
      BY <1>2, <2>3, <3>1 DEF Entry
    <3>3. Genuine(archive)'
      BY <1>1, <3>1, <3>2, EntryKeepsGenuine
    <3> QED
      BY <2>1, <3>3 DEF ExportInv
  <2> QED
    BY <1>6, <2>2, <2>3 DEF ExportFails
<1> QED
  BY <1>3, <1>4, <1>5, <1>6 DEF Export

\* Another tar's archives are genuine, too, and so is an empty one.
LEMMA GenuineArchives ==
    (\A a \in Foreign : Genuine(a)) /\ Genuine(<<>>) /\ ~Closed(<<>>)
<1>1. \A a \in Foreign : Genuine(a)
  BY ArchiveTypes, SiteAssumption DEF Genuine
<1>2. ~Closed(<<>>) /\ FilesOf(<<>>) = {}
  BY DEF Closed, FilesOf
<1> QED
  BY <1>1, <1>2, ArchiveTypes DEF Genuine


\* The files of a manifest, in whatever order, are a sequence.
LEMMA SortedIsSequence ==
    ASSUME NEW S, NEW entries \in Seq(S), NEW m \in SortedByPath(entries)
    PROVE  m \in Seq(ToSet(m))
<1>1. /\ Len(entries) \in Nat /\ DOMAIN entries = 1..Len(entries)
      /\ \E p : m = [i \in DOMAIN entries |-> entries[p[i]]]
  BY DEF SortedByPath
<1>2. DOMAIN m = 1..Len(entries) /\ m = [i \in 1..Len(entries) |-> m[i]]
  BY <1>1
<1>3. \A i \in 1..Len(entries) : m[i] \in ToSet(m)
  BY <1>2 DEF ToSet
<1> QED
  BY <1>1, <1>2, <1>3

\* A deploy adds at most the manifest of what it has read.
LEMMA DeployKeepsRound ==
    ASSUME IInv, RoundInv, Deploy, UNCHANGED <<exportVars, downloadVars>>
    PROVE  RoundInv'
<1>1. archive' = archive /\ pc' # "idle"
  BY DEF Deploy, Submit, ReadFile, NoMoreFiles, RefuseFile, SeeCancel, ReadFails, SubmitterFails,
     Submitting, Work, Receive, WorkClosed, InsertFile, InsertFails, AppendToManifest, Finish,
     Join, Publish, PublishFails, IInv, IdleInv
<1>2. \/ manifests' = manifests
      \/ \E m \in SortedByPath(listed) :
            manifests' = manifests \cup {[archive |-> archive, files |-> m]}
  BY DEF Deploy, Submit, ReadFile, NoMoreFiles, RefuseFile, SeeCancel, ReadFails, SubmitterFails,
     Submitting, Work, Receive, WorkClosed, InsertFile, InsertFails, AppendToManifest, Finish,
     Join, Publish, PublishFails, stores
<1>3. \A m \in manifests' : Genuine(m.archive) /\ m.files \in Seq(ToSet(m.files))
  <2>1. listed \in Seq({Listed(e) : e \in FilesOf(archive)})
    BY DEF IInv, DeployTypes
  <2>2. \A m \in SortedByPath(listed) : m \in Seq(ToSet(m))
    BY <2>1, SortedIsSequence
  <2> QED
    BY <1>2, <2>2 DEF RoundInv
<1>4. Genuine(archive)' /\ ExportInv'
  BY <1>1 DEF RoundInv, Genuine, ExportInv
<1>5. DownloadInv'
  <2>1. manifests \subseteq manifests'
    BY <1>2
  <2> QED
    BY <2>1 DEF RoundInv, DownloadInv, downloadVars
<1>6. (\A m \in manifests : Genuine(m.archive) /\ m.files \in Seq(ToSet(m.files)))'
  BY <1>3 DEF Genuine
<1> QED
  BY <1>4, <1>5, <1>6 DEF RoundInv

\* What a manifest lists: files of the site, each under its own name.
LEMMA ManifestEntry ==
    ASSUME ManifestComplete, NEW m \in manifests, Genuine(m.archive),
           m.files \in Seq(ToSet(m.files)), NEW i \in 1..Len(m.files)
    PROVE  /\ LocalName(m.files[i].path) \in DOMAIN Content
           /\ m.files[i].content = Content[LocalName(m.files[i].path)]
<1>1. m.files[i] \in ToSet(m.files)
  BY DEF ToSet
<1>2. PICK e \in FilesOf(m.archive) : m.files[i] = Listed(e) /\ Deployable(e)
  BY <1>1 DEF ManifestComplete
<1>3. e.name \in DOMAIN Content /\ e.content = Content[e.name] /\ Relative(e.name)
  BY <1>2 DEF Genuine, Deployable
<1>4. e.name \in Seq(STRING)
  BY <1>3, SiteAssumption DEF Names
<1>5. LocalName(PathOf(e.name)) = e.name
  BY <1>3, <1>4, DownloadsToName
<1> QED
  BY <1>2, <1>3, <1>5 DEF Listed

\* A download writes no file over another one's content.
LEMMA DownloadKeepsRound ==
    ASSUME IInv, RoundInv, StartDownload \/ Download \/ DownloadFails
    PROVE  DownloadInv'
<1>1. /\ ManifestComplete /\ DownloadInv
      /\ \A m \in manifests : Genuine(m.archive) /\ m.files \in Seq(ToSet(m.files))
      /\ local \in [DOMAIN Content -> Range(Content) \cup {Missing, Partial}]
      /\ manifests' = manifests
  BY DEF IInv, RoundInv, DownloadInv, StartDownload, Download, DownloadFile, DownloadEnds,
     DownloadFails, stores
<1>2. CASE StartDownload
  <2>1. /\ wanted' \in manifests /\ written' = 0 /\ download' = "files"
        /\ local' \in {Empty, local}
    BY <1>2 DEF StartDownload
  <2>2. local' \in [DOMAIN Content -> Range(Content) \cup {Missing, Partial}]
    BY <1>1, <2>1 DEF Empty
  <2>3. wanted'.files \in Seq(ToSet(wanted'.files))
    BY <1>1, <2>1
  <2>4. Len(wanted'.files) \in Nat
    BY <2>3
  <2> QED
    BY <1>1, <2>1, <2>2, <2>4 DEF DownloadInv
<1>3. CASE DownloadFile
  <2> DEFINE n == written + 1
             name == LocalName(wanted.files[n].path)
  <2>1. /\ download = "files" /\ download' = download /\ wanted' = wanted /\ written' = n
        /\ wanted \in manifests /\ written \in 0..Len(wanted.files) /\ written < Len(wanted.files)
        /\ local' = [x \in DOMAIN local |-> IF x = name THEN wanted.files[n].content ELSE local[x]]
    BY <1>1, <1>3 DEF DownloadFile, Downloads, DownloadInv
  <2>2. Len(wanted.files) \in Nat
    BY <1>1, <2>1
  <2>3. n \in 1..Len(wanted.files) /\ \A i \in 1..n : i \in 1..written \/ i = n
    BY <2>1, <2>2
  <2>4. ASSUME NEW i \in 1..Len(wanted.files)
        PROVE  /\ LocalName(wanted.files[i].path) \in DOMAIN Content
               /\ wanted.files[i].content = Content[LocalName(wanted.files[i].path)]
    BY <1>1, <2>1, ManifestEntry
  <2> HIDE DEF n
  <2>5. wanted.files[n].content \in Range(Content)
    BY <2>3, <2>4 DEF Range
  <2>6. local' \in [DOMAIN Content -> Range(Content) \cup {Missing, Partial}]
    BY <1>1, <2>1, <2>5
  <2>7. ASSUME NEW i \in 1..n
        PROVE  local'[LocalName(wanted.files[i].path)] = wanted.files[i].content
    <3>1. i \in 1..Len(wanted.files)
      BY <2>1, <2>2, <2>3
    <3>2. LocalName(wanted.files[i].path) \in DOMAIN local
      BY <1>1, <2>4, <3>1
    <3>3. CASE LocalName(wanted.files[i].path) = name
      BY <2>1, <2>3, <2>4, <3>1, <3>2, <3>3
    <3>4. CASE LocalName(wanted.files[i].path) # name
      <4>1. i \in 1..written
        BY <2>3, <3>4
      <4>2. local[LocalName(wanted.files[i].path)] = wanted.files[i].content
        BY <1>1, <2>1, <4>1 DEF DownloadInv
      <4> QED
        BY <2>1, <3>2, <3>4, <4>2
    <3> QED
      BY <3>3, <3>4
  <2>8. n \in 0..Len(wanted.files)
    BY <2>2, <2>3
  <2> QED
    BY <1>1, <2>1, <2>6, <2>7, <2>8 DEF DownloadInv
<1>4. CASE DownloadFails
  <2>1. download' = "failed"
    BY <1>4 DEF DownloadFails
  <2>2. local' \in [DOMAIN Content -> Range(Content) \cup {Missing, Partial}]
    BY <1>1, <1>4 DEF DownloadFails, Downloads
  <2> QED
    BY <2>1, <2>2 DEF DownloadInv
<1>5. CASE DownloadEnds
  BY <1>1, <1>5 DEF DownloadEnds, DownloadInv
<1> QED
  BY <1>2, <1>3, <1>4, <1>5 DEF Download

\* Every file is below the top.
LEMMA TopLeads ==
    \A f \in DOMAIN Content : \E t \in ToSet(Children[Top]) : LeadsTo(t, f)
<1>1. ASSUME NEW f \in DOMAIN Content PROVE LeadsTo(Top, f)
  <2>1. f \in Seq(STRING)
    BY SiteAssumption DEF Names
  <2>2. IsPrefix(<<>>, f)
    BY <2>1 DEF IsPrefix
  <2> QED
    BY <2>2, SiteAssumption DEF LeadsTo, Top
<1> QED
  BY <1>1, SiteAssumption

\* Every step keeps the invariant of the round trip.
LEMMA NextRoundInv ==
    ASSUME IInv, RoundInv, [Next]_vars
    PROVE  RoundInv'
<1>1. CASE Export \/ ExportFails
  <2>1. Genuine(archive)' /\ ExportInv'
    BY <1>1, ExportKeepsRound
  <2>2. UNCHANGED <<stores, downloadVars>>
    BY <1>1 DEF Export, ExportFails, WriteDirectory, WriteFile, CloseArchive, Exported
  <2> QED
    BY <2>1, <2>2 DEF RoundInv, DownloadInv, Genuine, stores, downloadVars
<1>2. CASE TarDeploy
  <2>1. /\ pc' = "wait" /\ archive' \in {archive} \cup Foreign
        /\ UNCHANGED <<stores, exportVars, downloadVars>>
    BY <1>2 DEF TarDeploy, Reset
  <2>2. Genuine(archive')
    BY <2>1, GenuineArchives DEF RoundInv
  <2> QED
    BY <2>1, <2>2 DEF RoundInv, ExportInv, DownloadInv, Genuine, stores, downloadVars
<1>3. CASE Again
  <2>1. /\ archive' = <<>> /\ todo' = Children[Top] /\ exporter' = "walk"
        /\ download' = "none" /\ local' = Empty /\ UNCHANGED stores
    BY <1>3 DEF Again
  <2>2. Genuine(archive') /\ ~Closed(archive')
    BY <2>1, GenuineArchives
  <2>3. \A f \in DOMAIN Content : \E t \in ToSet(todo') : LeadsTo(t, f)
    BY <2>1, TopLeads
  <2>4. DownloadInv'
    BY <2>1 DEF DownloadInv, Empty
  <2> QED
    BY <2>1, <2>2, <2>3, <2>4 DEF RoundInv, ExportInv, Genuine, LeadsTo, stores
<1>4. CASE Deploy /\ UNCHANGED <<exportVars, downloadVars>>
  BY <1>4, DeployKeepsRound
<1>5. CASE StartDownload \/ Download \/ DownloadFails
  <2>1. UNCHANGED <<archive, deployVars, stores, exportVars>>
    BY <1>5 DEF StartDownload, Download, DownloadFile, DownloadEnds, DownloadFails
  <2> QED
    BY <1>5, <2>1, DownloadKeepsRound
       DEF RoundInv, ExportInv, Genuine, LeadsTo, deployVars, exportVars, stores
<1>6. CASE UNCHANGED vars
  BY <1>6 DEF RoundInv, ExportInv, DownloadInv, Genuine, LeadsTo, vars, deployVars, exportVars,
     stores, downloadVars
<1> QED
  BY <1>1, <1>2, <1>3, <1>4, <1>5, <1>6 DEF Next

\* Nothing is read, listed or stored at first.
LEMMA InitIInv == Init => IInv
<1> SUFFICES ASSUME Init PROVE IInv
  OBVIOUS
<1> USE DEF Init, DeployInit
<1>1. DeployTypes
  <2>1. /\ archive \in Seq(Entries) /\ Len(archive) = 0 /\ todo \in Seq(Names)
        /\ listed \in Seq({Listed(e) : e \in FilesOf(archive)})
    BY ArchiveTypes
  <2>2. taken \in 0..Len(archive)
    BY <2>1
  <2>3. failed \in BOOLEAN
    OBVIOUS
  <2>4. worker \in [Workers -> {"range", "insert", "append", "exited"}]
    OBVIOUS
  <2>5. DOMAIN item = Workers
    OBVIOUS
  <2> QED
    BY <2>1, <2>2, <2>3, <2>4, <2>5 DEF DeployTypes
<1>2. IdleInv /\ ItemInv /\ NothingLost /\ SubmitterInv /\ PublishInv
  BY DEF IdleInv, ItemInv, NothingLost, SubmitterInv, PublishInv, Has
<1>3. StoredInv /\ ManifestComplete
  BY DEF StoredInv, ManifestComplete, ToSet
<1> QED
  BY <1>1, <1>2, <1>3 DEF IInv

\* A manifest in the store lists the files of its archive, all of them deployable
\* and stored, whatever failed, and however many workers there are.
THEOREM ManifestsComplete == Spec => []ManifestComplete
<1>1. Init => IInv
  BY InitIInv
<1>2. IInv => ManifestComplete
  BY DEF IInv
<1> QED
  BY <1>1, <1>2, NextIInv, PTL DEF Spec

\* A download that succeeds has the files of the manifest's archive and, if that was
\* closed, the whole site, whatever the site is, whatever failed on the way, and
\* whatever an earlier attempt has left (appintegration.go:62-133, cli.go:66-167).
THEOREM RoundTrips == Spec => []RoundTrip
<1>1. Init => IInv
  BY InitIInv
<1>2. Init => RoundInv
  <2> SUFFICES ASSUME Init PROVE RoundInv
    OBVIOUS
  <2>1. /\ archive = <<>> /\ todo = Children[Top] /\ manifests = {}
        /\ download = "none" /\ local = Empty
    BY DEF Init, DeployInit
  <2>2. ExportInv
    BY <2>1, TopLeads, GenuineArchives DEF ExportInv
  <2>3. DownloadInv
    BY <2>1 DEF DownloadInv, Empty
  <2> QED
    BY <2>1, <2>2, <2>3, GenuineArchives DEF RoundInv
<1>3. RoundInv /\ IInv /\ [Next]_vars => RoundInv'
  BY NextRoundInv
<1>4. RoundInv /\ IInv => RoundTrip
  <2> SUFFICES ASSUME RoundInv, IInv, download = "downloaded"
               PROVE  /\ \A e \in FilesOf(wanted.archive) : local[e.name] = e.content
                      /\ Closed(wanted.archive) => local = Content
    BY DEF RoundTrip
  <2> DEFINE fs == FilesOf(wanted.archive)
  <2>1. /\ wanted \in manifests /\ written = Len(wanted.files) /\ Genuine(wanted.archive)
        /\ wanted.files \in Seq(ToSet(wanted.files))
        /\ \A i \in 1..written :
              local[LocalName(wanted.files[i].path)] = wanted.files[i].content
        /\ local \in [DOMAIN Content -> Range(Content) \cup {Missing, Partial}]
    BY DEF RoundInv, DownloadInv
  <2>2. /\ ToSet(wanted.files) = {Listed(e) : e \in fs}
        /\ \A e \in fs : Deployable(e)
    BY <2>1 DEF IInv, ManifestComplete
  <2>3. ASSUME NEW e \in fs
        PROVE  local[e.name] = e.content /\ e.name \in DOMAIN Content /\ e.content = Content[e.name]
    <3>1. e.name \in DOMAIN Content /\ e.content = Content[e.name] /\ Relative(e.name)
      BY <2>1, <2>2 DEF Genuine, Deployable
    <3>2. e.name \in Seq(STRING)
      BY <3>1, SiteAssumption DEF Names
    <3>3. LocalName(PathOf(e.name)) = e.name
      BY <3>1, <3>2, DownloadsToName
    <3>4. Listed(e) \in ToSet(wanted.files)
      BY <2>2
    <3>5. PICK i \in DOMAIN wanted.files : wanted.files[i] = Listed(e)
      BY <3>4 DEF ToSet
    <3>6. i \in 1..written
      BY <2>1
    <3> QED
      BY <2>1, <3>1, <3>3, <3>5, <3>6 DEF Listed
  <2>4. ASSUME Closed(wanted.archive) PROVE local = Content
    <3>1. DOMAIN Content \subseteq {e.name : e \in fs}
      BY <2>1, <2>2, <2>4 DEF Genuine
    <3>2. \A n \in DOMAIN Content : local[n] = Content[n]
      BY <2>3, <3>1
    <3> QED
      BY <2>1, <3>2, SiteAssumption
  <2> QED
    BY <2>3, <2>4
<1> QED
  BY <1>1, <1>2, <1>3, <1>4, NextIInv, PTL DEF Spec
=============================================================================
