-------------------------- MODULE S3DeployProofs --------------------------
(***************************************************************************)
(* Theorems about S3Deploy for any archive and any number of workers.      *)
(***************************************************************************)
EXTENDS S3Deploy, FiniteSetTheorems, TLAPS

\* Something went wrong that uploadAllFiles will return, or has returned.
Failed == \/ result = "error"
          \/ workError > 0
          \/ \E w \in Workers : worker[w] = "report"

Waiting(i) == \E n \in 1..Len(workItems) : workItems[n] = i

\* Unless something went wrong, a file that is not in the bucket is still to be
\* read, about to be sent, in the channel, or with a worker.
NothingLost ==
    Failed \/ \A i \in Items :
        \/ i \in bucket
        \/ i \in unread
        \/ i = offer
        \/ Waiting(i)
        \/ \E w \in Workers : worker[w] = "upload" /\ object[w] = i
        \/ i = DeploymentSpec /\ pc \in {"read", "send"}

\* What the main goroutine has left behind at each of its places.
MainInv ==
    /\ isClosed <=> pc \in {"wait", "update", "returned"}
    /\ pc \in {"send", "spec"} <=> offer # NoItem /\ result # "error"
    /\ result # "error" /\ pc \notin {"read", "send"} => unread = {}
    /\ pc \in {"read", "send", "spec", "update"} => result # "error"

\* A worker that uploads has something to upload.
ObjectInv == \A w \in Workers : worker[w] = "upload" => object[w] \in Items

\* A worker only leaves without an error when there is nothing left to receive.
ExitInv ==
    (\E w \in Workers : worker[w] = "exited") =>
        \/ Failed
        \/ workItems = <<>> /\ isClosed

\* All is in the bucket before Deploy points the application to it.
UpdateInv == pc = "update" \/ pointer = "new" => Items \subseteq bucket

\* The inductive invariant for AtomicDeploy.
IInv == TypeOK /\ NothingLost /\ MainInv /\ ObjectInv /\ ExitInv /\ UpdateInv

\* Every error in the channel is that of a worker that has exited.
Exited == {w \in Workers : worker[w] = "exited"}
CountInv == workError <= Cardinality(Exited)

-----------------------------------------------------------------------------
\* The channels have room for at least one element.
LEMMA CapacityType == Capacity \in Nat /\ Capacity > 0
  BY FS_CardinalityType, FS_EmptySet, ItemAssumption DEF Capacity

\* At first the archive is unread and the workers wait for it.
LEMMA InitIInv == Init => IInv
<1> SUFFICES ASSUME Init PROVE IInv
  OBVIOUS
<1>1. /\ workItems \in Seq(Items)
      /\ Len(workItems) <= Capacity
      /\ workError \in 0..Capacity
  BY CapacityType DEF Init
<1>2. TypeOK
  BY <1>1 DEF Init, TypeOK, Items, Places, WorkerPlaces
<1>3. NothingLost /\ MainInv /\ ObjectInv /\ ExitInv /\ UpdateInv
  BY ItemAssumption DEF Init, Items, NothingLost, MainInv, ObjectInv, ExitInv, UpdateInv
<1> QED
  BY <1>2, <1>3 DEF IInv

\* An upload request that is sent waits behind the others.
LEMMA SentWaits ==
    ASSUME TypeOK, offer \in Items, Enqueue
    PROVE  /\ workItems' \in Seq(Items)
           /\ Len(workItems') <= Capacity
           /\ offer' = NoItem
           /\ \A i \in Items : Waiting(i) \/ i = offer => Waiting(i)'
<1>1. /\ workItems \in Seq(Items)
      /\ workItems' = Append(workItems, offer)
      /\ Len(workItems) \in Nat
      /\ Len(workItems) < Capacity
      /\ Capacity \in Nat
  BY CapacityType DEF TypeOK, Enqueue
<1>2. /\ workItems' \in Seq(Items)
      /\ Len(workItems') = Len(workItems) + 1
      /\ \A n \in 1..Len(workItems) : workItems'[n] = workItems[n]
      /\ workItems'[Len(workItems) + 1] = offer
  BY <1>1
<1> QED
  BY <1>1, <1>2 DEF Enqueue, Waiting

\* The first upload request is received, the others go on waiting.
LEMMA ReceivedOrWaits ==
    ASSUME TypeOK, workItems # <<>>, workItems' = Tail(workItems)
    PROVE  /\ Head(workItems) \in Items
           /\ workItems' \in Seq(Items)
           /\ Len(workItems') <= Capacity
           /\ \A i \in Items : Waiting(i) => i = Head(workItems) \/ Waiting(i)'
<1>1. /\ workItems \in Seq(Items)
      /\ Len(workItems) \in Nat \ {0}
      /\ Len(workItems) <= Capacity
      /\ Capacity \in Nat
  BY CapacityType DEF TypeOK
<1>2. /\ workItems' \in Seq(Items)
      /\ Len(workItems') = Len(workItems) - 1
      /\ \A n \in 1..Len(workItems') : workItems'[n] = workItems[n + 1]
      /\ Head(workItems) = workItems[1]
      /\ workItems[1] \in Items
  BY <1>1
<1>3. ASSUME NEW i \in Items, NEW n \in 1..Len(workItems), workItems[n] = i,
             i # Head(workItems)
      PROVE  Waiting(i)'
  <2>1. n - 1 \in 1..Len(workItems') /\ workItems'[n - 1] = i
    BY <1>1, <1>2, <1>3
  <2> QED
    BY <2>1 DEF Waiting
<1> QED
  BY <1>1, <1>2, <1>3 DEF Waiting

-----------------------------------------------------------------------------
\* Every step of Deploy and its workers preserves the invariant.
LEMMA StepIInv == IInv /\ [Next]_vars => IInv'
<1> SUFFICES ASSUME IInv, [Next]_vars PROVE IInv'
  OBVIOUS
<1> USE ItemAssumption, CapacityType
        DEF IInv, TypeOK, NothingLost, MainInv, ObjectInv, ExitInv, UpdateInv, Failed,
            Places, WorkerPlaces, Items, Goes, workerVars
<1>1. CASE ReadEntry
  BY <1>1 DEF ReadEntry, Waiting
<1>2. CASE ReadFails
  BY <1>2 DEF ReadFails, Waiting
<1>3. CASE EndOfArchive
  BY <1>3 DEF EndOfArchive, Waiting
<1>4. CASE SendFile
  <2>1. offer \in Items /\ Enqueue
    BY <1>4 DEF SendFile
  <2> QED
    BY <1>4, <2>1, SentWaits DEF SendFile
<1>5. CASE SeeError
  BY <1>5 DEF SeeError, Waiting
<1>6. CASE SendSpec
  <2>1. offer \in Items /\ Enqueue
    BY <1>6 DEF SendSpec
  <2> QED
    BY <1>6, <2>1, SentWaits DEF SendSpec
<1>7. CASE CloseChannel
  BY <1>7 DEF CloseChannel, Waiting
<1>8. CASE WorkersDone
  BY <1>8 DEF WorkersDone, Waiting
<1>9. CASE UpdateApplication
  BY <1>9 DEF UpdateApplication, Waiting
<1>10. ASSUME NEW w \in Workers, Receive(w) PROVE IInv'
  BY <1>10, ReceivedOrWaits DEF Receive
<1>11. ASSUME NEW w \in Workers, NoMoreItems(w) PROVE IInv'
  BY <1>11 DEF NoMoreItems, Waiting
<1>12. ASSUME NEW w \in Workers, Uploaded(w) PROVE IInv'
  BY <1>12 DEF Uploaded, Waiting
<1>13. ASSUME NEW w \in Workers, UploadFails(w) PROVE IInv'
  <2>1. worker'[w] = "report"
    BY <1>13 DEF UploadFails
  <2>2. Failed'
    BY <2>1
  <2> QED
    BY <1>13, <2>2 DEF UploadFails
<1>14. ASSUME NEW w \in Workers, Report(w) PROVE IInv'
  BY <1>14 DEF Report, Waiting
<1>15. CASE UNCHANGED vars
  BY <1>15 DEF vars, Waiting
<1> QED
  BY <1>1, <1>2, <1>3, <1>4, <1>5, <1>6, <1>7, <1>8, <1>9, <1>10, <1>11, <1>12,
     <1>13, <1>14, <1>15
  DEF Next, Main, Work

\* The invariant holds in all reachable states.
LEMMA Inductive == Spec => []IInv
  BY InitIInv, StepIInv, PTL DEF Spec

\* Every reachable state is well typed.
THEOREM TypeCorrect == Spec => []TypeOK
  BY Inductive, PTL DEF IInv

\* The routers are pointed to a version only when every file of the archive is in
\* the bucket, for any archive and any number of workers (deploy.go:32, 66-78).
THEOREM Atomic == Spec => []AtomicDeploy
<1>1. IInv => AtomicDeploy
  BY DEF IInv, TypeOK, UpdateInv, AtomicDeploy
<1> QED
  BY <1>1, Inductive, PTL

-----------------------------------------------------------------------------
\* The workers that have exited are finitely many, and another one makes one more.
LEMMA ExitedCount ==
    /\ Cardinality(Exited) \in Nat
    /\ \A w \in Workers \ Exited :
          Cardinality(Exited \cup {w}) = Cardinality(Exited) + 1
<1>1. IsFiniteSet(Exited)
  BY FS_Subset, ItemAssumption DEF Exited
<1> QED
  BY <1>1, FS_CardinalityType, FS_AddElement

\* A worker reports one error and exits; the main goroutine only takes errors
\* out of the channel.
LEMMA StepCountInv == TypeOK /\ CountInv /\ [Next]_vars => CountInv'
<1> SUFFICES ASSUME TypeOK, CountInv, [Next]_vars PROVE CountInv'
  OBVIOUS
<1>0. workError \in Nat /\ worker \in [Workers -> WorkerPlaces]
  BY CapacityType DEF TypeOK
<1> USE <1>0, ExitedCount DEF CountInv
<1>1. CASE UNCHANGED worker /\ workError' <= workError
  <2>1. Exited' = Exited
    BY <1>1 DEF Exited
  <2>2. workError' \in Int
    BY <1>1 DEF Next, vars, Main, Work, ReadEntry, ReadFails, EndOfArchive, SendFile,
                SeeError, SendSpec, CloseChannel, WorkersDone, UpdateApplication,
                Receive, NoMoreItems, Uploaded, UploadFails, Report
  <2> QED
    BY <1>1, <2>1, <2>2
<1>2. ASSUME NEW w \in Workers, Receive(w) \/ Uploaded(w) \/ UploadFails(w)
      PROVE  CountInv'
  <2>1. Exited' = Exited /\ workError' = workError
    BY <1>2 DEF Receive, Uploaded, UploadFails, Exited
  <2> QED
    BY <2>1
<1>3. ASSUME NEW w \in Workers, NoMoreItems(w) \/ Report(w) PROVE CountInv'
  <2>1. w \in Workers \ Exited /\ Exited' = Exited \cup {w}
    BY <1>3 DEF NoMoreItems, Report, Exited
  <2>2. workError' \in {workError, workError + 1}
    BY <1>3 DEF NoMoreItems, Report
  <2> QED
    BY <2>1, <2>2
<1> QED
  BY <1>1, <1>2, <1>3
  DEF Next, vars, Main, Work, ReadEntry, ReadFails, EndOfArchive, SendFile, SeeError,
      SendSpec, CloseChannel, WorkersDone, UpdateApplication, workerVars

\* Every worker has its place in the channel of errors, in any interleaving of any
\* number of workers (deploy.go:91, 202).
THEOREM ReportsFit == Spec => []ReportNeverBlocks
<1>1. Init => CountInv
  BY ExitedCount DEF Init, CountInv
<1>2. TypeOK /\ CountInv => ReportNeverBlocks
  <2> SUFFICES ASSUME TypeOK, CountInv, NEW w \in Workers, worker[w] = "report"
               PROVE  workError < Capacity
    BY DEF ReportNeverBlocks
  <2>1. w \in Workers \ Exited /\ Exited \cup {w} \subseteq Workers
    BY DEF Exited
  <2>2. Cardinality(Exited \cup {w}) <= Cardinality(Workers)
    BY <2>1, FS_Subset, ItemAssumption
  <2>3. workError \in Nat
    BY CapacityType DEF TypeOK
  <2> QED
    BY <2>1, <2>2, <2>3, ExitedCount, CapacityType DEF CountInv, Capacity
<1> QED
  BY <1>1, <1>2, StepCountInv, TypeCorrect, PTL DEF Spec
=============================================================================
