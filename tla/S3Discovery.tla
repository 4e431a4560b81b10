---------------------------- MODULE S3Discovery ----------------------------
(***************************************************************************)
(* Applications as JSON objects of a bucket (pkg/erdiscovery/s3discovery)  *)
(* merged with those of the other discoveries (multidiscovery.go).         *)
(*                                                                         *)
(* A read lists the objects, and fetches them one by one unless the ETags  *)
(* of the list are those that the last fetch was filed under.  Operators   *)
(* replace and delete objects all the time.  One goroutine reads, the one  *)
(* that syncs (ConfigSync).                                                *)
(*                                                                         *)
(* An object is its content, which is also its ETag: equal contents have   *)
(* equal ETags.  The S3 discovery and the bucket's consistency (a request  *)
(* sees what was written before it) are external.                          *)
(***************************************************************************)
EXTENDS Naturals, Sequences

CONSTANTS
    Keys,      \* the keys "discovery/<ID>.json", a sequence in their order
    Contents,  \* [DOMAIN Keys -> the contents that may be put there]
    Broken,    \* contents that do not decode: not JSON, or an unknown field
    MaxKeys,   \* S3 lists so many objects at most
    Others     \* what the discovery read after this one may list

Missing == "missing"

ASSUME BucketAssumption ==
    /\ Keys \in Seq(STRING)
    /\ Contents \in [DOMAIN Keys -> SUBSET STRING]
    /\ \A i \in DOMAIN Keys : Missing \notin Contents[i]
    /\ MaxKeys \in Nat \ {0}
    /\ Others # {}

VARIABLES
    bucket,    \* [DOMAIN Keys -> content or Missing]
    other,     \* what the other discovery lists now
    at,        \* ReadApplications(): "list", "get", "other", "idle"
    list,      \* listResponse.Contents: a sequence of [key, etag]
    fetched,   \* the contents that have been fetched
    cachedRead, \* what a read that succeeds returns, from the cache or fetched
    cachedReadHash, \* the ETags that it is filed under, or Nil
    merged,    \* the last merged read that succeeded
    dirty,     \* history: the bucket has changed since the list that is fetched for
    mixed      \* history: it had when cachedRead was stored

bucketVars == <<bucket, other, at, list, fetched, cachedRead, cachedReadHash,
                merged, dirty, mixed>>

cacheVars == <<cachedRead, cachedReadHash, mixed>>

Nil == <<"nil">>

NothingMerged == [s3 |-> <<>>, other |-> Nil]

\* The ETags of a list, one after the other: what sha1 is fed with.  The keys
\* are not in it.
Hash(objects) == [i \in DOMAIN objects |-> objects[i].etag]

\* ListObjects: in the order of the keys, the first page only.
Listing(b) ==
    LET page[i \in 0..Len(Keys)] ==
            IF i = 0 THEN <<>>
            ELSE IF b[i] = Missing \/ Len(page[i - 1]) = MaxKeys THEN page[i - 1]
            ELSE Append(page[i - 1], [key |-> i, etag |-> b[i]])
    IN page[Len(Keys)]

IsBucket(b) == \A i \in DOMAIN Keys : b[i] \in Contents[i] \cup {Missing}

AllContents == UNION {Contents[i] : i \in DOMAIN Keys}

BucketTypeOK ==
    /\ DOMAIN bucket = DOMAIN Keys /\ IsBucket(bucket)
    /\ other \in Others
    /\ at \in {"idle", "list", "get", "other"}
    /\ list \in Seq([key : DOMAIN Keys, etag : AllContents])
    /\ fetched \in Seq(AllContents) /\ Len(fetched) <= Len(list)
    /\ cachedRead \in Seq(AllContents)
    /\ cachedReadHash \in Seq(AllContents) \cup {Nil}
    /\ merged.s3 \in Seq(AllContents) /\ merged.other \in Others \cup {Nil}
    /\ dirty \in BOOLEAN /\ mixed \in BOOLEAN

BucketInit ==
    /\ bucket \in {b \in [DOMAIN Keys -> AllContents \cup {Missing}] : IsBucket(b)}
    /\ other \in Others
    /\ at = "list"
    /\ list = <<>>
    /\ fetched = <<>>
    /\ cachedRead = <<>>
    /\ cachedReadHash = Nil
    /\ merged = NothingMerged
    /\ dirty = FALSE
    /\ mixed = FALSE

-----------------------------------------------------------------------------
(* Whoever edits the applications                                          *)

Write(i, content) ==
    /\ content # bucket[i]
    /\ bucket' = [bucket EXCEPT ![i] = content]
    /\ dirty' = (dirty \/ at = "get")
    /\ UNCHANGED <<other, at, list, fetched, cacheVars, merged>>

\* UpdateApplication, or an upload by other means.
PutObject(i) == \E content \in Contents[i] : Write(i, content)

\* DeleteApplication.
DeleteObject(i) == Write(i, Missing)

OtherChanges ==
    /\ other' \in Others \ {other}
    /\ UNCHANGED <<bucket, at, list, fetched, cacheVars, merged, dirty>>

-----------------------------------------------------------------------------
(* ReadApplications of the S3 discovery                                    *)

\* The next tick of the sync.
Tick ==
    /\ at = "idle"
    /\ at' = "list"
    /\ UNCHANGED <<bucket, other, list, fetched, cacheVars, merged, dirty>>

\* Fault: the number of objects is compared, not their ETags.
SameCount(objects) == cachedReadHash # Nil /\ Len(objects) = Len(cachedReadHash)

SameETags(objects) == Hash(objects) = cachedReadHash

\* Fault: the list is remembered before its objects are fetched.
ListThenRemember ==
    /\ at = "list"
    /\ LET objects == Listing(bucket) IN
       /\ cachedReadHash' = Hash(objects)
       /\ IF SameETags(objects)
          THEN /\ at' = "other"
               /\ UNCHANGED <<list, fetched, dirty>>
          ELSE /\ at' = "get"
               /\ list' = objects
               /\ fetched' = <<>>
               /\ dirty' = FALSE
    /\ UNCHANGED <<bucket, other, cachedRead, mixed, merged>>

ListObjects ==
    /\ at = "list"
    /\ LET objects == Listing(bucket) IN
       IF SameETags(objects)
       THEN /\ at' = "other"
            /\ UNCHANGED <<list, fetched, dirty>>
       ELSE /\ at' = "get"
            /\ list' = objects
            /\ fetched' = <<>>
            /\ dirty' = FALSE
    /\ UNCHANGED <<bucket, other, cacheVars, merged>>

\* The object of the list that is fetched next, as it is in the bucket now.
Object == list[Len(fetched) + 1]

Readable(i) == bucket[i] \notin Broken \cup {Missing}

GetObject ==
    /\ at = "get" /\ Len(fetched) < Len(list)
    /\ Readable(Object.key)
    /\ fetched' = Append(fetched, bucket[Object.key])
    /\ UNCHANGED <<bucket, other, at, list, cacheVars, merged, dirty>>

Forget == list' = <<>> /\ fetched' = <<>> /\ dirty' = FALSE

\* An object that is gone, or does not decode, fails the whole read, and so the
\* merge.
GetFails ==
    /\ at = "get" /\ Len(fetched) < Len(list)
    /\ ~Readable(Object.key)
    /\ at' = "idle"
    /\ Forget
    /\ UNCHANGED <<bucket, other, cacheVars, merged>>

\* ListObjects or GetObject fails for another reason.
RequestFails ==
    /\ at \in {"list", "get"}
    /\ at' = "idle"
    /\ Forget
    /\ UNCHANGED <<bucket, other, cacheVars, merged>>

\* Fault: what the read is filed under is not stored.
StoreHashless ==
    /\ at = "get" /\ Len(fetched) = Len(list)
    /\ cachedRead' = fetched
    /\ mixed' = dirty
    /\ at' = "other"
    /\ Forget
    /\ UNCHANGED <<bucket, other, cachedReadHash, merged>>

StoreRead ==
    /\ at = "get" /\ Len(fetched) = Len(list)
    /\ cachedRead' = fetched
    /\ cachedReadHash' = Hash(list)
    /\ mixed' = dirty
    /\ at' = "other"
    /\ Forget
    /\ UNCHANGED <<bucket, other, merged>>

-----------------------------------------------------------------------------
(* ReadApplications of multiDiscovery: the readers after this one          *)

ReadOther ==
    /\ at = "other"
    /\ at' = "idle"
    /\ merged' = [s3 |-> cachedRead, other |-> other]
    /\ UNCHANGED <<bucket, other, list, fetched, cacheVars, dirty>>

\* One reader that cannot be read, and nothing is returned; what the S3 discovery
\* has cached stays.
OtherFails ==
    /\ at = "other"
    /\ at' = "idle"
    /\ UNCHANGED <<bucket, other, list, fetched, cacheVars, merged, dirty>>

EditBucket == OtherChanges \/ \E i \in DOMAIN Keys : PutObject(i) \/ DeleteObject(i)

Read == ListObjects \/ GetObject \/ StoreRead \/ ReadOther

BucketNext == EditBucket \/ Tick \/ Read \/ GetFails \/ RequestFails \/ OtherFails

BucketSpec == BucketInit /\ [][BucketNext]_bucketVars

\* The ticker ticks, and every request is answered, one way or the other.
BucketFairSpec ==
    /\ BucketSpec
    /\ WF_bucketVars(Tick)
    /\ WF_bucketVars(Read \/ GetFails \/ RequestFails \/ OtherFails)

-----------------------------------------------------------------------------
(* Properties                                                              *)

\* The cached applications are those of the ETags they are filed under, whatever
\* fetch failed half way, unless the bucket changed under the very fetch that
\* filled the cache (s3discovery.go:75-106).
FiledRight == cachedReadHash # Nil /\ ~mixed => cachedRead = cachedReadHash

\* The list is filed with contents that it was not about, and is the list of the
\* bucket again: an object was replaced between the list and its fetch, and
\* replaced back.  Nothing fetches it any more.
StuckStale == cachedReadHash = Hash(Listing(bucket)) /\ cachedRead # cachedReadHash

AllReadable == \A n \in DOMAIN Listing(bucket) : Readable(Listing(bucket)[n].key)

\* From some time on, the objects of the bucket that decode can be fetched.
RequestsSucceed == <>[][RequestFails => GetFails]_bucketVars

OthersSucceed == <>[][OtherFails => ReadOther]_bucketVars

\* When nobody edits any more and requests succeed, reads come to return what both
\* discoveries list, the bucket's first page, whatever was read in the middle of a
\* change and whichever reader failed before (s3discovery.go:55-109,
\* multidiscovery.go:18-31).  Exceptions: an object that does not decode keeps
\* everything back, and StuckStale.
EventuallyRead ==
    <>[][UNCHANGED <<bucket, other>>]_bucketVars /\ RequestsSucceed /\ OthersSucceed =>
        <>[](\/ merged = [s3 |-> Hash(Listing(bucket)), other |-> other]
             \/ ~AllReadable
             \/ StuckStale)

\* The cache does its work: a bucket that stays as it is is fetched no more after
\* some time, also while another discovery keeps failing (s3discovery.go:75-77,
\* 105-106).
FetchesEnd ==
    <>[][UNCHANGED bucket]_bucketVars /\ RequestsSucceed => <>[](at # "get" \/ ~AllReadable)
=============================================================================
