--------------------------- MODULE DiscoveryProofs ---------------------------
(***************************************************************************)
(* Theorems about the discoveries, for any number of applications, events, *)
(* routers, objects and containers: DockerDiscovery, AppRegistry and       *)
(* S3Discovery.  They share no variable, and have nothing in common but    *)
(* what they are for.                                                      *)
(***************************************************************************)
EXTENDS DockerDiscovery, AppRegistry, S3Discovery, FiniteSetTheorems,
        FunctionTheorems, SequenceTheorems, WellFoundedInduction, TLAPS

-----------------------------------------------------------------------------
(* Induction over numbers                                                  *)

\* A set of numbers has a first.
LEMMA First ==
    ASSUME NEW S \in SUBSET Nat, S # {}
    PROVE  \E m \in S : \A j \in S : m <= j
<1>1. PICK m \in S : \A k \in S : <<k, m>> \notin OpToRel(<, Nat)
  BY WFMin, NatLessThanWellFounded, Zenon
<1>2. ASSUME NEW k \in S PROVE ~(k < m)
  BY <1>1, <1>2, Zenon DEF OpToRel
<1> QED
  BY <1>2

\* A set that has a number's successor with the number has all, up to a limit.
LEMMA Upwards ==
    ASSUME NEW N \in Nat, NEW P \in SUBSET (0..N), 0 \in P,
           \A n \in 1..N : n - 1 \in P => n \in P
    PROVE  P = 0..N
<1> DEFINE S == (0..N) \ P
<1>1. CASE S # {}
  <2>1. S \in SUBSET Nat
    OBVIOUS
  <2>2. PICK m \in S : \A j \in S : m <= j
    BY <1>1, <2>1, First
  <2>3. m \in 1..N /\ m - 1 \in 0..N /\ ~(m <= m - 1)
    BY <2>2
  <2> QED
    BY <2>2, <2>3
<1> QED
  BY <1>1

\* What every step makes of the value before exists, from the first to the last.
LEMMA Steps ==
    ASSUME NEW S, NEW a \in S, NEW N \in Nat, NEW step \in [1..N -> [S -> S]]
    PROVE  \E f \in [0..N -> S] : f[0] = a /\ \A n \in 1..N : f[n] = step[n][f[n - 1]]
<1> DEFINE Upto(m, f) == f[0] = a /\ \A n \in 1..m : f[n] = step[n][f[n - 1]]
           P == {m \in 0..N : \E f \in [0..m -> S] : Upto(m, f)}
<1>1. 0 \in P
  <2> DEFINE f == [n \in 0..0 |-> a]
  <2>1. f \in [0..0 -> S] /\ f[0] = a /\ 1..0 = {}
    OBVIOUS
  <2>2. Upto(0, f)
    BY <2>1
  <2> HIDE DEF f, Upto
  <2> QED
    BY <2>1, <2>2
<1>2. ASSUME NEW m \in 1..N, m - 1 \in P PROVE m \in P
  <2>1. PICK f \in [0..(m - 1) -> S] : Upto(m - 1, f)
    BY <1>2
  <2> DEFINE last == step[m][f[m - 1]]
             g == [n \in 0..m |-> IF n = m THEN last ELSE f[n]]
  <2>2. last \in S
    OBVIOUS
  <2> HIDE DEF last
  <2>3. g \in [0..m -> S]
    <3>1. \A n \in 0..m : n # m => n \in 0..(m - 1)
      OBVIOUS
    <3> QED
      BY <2>2, <3>1
  <2>4. g[m] = last /\ \A n \in 0..(m - 1) : g[n] = f[n]
    OBVIOUS
  <2> HIDE DEF g
  <2>5. Upto(m, g)
    <3>1. g[0] = a
      BY <2>1, <2>4
    <3>2. ASSUME NEW n \in 1..m PROVE g[n] = step[n][g[n - 1]]
      <4>1. n - 1 \in 0..(m - 1) /\ g[n - 1] = f[n - 1]
        BY <2>4
      <4>2. CASE n = m
        BY <2>4, <4>1, <4>2 DEF last
      <4>3. CASE n # m
        <5>1. n \in 1..(m - 1) /\ g[n] = f[n]
          BY <2>4, <4>3
        <5> QED
          BY <2>1, <4>1, <5>1
      <4> QED
        BY <4>2, <4>3
    <3> QED
      BY <3>1, <3>2
  <2>6. m \in 0..N
    OBVIOUS
  <2> QED
    BY <2>3, <2>5, <2>6
<1>3. P = 0..N
  <2> HIDE DEF P
  <2>1. P \in SUBSET (0..N)
    BY DEF P
  <2> QED
    BY <1>1, <1>2, <2>1, Upwards
<1>4. N \in P
  <2> HIDE DEF P
  <2> QED
    BY <1>3
<1> QED
  BY <1>4

-----------------------------------------------------------------------------
(* The registry: what a batch of events makes of what is known             *)

\* What n events say of an application: the last about it, or what was known.
Telling(events, n, id) == {i \in 1..n : events[i].id = id}

LastOf(about) == CHOOSE i \in about : \A j \in about : j <= i

Told(known, events, n, id) ==
    IF Telling(events, n, id) = {} THEN known[id]
    ELSE events[LastOf(Telling(events, n, id))].app

\* A set of numbers that has an end has a last.
LEMMA LastIsOne ==
    ASSUME NEW n \in Nat, NEW about \in SUBSET (1..n), about # {}
    PROVE  LastOf(about) \in about /\ \A j \in about : j <= LastOf(about)
<1> DEFINE S == {n - i : i \in about}
<1>1. S \in SUBSET Nat /\ S # {}
  <2>1. \A i \in about : n - i \in Nat
    OBVIOUS
  <2>2. PICK i \in about : TRUE
    OBVIOUS
  <2>3. n - i \in S
    BY <2>2
  <2> QED
    BY <2>1, <2>3
<1>2. PICK m \in S : \A j \in S : m <= j
  BY <1>1, First
<1>3. PICK i \in about : m = n - i
  OBVIOUS
<1>4. ASSUME NEW j \in about PROVE j <= i
  <2>1. n - j \in S
    OBVIOUS
  <2>2. n - i <= n - j
    BY <1>2, <1>3, <2>1
  <2> QED
    BY <2>2
<1> QED
  BY <1>4 DEF LastOf

Silent(events, m, n, id) == \A j \in (m + 1)..n : events[j].id # id

\* The last event about an application is the one that is told.
LEMMA LastIsTold ==
    ASSUME NEW known, NEW events, NEW n \in Nat, NEW id, NEW i \in Telling(events, n, id),
           Silent(events, i, n, id)
    PROVE  Told(known, events, n, id) = events[i].app
<1> DEFINE about == Telling(events, n, id)
<1>1. about \subseteq Nat /\ i \in about /\ \A j \in about : j <= i
  BY DEF Telling, Silent
<1> HIDE DEF about
<1>2. \A k \in about : (\A j \in about : j <= k) => k = i
  BY <1>1
<1>3. LastOf(about) = i
  BY <1>1, <1>2 DEF LastOf
<1> QED
  BY <1>1, <1>3 DEF Told, about

\* Events about other applications tell nothing.
LEMMA OthersTellNothing ==
    ASSUME NEW known, NEW events, NEW m \in Nat, NEW n \in Nat, m <= n, NEW id,
           Silent(events, m, n, id)
    PROVE  Told(known, events, n, id) = Told(known, events, m, id)
<1>1. Telling(events, n, id) = Telling(events, m, id)
  BY DEF Telling, Silent
<1> QED
  BY <1>1 DEF Told

\* One more event tells of the application it is about.
LEMMA OneMoreTold ==
    ASSUME NEW known, NEW events, NEW n \in Nat \ {0}, NEW id
    PROVE  Told(known, events, n, id) =
               IF events[n].id = id THEN events[n].app ELSE Told(known, events, n - 1, id)
<1>1. CASE events[n].id = id
  <2>1. n \in Nat
    OBVIOUS
  <2>2. n \in Telling(events, n, id)
    BY <1>1 DEF Telling
  <2>3. Silent(events, n, n, id)
    BY DEF Silent
  <2>4. Told(known, events, n, id) = events[n].app
    BY <2>1, <2>2, <2>3, LastIsTold
  <2> QED
    BY <1>1, <2>4
<1>2. CASE events[n].id # id
  <2> DEFINE m == n - 1
  <2>1. /\ n \in Nat /\ m \in Nat /\ m <= n
        /\ Silent(events, m, n, id)
    BY <1>2 DEF Silent
  <2> HIDE DEF m
  <2>2. Told(known, events, n, id) = Told(known, events, m, id)
    BY <2>1, OthersTellNothing
  <2> QED
    BY <1>2, <2>2 DEF m
<1> QED
  BY <1>1, <1>2

\* after is what Process makes of what is known, from event to event.
Processes(after, known, events) ==
    after = [n \in 0..Len(events) |->
                IF n = 0 THEN known ELSE ProcessEvent(after[n - 1], events[n])]

\* Processing events one by one makes of an application what they tell of it.
LEMMA ProcessTold ==
    ASSUME NEW S, NEW known \in [IDs -> S], NEW T, NEW events \in Seq(T)
    PROVE  Process(known, events) =
               [id \in IDs |-> Told(known, events, Len(events), id)]
<1> DEFINE N == Len(events)
           told == [n \in 0..N |-> [id \in IDs |-> Told(known, events, n, id)]]
           after == CHOOSE f : Processes(f, known, events)
<1>1. N \in Nat
  OBVIOUS
<1> HIDE DEF N
<1>2. told[0] = known
  <2>1. \A id \in IDs : Told(known, events, 0, id) = known[id]
    BY DEF Told, Telling
  <2> QED
    BY <1>1, <2>1
<1>3. ASSUME NEW n \in 1..N
      PROVE  told[n] = ProcessEvent(told[n - 1], events[n])
  <2>1. n \in 0..N /\ n - 1 \in 0..N
    BY <1>1
  <2>2. /\ told[n] = [id \in IDs |-> Told(known, events, n, id)]
        /\ told[n - 1] = [id \in IDs |-> Told(known, events, n - 1, id)]
    BY <2>1
  <2> HIDE DEF told
  <2>3. ASSUME NEW id \in IDs
        PROVE  told[n][id] = IF id = events[n].id THEN events[n].app ELSE told[n - 1][id]
    <3>1. Told(known, events, n, id) =
              IF events[n].id = id THEN events[n].app ELSE Told(known, events, n - 1, id)
      <4>1. n \in Nat \ {0}
        BY <1>1
      <4> QED
        BY <4>1, OneMoreTold
    <3> QED
      BY <2>2, <3>1
  <2> QED
    BY <2>2, <2>3 DEF ProcessEvent
<1>4. Processes(told, known, events)
  <2>1. told = [n \in 0..N |-> told[n]]
    OBVIOUS
  <2>2. \A n \in 0..N : told[n] =
           IF n = 0 THEN known ELSE ProcessEvent(told[n - 1], events[n])
    <3> HIDE DEF told
    <3>1. \A n \in 0..N : n # 0 => n \in 1..N
      BY <1>1
    <3> QED
      BY <1>2, <1>3, <3>1
  <2> HIDE DEF told
  <2> QED
    BY <2>1, <2>2, Zenon DEF Processes, N
<1>5. Processes(after, known, events)
  BY <1>4
<1>6. after = told
  <2> DEFINE P == {n \in 0..N : after[n] = told[n]}
  <2> HIDE DEF after, told
  <2>1. 0 \in P
    BY <1>1, <1>2, <1>5 DEF Processes, N
  <2>2. ASSUME NEW n \in 1..N, n - 1 \in P PROVE n \in P
    BY <1>1, <1>3, <1>5, <2>2 DEF Processes, N
  <2>3. P = 0..N
    <3>1. P \in SUBSET (0..N)
      OBVIOUS
    <3> HIDE DEF P
    <3> QED
      BY <1>1, <2>1, <2>2, <3>1, Upwards
  <2> QED
    BY <1>4, <1>5, <2>3 DEF Processes, N
<1>7. Process(known, events) = after[N]
  BY DEF Process, Processes, N
<1> QED
  BY <1>1, <1>6, <1>7 DEF N

-----------------------------------------------------------------------------
(* The registry: what a router knows                                       *)

\* A batch of the stream l has no event that is unknown.
Plain(l, m, n) == \A i \in (m + 1)..n : l[i] # Unknown

\* What the first n events of the stream l say of an application.
Says(l, n, id) == Told(Nothing, l, n, id)

\* Fresh, of a stream, a cursor and what is known.
FreshIn(l, c, known, id, n) ==
    /\ \/ n = c
       \/ n < Len(l) /\ Plain(l, c, n) /\ l[n + 1] = Unknown
    /\ known[id] = Says(l, n, id)

KnownIn(l, c, known) == \A id \in IDs : \E n \in c..Len(l) : FreshIn(l, c, known, id, n)

WholeIn(l, known) == \E n \in 0..Len(l) : \A id \in IDs : known[id] = Says(l, n, id)

\* A stream that gets one more event says the same up to where it was.
LEMMA AppendSays ==
    ASSUME NEW T, NEW l \in Seq(T), NEW e \in T, NEW n \in 0..Len(l), NEW id
    PROVE  Says(Append(l, e), n, id) = Says(l, n, id)
<1> DEFINE k == Append(l, e)
<1>1. \A i \in 1..Len(l) : k[i] = l[i]
  OBVIOUS
<1> HIDE DEF k
<1>2. Telling(k, n, id) = Telling(l, n, id)
  BY <1>1 DEF Telling
<1>3. CASE Telling(l, n, id) = {}
  BY <1>2, <1>3 DEF Says, Told, k
<1>4. CASE Telling(l, n, id) # {}
  <2> DEFINE about == Telling(l, n, id)
  <2>1. about \in SUBSET (1..n) /\ about # {} /\ n \in Nat /\ n <= Len(l) /\ Len(l) \in Nat
    BY <1>4 DEF Telling
  <2> HIDE DEF about
  <2>2. LastOf(about) \in about
    BY <2>1, LastIsOne
  <2>3. LastOf(about) \in 1..Len(l)
    <3>1. \A i \in 1..n : i \in 1..Len(l)
      BY <2>1
    <3> QED
      BY <2>1, <2>2, <3>1
  <2> QED
    BY <1>1, <1>2, <1>4, <2>3 DEF Says, Told, k, about
<1> QED
  BY <1>3, <1>4

\* A router knows what it knew when the stream gets one more event.
LEMMA AppendKnown ==
    ASSUME NEW T, NEW l \in Seq(T), NEW e \in T, NEW c \in 0..Len(l), NEW known
    PROVE  /\ KnownIn(l, c, known) => KnownIn(Append(l, e), c, known)
           /\ WholeIn(l, known) => WholeIn(Append(l, e), known)
<1> DEFINE k == Append(l, e)
<1>1. /\ Len(k) = Len(l) + 1 /\ Len(l) \in Nat
      /\ \A i \in 1..Len(l) : k[i] = l[i]
  OBVIOUS
<1>2. \A n \in 0..Len(l), id \in IDs : Says(k, n, id) = Says(l, n, id)
  BY AppendSays
<1> HIDE DEF k
<1>3. ASSUME NEW id \in IDs, NEW n \in c..Len(l), FreshIn(l, c, known, id, n)
      PROVE  n \in c..Len(k) /\ FreshIn(k, c, known, id, n)
  <2>1. n \in c..Len(k) /\ n \in 0..Len(l)
    BY <1>1
  <2>2. known[id] = Says(k, n, id)
    BY <1>2, <1>3, <2>1 DEF FreshIn
  <2>3. n < Len(l) => n < Len(k) /\ k[n + 1] = l[n + 1]
    BY <1>1
  <2>4. Plain(l, c, n) => Plain(k, c, n)
    BY <1>1 DEF Plain
  <2> QED
    BY <1>3, <2>1, <2>2, <2>3, <2>4 DEF FreshIn
<1>4. KnownIn(l, c, known) => KnownIn(k, c, known)
  BY <1>3 DEF KnownIn
<1>5. WholeIn(l, known) => WholeIn(k, known)
  BY <1>1, <1>2 DEF WholeIn
<1> QED
  BY <1>4, <1>5 DEF k

\* Before any event, and after all of them, what is known is what one point says.
LEMMA EndsKnown ==
    ASSUME NEW T, NEW l \in Seq(T), NEW known
    PROVE  /\ KnownIn(l, 0, Nothing) /\ WholeIn(l, Nothing)
           /\ KnownIn(l, Len(l), known) => WholeIn(l, known)
<1>1. Len(l) \in Nat
  OBVIOUS
<1>2. \A id : Says(l, 0, id) = Nothing[id]
  BY DEF Says, Told, Telling
<1>3. KnownIn(l, 0, Nothing) /\ WholeIn(l, Nothing)
  BY <1>1, <1>2 DEF KnownIn, FreshIn, WholeIn
<1>4. KnownIn(l, Len(l), known) => WholeIn(l, known)
  BY <1>1 DEF KnownIn, FreshIn, WholeIn
<1> QED
  BY <1>3, <1>4

\* A batch says of an application what the stream says at its end, or nothing.
LEMMA BatchTells ==
    ASSUME NEW S, NEW known \in [IDs -> S], NEW T, NEW l \in Seq(T),
           NEW c \in 0..Len(l), NEW m \in c..Len(l), NEW id \in IDs
    PROVE  LET batch == SubSeq(l, c + 1, m) IN
           \/ Process(known, batch)[id] = Says(l, m, id)
           \/ /\ Process(known, batch)[id] = known[id]
              /\ Silent(l, c, m, id)
<1> DEFINE batch == SubSeq(l, c + 1, m)
           N == m - c
<1>1. /\ batch \in Seq(T) /\ Len(batch) = N /\ N \in Nat /\ m \in Nat
      /\ c \in Nat /\ c <= m
      /\ \A j \in 1..N : batch[j] = l[c + j]
  OBVIOUS
<1> HIDE DEF batch, N
<1>2. Process(known, batch)[id] = Told(known, batch, N, id)
  <2>1. ASSUME NEW events \in Seq(T)
        PROVE  Process(known, events)[id] = Told(known, events, Len(events), id)
    <3>1. Process(known, events) = [k \in IDs |-> Told(known, events, Len(events), k)]
      BY ProcessTold
    <3> QED
      BY <3>1
  <2> QED
    BY <1>1, <2>1
<1>3. CASE Telling(batch, N, id) = {}
  <2>1. Told(known, batch, N, id) = known[id]
    BY <1>3 DEF Told
  <2>2. ASSUME NEW i \in (c + 1)..m PROVE l[i].id # id
    <3>1. i - c \in 1..N /\ c + (i - c) = i
      BY <1>1 DEF N
    <3>2. batch[i - c] = l[i]
      BY <1>1, <3>1
    <3> QED
      BY <1>3, <3>1, <3>2 DEF Telling
  <2> QED
    BY <1>2, <2>1, <2>2 DEF Silent, batch
<1>4. CASE Telling(batch, N, id) # {}
  <2> DEFINE about == Telling(batch, N, id)
             j == LastOf(about)
             i == c + j
  <2>1. about \in SUBSET (1..N) /\ about # {}
    BY <1>4 DEF Telling
  <2> HIDE DEF about
  <2>2. j \in about /\ \A k \in about : k <= j
    BY <1>1, <2>1, LastIsOne
  <2> HIDE DEF j
  <2>3. j \in 1..N /\ i \in 1..m /\ l[i] = batch[j] /\ batch[j].id = id
    BY <1>1, <2>1, <2>2 DEF N, about, Telling
  <2>4. i \in Telling(l, m, id)
    BY <2>3 DEF Telling
  <2>5. ASSUME NEW k \in (i + 1)..m PROVE l[k].id # id
    <3>1. k - c \in 1..N /\ c + (k - c) = k /\ ~(k - c <= j)
      BY <1>1, <2>3 DEF N
    <3>2. k - c \notin about
      BY <2>2, <3>1
    <3>3. batch[k - c] = l[k]
      BY <1>1, <3>1
    <3> QED
      BY <3>1, <3>2, <3>3 DEF about, Telling
  <2>6. Silent(l, i, m, id)
    BY <2>5 DEF Silent
  <2> HIDE DEF i
  <2>7. Says(l, m, id) = l[i].app
    BY <1>1, <2>4, <2>6, LastIsTold DEF Says
  <2>8. Told(known, batch, N, id) = batch[j].app
    BY <1>4 DEF Told, about, j
  <2> QED
    BY <1>2, <2>3, <2>7, <2>8 DEF batch
<1> QED
  BY <1>3, <1>4

\* A batch without unknown events, on top of what a router knows, is known at the
\* end of the batch; and at the cursor as it was, when an unknown event follows.
LEMMA BatchKnown ==
    ASSUME NEW S, NEW known \in [IDs -> S], NEW T, NEW l \in Seq(T),
           NEW c \in 0..Len(l), NEW m \in c..Len(l), Plain(l, c, m),
           KnownIn(l, c, known)
    PROVE  LET after == Process(known, SubSeq(l, c + 1, m)) IN
           /\ KnownIn(l, m, after)
           /\ m < Len(l) /\ l[m + 1] = Unknown => KnownIn(l, c, after)
<1> DEFINE after == Process(known, SubSeq(l, c + 1, m))
<1>0. Len(l) \in Nat /\ c \in Nat /\ m \in Nat /\ c <= m /\ m <= Len(l)
  OBVIOUS
<1>1. \A id \in IDs : \/ after[id] = Says(l, m, id)
                      \/ after[id] = known[id] /\ Silent(l, c, m, id)
  BY BatchTells
<1> HIDE DEF after
<1>2. ASSUME NEW id \in IDs, after[id] = Says(l, m, id)
      PROVE  /\ FreshIn(l, m, after, id, m)
             /\ m < Len(l) /\ l[m + 1] = Unknown => FreshIn(l, c, after, id, m)
  BY <1>2 DEF FreshIn
<1>3. ASSUME NEW id \in IDs, after[id] = known[id], Silent(l, c, m, id)
      PROVE  \E n \in m..Len(l) : FreshIn(l, m, after, id, n)
  <2>1. PICK n \in c..Len(l) : FreshIn(l, c, known, id, n)
    BY DEF KnownIn
  <2>2. CASE n = c
    <3>1. Says(l, m, id) = Says(l, c, id)
      BY <1>0, <1>3, OthersTellNothing DEF Says
    <3>2. FreshIn(l, m, after, id, m)
      BY <1>3, <2>1, <2>2, <3>1 DEF FreshIn
    <3> QED
      BY <1>0, <3>2
  <2>3. CASE n # c
    <3>1. n < Len(l) /\ Plain(l, c, n) /\ l[n + 1] = Unknown
      BY <2>1, <2>3 DEF FreshIn
    <3>2. m <= n
      BY <1>0, <3>1 DEF Plain
    <3>3. n \in m..Len(l) /\ Plain(l, m, n)
      BY <1>0, <3>1, <3>2 DEF Plain
    <3>4. FreshIn(l, m, after, id, n)
      BY <1>3, <2>1, <3>1, <3>3 DEF FreshIn
    <3> QED
      BY <3>3, <3>4
  <2> QED
    BY <2>2, <2>3
<1>4. ASSUME NEW id \in IDs, after[id] = known[id]
      PROVE  \E n \in c..Len(l) : FreshIn(l, c, after, id, n)
  BY <1>4 DEF KnownIn, FreshIn
<1>5. KnownIn(l, m, after)
  BY <1>0, <1>1, <1>2, <1>3 DEF KnownIn
<1>6. m < Len(l) /\ l[m + 1] = Unknown => KnownIn(l, c, after)
  BY <1>0, <1>1, <1>2, <1>4 DEF KnownIn
<1> QED
  BY <1>5, <1>6 DEF after

-----------------------------------------------------------------------------
(* The registry: its invariant                                             *)

Apps == Config \cup {Absent}

Events == Event \cup {Unknown}

\* TypeOK, without the bound of the stream, and where each function is defined.
RegistryType ==
    /\ log \in Seq(Events)
    /\ event \in [Operators -> Event \cup {NoEvent}]
    /\ cursor \in [Routers -> Nat] /\ \A r \in Routers : cursor[r] <= Len(log)
    /\ apps \in [Routers -> [IDs -> Apps]]
    /\ served \in [Routers -> [IDs -> Apps]]

\* What a router knows, of each application, and what it serves, of all.
RouterInv ==
    \A r \in Routers : KnownIn(log, cursor[r], apps[r]) /\ WholeIn(log, served[r])

RegistryInv == RegistryType /\ RouterInv

\* A deployment makes an application of an application.
LEMMA DeployedConfig ==
    ASSUME NEW app \in Apps, app.kind \in {"s3", "turbocharger"}, NEW version \in Versions
    PROVE  [app EXCEPT !.version = version] \in Config
<1>1. app \in Config
  BY DEF Apps, Absent
<1> QED
  BY <1>1 DEF Config

\* What a command finds, and what a batch leaves, are applications.
LEMMA ProcessType ==
    ASSUME NEW known \in [IDs -> Apps], NEW events \in Seq(Events)
    PROVE  Process(known, events) \in [IDs -> Apps]
<1> DEFINE N == Len(events)
<1>1. N \in Nat /\ \A i \in 1..N : events[i] \in Events
  OBVIOUS
<1>2. Process(known, events) = [id \in IDs |-> Told(known, events, N, id)]
  BY ProcessTold
<1> HIDE DEF N
<1>3. \A e \in Events : e.app \in Apps
  BY DEF Events, Apps, Event, Unknown
<1>4. ASSUME NEW id \in IDs PROVE Told(known, events, N, id) \in Apps
  <2>1. CASE Telling(events, N, id) = {}
    BY <2>1 DEF Told
  <2>2. CASE Telling(events, N, id) # {}
    <3> DEFINE about == Telling(events, N, id)
    <3>1. about \in SUBSET (1..N) /\ about # {}
      BY <2>2 DEF Telling
    <3> HIDE DEF about
    <3>2. LastOf(about) \in 1..N
      BY <1>1, <3>1, LastIsOne
    <3> QED
      BY <1>1, <1>3, <2>2, <3>2 DEF Told, about
  <2> QED
    BY <2>1, <2>2
<1> QED
  BY <1>2, <1>4

\* At first no router knows anything.
LEMMA InitRegistryInv == RegistryInit => RegistryInv
<1> SUFFICES ASSUME RegistryInit PROVE RegistryInv
  OBVIOUS
<1>1. Nothing \in [IDs -> Apps]
  BY DEF Nothing, Apps
<1>2. RegistryType
  BY <1>1 DEF RegistryInit, RegistryType
<1>3. RouterInv
  <2>1. log \in Seq(Events)
    BY <1>2 DEF RegistryType
  <2> QED
    BY <2>1, EndsKnown DEF RegistryInit, RouterInv
<1> QED
  BY <1>2, <1>3 DEF RegistryInv

\* A batch is supported when it has no unknown event.
LEMMA SupportedIsPlain ==
    ASSUME NEW T, NEW l \in Seq(T), NEW c \in 0..Len(l), NEW m \in c..Len(l)
    PROVE  AllKnown(SubSeq(l, c + 1, m)) <=> Plain(l, c, m)
<1> DEFINE batch == SubSeq(l, c + 1, m)
           N == m - c
<1>1. /\ batch \in Seq(T) /\ DOMAIN batch = 1..N /\ N \in Nat /\ c \in Nat
      /\ \A j \in 1..N : batch[j] = l[c + j]
  OBVIOUS
<1> HIDE DEF batch
<1>2. \A j \in 1..N : c + j \in (c + 1)..m
  BY <1>1
<1>3. \A i \in (c + 1)..m : i - c \in 1..N /\ c + (i - c) = i
  BY <1>1
<1> HIDE DEF N
<1>4. AllKnown(batch) <=> \A j \in 1..N : batch[j] # Unknown
  BY <1>1 DEF AllKnown, ToSet
<1>5. (\A j \in 1..N : batch[j] # Unknown) <=> Plain(l, c, m)
  BY <1>1, <1>2, <1>3 DEF Plain
<1> QED
  BY <1>4, <1>5 DEF batch

\* A command is about to append an event of an application.
LEMMA CommandEvent ==
    ASSUME RegistryType, NEW o \in Operators, Command(o)
    PROVE  /\ event' \in [Operators -> Event \cup {NoEvent}]
           /\ UNCHANGED <<log, cursor, apps, served>>
<1>1. ASSUME NEW id \in IDs, NEW app \in Apps, Prepares(o, id, app)
      PROVE  /\ event' \in [Operators -> Event \cup {NoEvent}]
             /\ UNCHANGED <<log, cursor, apps, served>>
  <2>1. [id |-> id, app |-> app] \in Event
    BY DEF Apps, Event
  <2> QED
    BY <1>1, <2>1 DEF RegistryType, Prepares
<1>2. ASSUME NEW id \in IDs PROVE Existing(id) \in Apps
  <2>1. Nothing \in [IDs -> Apps] /\ log \in Seq(Events)
    BY DEF Nothing, Apps, RegistryType
  <2>2. Process(Nothing, log) \in [IDs -> Apps]
    BY <2>1, ProcessType
  <2> QED
    BY <2>2 DEF Existing
<1>3. ASSUME NEW id \in IDs, NEW config \in Config,
             PutNew(o, id, config) \/ Put(o, id, config) \/
             Make(o, id, config)
      PROVE  \E app \in Apps : Prepares(o, id, app)
  BY <1>3 DEF PutNew, Put, Make, Apps
<1>4. ASSUME NEW id \in IDs, Delete(o, id)
      PROVE  \E app \in Apps : Prepares(o, id, app)
  BY <1>4 DEF Delete, Apps
<1>5. ASSUME NEW id \in IDs, NEW kind \in {"s3", "turbocharger"}, NEW version \in Versions,
             Deploy(o, id, kind, version)
      PROVE  \E app \in Apps : Prepares(o, id, app)
  <2> DEFINE old == Existing(id)
             app == [old EXCEPT !.version = version]
  <2>1. old \in Apps /\ old.kind \in {"s3", "turbocharger"} /\ Prepares(o, id, app)
    BY <1>2, <1>5 DEF Deploy
  <2> HIDE DEF old
  <2>2. app \in Apps
    BY <2>1, DeployedConfig DEF Apps
  <2> QED
    BY <2>1, <2>2
<1> QED
  BY <1>1, <1>3, <1>4, <1>5 DEF Command

\* Events are appended: a router knows what it knew.
LEMMA AppendRegistryInv ==
    ASSUME RegistryInv, NEW e \in Events, log' = Append(log, e),
           event' \in [Operators -> Event \cup {NoEvent}],
           UNCHANGED <<cursor, apps, served>>
    PROVE  RegistryInv'
<1>1. log \in Seq(Events)
  BY DEF RegistryInv, RegistryType
<1>2. Append(log, e) \in Seq(Events) /\ Len(Append(log, e)) = Len(log) + 1 /\ Len(log) \in Nat
  BY <1>1
<1>3. RegistryType'
  BY <1>2 DEF RegistryInv, RegistryType
<1>4. ASSUME NEW r \in Routers
      PROVE  KnownIn(log', cursor[r], apps[r]) /\ WholeIn(log', served[r])
  <2>1. cursor[r] \in 0..Len(log)
    BY <1>2 DEF RegistryInv, RegistryType
  <2>2. KnownIn(log, cursor[r], apps[r]) /\ WholeIn(log, served[r])
    BY DEF RegistryInv, RouterInv
  <2>3. KnownIn(log, cursor[r], apps[r]) => KnownIn(Append(log, e), cursor[r], apps[r])
    BY <1>1, <2>1, AppendKnown
  <2>4. WholeIn(log, served[r]) => WholeIn(Append(log, e), served[r])
    BY <1>1, <2>1, AppendKnown
  <2> QED
    BY <2>2, <2>3, <2>4
<1> QED
  BY <1>3, <1>4 DEF RegistryInv, RouterInv

\* Every step keeps the registry's invariant.
LEMMA StepRegistryInv == RegistryInv /\ [RegistryNext]_registryVars => RegistryInv'
<1> SUFFICES ASSUME RegistryInv, [RegistryNext]_registryVars PROVE RegistryInv'
  OBVIOUS
<1>0. /\ RegistryType /\ RouterInv /\ log \in Seq(Events) /\ Len(log) \in Nat
      /\ \A r \in Routers : /\ cursor[r] \in 0..Len(log)
                            /\ apps[r] \in [IDs -> Apps] /\ served[r] \in [IDs -> Apps]
                            /\ KnownIn(log, cursor[r], apps[r]) /\ WholeIn(log, served[r])
  BY DEF RegistryInv, RegistryType, RouterInv
<1>1. ASSUME NEW o \in Operators, Command(o) PROVE RegistryInv'
  <2>1. /\ event' \in [Operators -> Event \cup {NoEvent}]
        /\ UNCHANGED <<log, cursor, apps, served>>
    BY <1>0, <1>1, CommandEvent
  <2> QED
    BY <1>0, <2>1 DEF RegistryInv, RegistryType, RouterInv
<1>2. ASSUME NEW o \in Operators, AppendEvent(o) PROVE RegistryInv'
  <2>1. event[o] \in Events
    BY <1>0, <1>2 DEF AppendEvent, RegistryType, Events
  <2>2. event' \in [Operators -> Event \cup {NoEvent}]
    BY <1>0, <1>2 DEF AppendEvent, RegistryType
  <2> QED
    BY <1>2, <2>1, <2>2, AppendRegistryInv DEF AppendEvent
<1>3. ASSUME NEW o \in Operators, GiveUp(o) PROVE RegistryInv'
  BY <1>0, <1>3 DEF GiveUp, RegistryInv, RegistryType, RouterInv
<1>4. ASSUME NewerAppends PROVE RegistryInv'
  <2>1. Unknown \in Events
    BY DEF Events
  <2>2. event' \in [Operators -> Event \cup {NoEvent}]
    BY <1>0, <1>4 DEF NewerAppends, RegistryType
  <2> QED
    BY <1>4, <2>1, <2>2, AppendRegistryInv DEF NewerAppends
<1>5. ASSUME NEW r \in Routers, LoadBatch(r) PROVE RegistryInv'
  <2> DEFINE Upto(n) == SubSeq(log, cursor[r] + 1, n)
             Then(n) == Process(apps[r], Upto(n))
  <2>1. PICK n \in (cursor[r] + 1)..Len(log) :
           /\ AllKnown(Upto(n))
           /\ apps' = [apps EXCEPT ![r] = Then(n)]
           /\ cursor' = [cursor EXCEPT ![r] = n]
    BY <1>5 DEF LoadBatch, Batch
  <2>2. n \in cursor[r]..Len(log) /\ n \in Nat /\ Upto(n) \in Seq(Events)
    BY <1>0
  <2>3. Then(n) \in [IDs -> Apps]
    <3> HIDE DEF Upto
    <3> QED
      BY <1>0, <2>2, ProcessType
  <2>4. KnownIn(log, n, Then(n))
    <3>1. Plain(log, cursor[r], n)
      BY <1>0, <2>1, <2>2, SupportedIsPlain
    <3> QED
      BY <1>0, <2>2, <3>1, BatchKnown
  <2> HIDE DEF Then, Upto
  <2>5. RegistryType'
    BY <1>0, <1>5, <2>1, <2>2, <2>3 DEF LoadBatch, RegistryType
  <2>6. RouterInv'
    BY <1>0, <1>5, <2>1, <2>4 DEF LoadBatch, RegistryType, RouterInv
  <2> QED
    BY <2>5, <2>6 DEF RegistryInv
<1>6. ASSUME NEW r \in Routers, BatchFails(r) PROVE RegistryInv'
  <2> DEFINE Upto(n) == SubSeq(log, cursor[r] + 1, n)
             Then(n) == Process(apps[r], Upto(n))
  <2>1. PICK n \in cursor[r]..(Len(log) - 1) :
           /\ log[n + 1] = Unknown /\ AllKnown(Upto(n))
           /\ apps' = [apps EXCEPT ![r] = Then(n)]
    BY <1>6 DEF BatchFails, Batch
  <2>2. n \in cursor[r]..Len(log) /\ n < Len(log) /\ n \in Nat /\ Upto(n) \in Seq(Events)
    BY <1>0
  <2>3. Then(n) \in [IDs -> Apps]
    <3> HIDE DEF Upto
    <3> QED
      BY <1>0, <2>2, ProcessType
  <2>4. KnownIn(log, cursor[r], Then(n))
    <3>1. Plain(log, cursor[r], n)
      BY <1>0, <2>1, <2>2, SupportedIsPlain
    <3> QED
      BY <1>0, <2>1, <2>2, <3>1, BatchKnown
  <2> HIDE DEF Then, Upto
  <2>5. RegistryType'
    BY <1>0, <1>6, <2>1, <2>2, <2>3 DEF BatchFails, RegistryType
  <2>6. RouterInv'
    BY <1>0, <1>6, <2>1, <2>4 DEF BatchFails, RegistryType, RouterInv
  <2> QED
    BY <2>5, <2>6 DEF RegistryInv
<1>7. ASSUME NEW r \in Routers, ReturnApplications(r) PROVE RegistryInv'
  <2>1. WholeIn(log, apps[r])
    BY <1>0, <1>7, EndsKnown DEF ReturnApplications
  <2>2. RegistryType'
    BY <1>0, <1>7 DEF ReturnApplications, RegistryType
  <2>3. RouterInv'
    BY <1>0, <1>7, <2>1 DEF ReturnApplications, RegistryType, RouterInv
  <2> QED
    BY <2>2, <2>3 DEF RegistryInv
<1>8. ASSUME NEW r \in Routers, Restart(r) PROVE RegistryInv'
  <2>1. KnownIn(log, 0, Nothing) /\ WholeIn(log, Nothing)
    BY <1>0, EndsKnown
  <2>2. Nothing \in [IDs -> Apps]
    BY DEF Nothing, Apps
  <2>3. RegistryType'
    BY <1>0, <1>8, <2>2 DEF Restart, RegistryType
  <2>4. RouterInv'
    BY <1>0, <1>8, <2>1 DEF Restart, RegistryType, RouterInv
  <2> QED
    BY <2>3, <2>4 DEF RegistryInv
<1>9. CASE UNCHANGED registryVars
  BY <1>0, <1>9 DEF registryVars, RegistryInv, RegistryType, RouterInv
<1> QED
  BY <1>1, <1>2, <1>3, <1>4, <1>5, <1>6, <1>7, <1>8, <1>9
     DEF RegistryNext, Edit, Follow

\* What the invariant says is ViewIsPrefix.
LEMMA RegistryInvView == RegistryInv => ViewIsPrefix
<1> SUFFICES ASSUME RegistryInv, NEW r \in Routers
             PROVE  /\ \A id \in IDs : \E n \in cursor[r]..Len(log) : Fresh(r, id, n)
                    /\ \E n \in 0..Len(log) : \A id \in IDs :
                          served[r][id] = Latest(id, n)
  BY DEF ViewIsPrefix
<1>1. /\ log \in Seq(Events) /\ Len(log) \in Nat /\ cursor[r] \in 0..Len(log)
      /\ KnownIn(log, cursor[r], apps[r]) /\ WholeIn(log, served[r])
  BY DEF RegistryInv, RegistryType, RouterInv
<1>2. ASSUME NEW id \in IDs, NEW n PROVE Latest(id, n) = Says(log, n, id)
  BY DEF Latest, Says, Told, Telling, LastOf, Nothing
<1>3. ASSUME NEW n \in cursor[r]..Len(log), Plain(log, cursor[r], n)
      PROVE  AllKnown(Batch(r, n))
  BY <1>1, <1>3, SupportedIsPlain DEF Batch
<1>4. ASSUME NEW id \in IDs, NEW n \in cursor[r]..Len(log),
             FreshIn(log, cursor[r], apps[r], id, n)
      PROVE  Fresh(r, id, n)
  BY <1>2, <1>3, <1>4 DEF FreshIn, Fresh
<1> QED
  BY <1>1, <1>2, <1>4 DEF KnownIn, WholeIn

-----------------------------------------------------------------------------
(* The bucket: the list of its objects                                     *)

Objects == [key : DOMAIN Keys, etag : AllContents]

\* The buckets that there may be.
Filled == {b \in [DOMAIN Keys -> AllContents \cup {Missing}] : IsBucket(b)}

\* Lists of objects that are in bucket b.
ListsOf(b) == {l \in Seq(Objects) : \A n \in DOMAIN l : b[l[n].key] = l[n].etag}

\* A list after one more key.
ListMore(b, i, l) ==
    IF b[i] = Missing \/ Len(l) = MaxKeys THEN l
    ELSE Append(l, [key |-> i, etag |-> b[i]])

\* page is what Listing makes of bucket b from key to key.
Pages(page, b) ==
    page = [i \in 0..Len(Keys) |->
                IF i = 0 THEN <<>>
                ELSE IF b[i] = Missing \/ Len(page[i - 1]) = MaxKeys THEN page[i - 1]
                ELSE Append(page[i - 1], [key |-> i, etag |-> b[i]])]

\* An object that there is may be listed.
LEMMA ListMoreType ==
    ASSUME NEW b \in Filled, NEW i \in DOMAIN Keys, NEW l \in ListsOf(b)
    PROVE  ListMore(b, i, l) \in ListsOf(b)
<1>1. CASE b[i] = Missing \/ Len(l) = MaxKeys
  BY <1>1 DEF ListMore
<1>2. CASE ~(b[i] = Missing \/ Len(l) = MaxKeys)
  <2> DEFINE object == [key |-> i, etag |-> b[i]]
             more == Append(l, object)
  <2>1. object \in Objects /\ object.key = i /\ object.etag = b[i]
    BY <1>2 DEF Objects, Filled
  <2> HIDE DEF object
  <2>2. l \in Seq(Objects) /\ \A n \in 1..Len(l) : b[l[n].key] = l[n].etag
    BY DEF ListsOf
  <2>3. /\ more \in Seq(Objects) /\ DOMAIN more = 1..(Len(l) + 1)
        /\ more[Len(l) + 1] = object /\ \A n \in 1..Len(l) : more[n] = l[n]
    BY <2>1, <2>2
  <2> HIDE DEF more
  <2>4. \A n \in DOMAIN more : b[more[n].key] = more[n].etag
    BY <2>1, <2>2, <2>3
  <2>5. ListMore(b, i, l) = more
    BY <1>2 DEF ListMore, more, object
  <2> QED
    BY <2>3, <2>4, <2>5 DEF ListsOf
<1> QED
  BY <1>1, <1>2

\* What is listed is in the bucket, with the ETag it has there.
LEMMA ListingType ==
    ASSUME NEW b \in Filled
    PROVE  Listing(b) \in ListsOf(b)
<1> DEFINE N == Len(Keys)
           S == ListsOf(b)
           step == [i \in 1..N |-> [l \in S |-> ListMore(b, i, l)]]
           page == CHOOSE p : Pages(p, b)
           none == <<>>
<1>1. N \in Nat /\ DOMAIN Keys = 1..N
  BY BucketAssumption
<1>2. none \in S
  BY DEF ListsOf
<1>3. step \in [1..N -> [S -> S]]
  BY <1>1, ListMoreType
<1>4. \A i \in 1..N, l \in S : step[i][l] = ListMore(b, i, l)
  OBVIOUS
<1> HIDE DEF N, S, step, none
<1>5. PICK f \in [0..N -> S] : f[0] = none /\ \A n \in 1..N : f[n] = step[n][f[n - 1]]
  BY <1>1, <1>2, <1>3, Steps, SMTT(30)
<1>6. Pages(f, b)
  <2>1. \A i \in 0..N : i # 0 => i \in 1..N /\ i - 1 \in 0..N
    BY <1>1
  <2>2. \A i \in 0..N : i # 0 => f[i] = ListMore(b, i, f[i - 1])
    BY <1>4, <1>5, <2>1
  <2>3. f = [i \in 0..N |-> IF i = 0 THEN none ELSE ListMore(b, i, f[i - 1])]
    <3>1. f = [i \in 0..N |-> f[i]]
      OBVIOUS
    <3>2. \A i \in 0..N : f[i] = IF i = 0 THEN none ELSE ListMore(b, i, f[i - 1])
      BY <1>5, <2>2
    <3> QED
      BY <3>1, <3>2, Zenon
  <2> QED
    BY <2>3, Zenon DEF Pages, ListMore, N, none
<1>7. Pages(page, b)
  BY <1>6
<1> HIDE DEF page
<1>8. page[0] = none /\ \A i \in 1..N : page[i] = ListMore(b, i, page[i - 1])
  <2>1. page = [i \in 0..N |-> IF i = 0 THEN none ELSE ListMore(b, i, page[i - 1])]
    BY <1>7, Zenon DEF Pages, ListMore, N, none
  <2>2. 0 \in 0..N /\ \A i \in 1..N : i \in 0..N /\ i # 0
    BY <1>1
  <2>3. \A i \in 0..N : page[i] = IF i = 0 THEN none ELSE ListMore(b, i, page[i - 1])
    BY <2>1, Zenon
  <2> QED
    BY <2>2, <2>3
<1>9. page[N] \in S
  <2> DEFINE P == {i \in 0..N : page[i] \in S}
  <2>1. 0 \in P
    BY <1>1, <1>2, <1>8
  <2>2. ASSUME NEW i \in 1..N, i - 1 \in P PROVE i \in P
    <3>1. ListMore(b, i, page[i - 1]) \in S
      BY <1>1, <2>2, ListMoreType DEF S
    <3> QED
      BY <1>1, <1>8, <3>1
  <2>3. P = 0..N
    <3>1. P \in SUBSET (0..N)
      OBVIOUS
    <3> HIDE DEF P
    <3> QED
      BY <1>1, <2>1, <2>2, <3>1, Upwards
  <2> QED
    BY <1>1, <2>3
<1>10. Listing(b) = page[N]
  BY DEF Listing, page, Pages, N
<1> QED
  BY <1>9, <1>10 DEF S

-----------------------------------------------------------------------------
(* The bucket: its invariant                                               *)

\* What is fetched is what the list says, unless the bucket has changed.
FetchInv ==
    at = "get" /\ ~dirty =>
        /\ list \in ListsOf(bucket)
        /\ \A n \in DOMAIN fetched : fetched[n] = list[n].etag

BucketInv ==
    /\ BucketTypeOK
    /\ bucket \in Filled
    /\ FetchInv
    /\ FiledRight

\* Nothing has been listed at first.
LEMMA InitBucketInv == BucketInit => BucketInv
<1> SUFFICES ASSUME BucketInit PROVE BucketInv
  OBVIOUS
<1>1. bucket \in Filled /\ DOMAIN bucket = DOMAIN Keys /\ IsBucket(bucket)
  BY DEF BucketInit, Filled
<1>2. /\ list \in Seq(Objects) /\ fetched \in Seq(AllContents)
      /\ Len(fetched) <= Len(list) /\ cachedRead \in Seq(AllContents)
      /\ merged.s3 \in Seq(AllContents)
      /\ merged.other \in Others \cup {Nil}
  BY DEF BucketInit, NothingMerged
<1>3. BucketTypeOK
  BY <1>1, <1>2 DEF BucketInit, BucketTypeOK, Objects
<1> QED
  BY <1>1, <1>3 DEF BucketInit, BucketInv, FetchInv, FiledRight

\* An edit of the bucket leaves what is fetched under it marked.
LEMMA WriteBucketInv ==
    ASSUME BucketInv, NEW i \in DOMAIN Keys,
           NEW content \in Contents[i] \cup {Missing}, Write(i, content)
    PROVE  BucketInv'
<1>1. BucketTypeOK /\ bucket \in Filled /\ FetchInv /\ FiledRight
  BY DEF BucketInv
<1>2. content \in AllContents \cup {Missing}
  BY DEF AllContents
<1>3. bucket' \in Filled
  BY <1>1, <1>2 DEF Write, Filled, IsBucket
<1>4. DOMAIN bucket' = DOMAIN Keys /\ IsBucket(bucket')
  BY <1>3 DEF Filled
<1>5. dirty' = (dirty \/ at = "get") /\ UNCHANGED <<other, at, list, fetched,
          cachedRead, cachedReadHash, mixed, merged>>
  BY DEF Write, cacheVars
<1>6. BucketTypeOK'
  <2>1. dirty' \in BOOLEAN
    BY <1>1, <1>5 DEF BucketTypeOK
  <2> QED
    BY <1>1, <1>4, <1>5, <2>1 DEF BucketTypeOK
<1>7. FetchInv' /\ FiledRight'
  BY <1>1, <1>5 DEF FetchInv, FiledRight
<1> QED
  BY <1>3, <1>6, <1>7 DEF BucketInv

\* A list is of the bucket as it is.
LEMMA ListBucketInv ==
    ASSUME BucketInv, ListObjects
    PROVE  BucketInv'
<1> DEFINE objects == Listing(bucket)
<1>1. BucketTypeOK /\ bucket \in Filled /\ FetchInv /\ FiledRight
  BY DEF BucketInv
<1>2. objects \in ListsOf(bucket) /\ objects \in Seq(Objects)
  BY <1>1, ListingType DEF ListsOf
<1>3. /\ at = "list" /\ UNCHANGED <<bucket, other, cachedRead, cachedReadHash, mixed, merged>>
      /\ \/ at' = "other" /\ UNCHANGED <<list, fetched, dirty>>
         \/ at' = "get" /\ list' = objects /\ fetched' = <<>> /\ dirty' = FALSE
  BY DEF ListObjects, cacheVars
<1> HIDE DEF objects
<1>4. /\ list' \in Seq(Objects) /\ fetched' \in Seq(AllContents)
      /\ Len(fetched') <= Len(list') /\ dirty' \in BOOLEAN /\ at' \in {"get", "other"}
  <2>1. CASE UNCHANGED <<list, fetched, dirty>>
    BY <1>1, <1>3, <2>1 DEF BucketTypeOK, Objects
  <2>2. CASE at' = "get" /\ list' = objects /\ fetched' = <<>> /\ dirty' = FALSE
    <3>1. fetched' \in Seq(AllContents) /\ list' \in Seq(Objects)
      BY <1>2, <2>2
    <3>2. Len(fetched') <= Len(list')
      BY <1>2, <2>2
    <3>3. dirty' \in BOOLEAN /\ at' \in {"get", "other"}
      BY <2>2
    <3> QED
      BY <3>1, <3>2, <3>3
  <2> QED
    BY <1>3, <2>1, <2>2
<1>5. BucketTypeOK'
  BY <1>1, <1>3, <1>4 DEF BucketTypeOK, Objects
<1>6. FetchInv'
  BY <1>2, <1>3 DEF FetchInv
<1> QED
  BY <1>1, <1>3, <1>5, <1>6 DEF BucketInv, FiledRight

\* An object that is fetched while the bucket is as it was listed is the one
\* that was listed.
LEMMA GetBucketInv ==
    ASSUME BucketInv, GetObject
    PROVE  BucketInv'
<1> DEFINE n == Len(fetched) + 1
           content == bucket[list[n].key]
<1>1. BucketTypeOK /\ bucket \in Filled /\ FetchInv /\ FiledRight
  BY DEF BucketInv
<1>2. /\ list \in Seq(Objects) /\ fetched \in Seq(AllContents)
      /\ Len(fetched) < Len(list) /\ n \in DOMAIN list /\ Len(fetched) \in Nat
      /\ list[n].key \in DOMAIN Keys
  <2>1. list \in Seq(Objects) /\ fetched \in Seq(AllContents)
    BY <1>1 DEF BucketTypeOK, Objects
  <2>2. Len(fetched) < Len(list)
    BY DEF GetObject
  <2>3. Len(fetched) \in Nat /\ n \in DOMAIN list
    BY <2>1, <2>2
  <2>4. list[n] \in Objects
    BY <2>1, <2>3
  <2> QED
    BY <2>1, <2>2, <2>3, <2>4 DEF Objects
<1>3. /\ content # Missing /\ at = "get" /\ fetched' = Append(fetched, content)
      /\ UNCHANGED <<bucket, other, at, list, cachedRead, cachedReadHash, mixed, merged, dirty>>
  BY DEF GetObject, Readable, Object, cacheVars
<1>4. content \in AllContents
  BY <1>1, <1>2, <1>3 DEF Filled
<1> HIDE DEF content, n
<1>5. /\ fetched' \in Seq(AllContents) /\ DOMAIN fetched' = 1..n
      /\ Len(fetched') <= Len(list) /\ fetched'[n] = content
      /\ \A k \in DOMAIN fetched : fetched'[k] = fetched[k]
      /\ \A k \in 1..n : k # n => k \in DOMAIN fetched
  BY <1>2, <1>3, <1>4 DEF n
<1>6. BucketTypeOK'
  BY <1>1, <1>3, <1>5 DEF BucketTypeOK
<1>7. FetchInv'
  <2> SUFFICES ASSUME ~dirty
               PROVE  /\ list \in ListsOf(bucket)
                      /\ \A k \in DOMAIN fetched' : fetched'[k] = list[k].etag
    BY <1>3 DEF FetchInv
  <2>1. list \in ListsOf(bucket) /\ \A k \in DOMAIN fetched : fetched[k] = list[k].etag
    BY <1>1, <1>3 DEF FetchInv
  <2>2. content = list[n].etag
    BY <1>2, <2>1 DEF ListsOf, content
  <2> QED
    BY <1>5, <2>1, <2>2
<1> QED
  BY <1>1, <1>3, <1>6, <1>7 DEF BucketInv, FiledRight

\* What is stored is filed under the ETags of its list.
LEMMA StoreBucketInv ==
    ASSUME BucketInv, StoreRead
    PROVE  BucketInv'
<1> DEFINE hash == Hash(list)
<1>1. BucketTypeOK /\ bucket \in Filled /\ FetchInv /\ FiledRight
  BY DEF BucketInv
<1>2. /\ at = "get" /\ Len(fetched) = Len(list) /\ at' = "other"
      /\ cachedRead' = fetched /\ cachedReadHash' = hash /\ mixed' = dirty
      /\ list' = <<>> /\ fetched' = <<>> /\ dirty' = FALSE
      /\ UNCHANGED <<bucket, other, merged>>
  BY DEF StoreRead, Forget
<1>3. list \in Seq(Objects) /\ fetched \in Seq(AllContents)
  BY <1>1 DEF BucketTypeOK, Objects
<1>4. /\ hash \in Seq(AllContents) /\ DOMAIN hash = DOMAIN list
      /\ \A n \in DOMAIN list : hash[n] = list[n].etag
  <2>1. DOMAIN list = 1..Len(list) /\ Len(list) \in Nat
    BY <1>3
  <2>2. ASSUME NEW n \in 1..Len(list) PROVE list[n].etag \in AllContents
    <3>1. list[n] \in Objects
      BY <1>3
    <3> QED
      BY <3>1 DEF Objects
  <2>3. hash = [n \in 1..Len(list) |-> list[n].etag]
    BY <2>1 DEF Hash
  <2> QED
    BY <2>1, <2>2, <2>3
<1>5. ~dirty => fetched = hash
  <2> HIDE DEF hash
  <2>1. Len(hash) = Len(list)
    BY <1>3, <1>4
  <2>2. ~dirty => \A n \in 1..Len(fetched) : fetched[n] = hash[n]
    BY <1>1, <1>2, <1>3, <1>4 DEF FetchInv
  <2> QED
    BY <1>2, <1>3, <1>4, <2>1, <2>2, SeqEqual
<1> HIDE DEF hash
<1>6. BucketTypeOK'
  <2>1. list' \in Seq(Objects) /\ fetched' \in Seq(AllContents) /\ Len(fetched') <= Len(list')
    BY <1>2
  <2> QED
    BY <1>1, <1>2, <1>3, <1>4, <2>1 DEF BucketTypeOK, Objects
<1>7. FetchInv' /\ FiledRight'
  BY <1>2, <1>5 DEF FetchInv, FiledRight
<1> QED
  BY <1>1, <1>2, <1>6, <1>7 DEF BucketInv

\* A read that ends without storing anything leaves the cache as it is.
LEMMA ForgetBucketInv ==
    ASSUME BucketInv, at' = "idle", Forget,
           UNCHANGED <<bucket, other, cacheVars, merged>>
    PROVE  BucketInv'
<1>1. BucketTypeOK /\ bucket \in Filled /\ FiledRight
  BY DEF BucketInv
<1>2. /\ list' \in Seq(Objects) /\ fetched' \in Seq(AllContents)
      /\ Len(fetched') <= Len(list') /\ dirty' = FALSE
  BY DEF Forget
<1>3. BucketTypeOK'
  BY <1>1, <1>2 DEF BucketTypeOK, cacheVars, Objects
<1> QED
  BY <1>1, <1>3 DEF BucketInv, FetchInv, FiledRight, cacheVars

\* Every step keeps the invariant.
LEMMA StepBucketInv == BucketInv /\ [BucketNext]_bucketVars => BucketInv'
<1> SUFFICES ASSUME BucketInv, [BucketNext]_bucketVars PROVE BucketInv'
  OBVIOUS
<1>0. BucketTypeOK /\ bucket \in Filled /\ FetchInv /\ FiledRight
  BY DEF BucketInv
<1>1. ASSUME NEW i \in DOMAIN Keys, PutObject(i) \/ DeleteObject(i)
      PROVE  BucketInv'
  BY <1>1, WriteBucketInv DEF PutObject, DeleteObject
<1>2. CASE OtherChanges
  BY <1>0, <1>2 DEF OtherChanges, cacheVars, BucketInv, BucketTypeOK,
     FetchInv, FiledRight
<1>3. CASE Tick
  BY <1>0, <1>3 DEF Tick, cacheVars, BucketInv, BucketTypeOK,
     FetchInv, FiledRight
<1>4. CASE ReadOther
  <2>1. /\ merged'.s3 = cachedRead /\ merged'.other = other
        /\ UNCHANGED <<bucket, other, list, fetched, cachedRead, cachedReadHash, mixed, dirty>>
        /\ at' = "idle"
    BY <1>4 DEF ReadOther, cacheVars
  <2>2. BucketTypeOK'
    BY <1>0, <2>1 DEF BucketTypeOK
  <2> QED
    BY <1>0, <2>1, <2>2 DEF BucketInv, FetchInv, FiledRight
<1>5. CASE OtherFails
  BY <1>0, <1>5 DEF OtherFails, cacheVars, BucketInv, BucketTypeOK,
     FetchInv, FiledRight
<1>6. CASE GetFails \/ RequestFails
  BY <1>6, ForgetBucketInv DEF GetFails, RequestFails
<1>7. CASE UNCHANGED bucketVars
  BY <1>0, <1>7 DEF bucketVars, BucketInv, BucketTypeOK, FetchInv, FiledRight
<1> QED
  BY <1>1, <1>2, <1>3, <1>4, <1>5, <1>6, <1>7, ListBucketInv, GetBucketInv, StoreBucketInv
     DEF BucketNext, EditBucket, Read

-----------------------------------------------------------------------------
(* Docker: what a read has got, and what there was                         *)

Places == {"none", "new", "pending"} \cup Nodes

Marks == {0} \cup Lives

\* TypeOK, and where each function is defined.  Nothing that was read is kept for
\* the next read, and the inspect is the last call of a read.
DockerType ==
    /\ network \in NetworkNames
    /\ nodes \subseteq Nodes /\ services \subseteq Services
    /\ task \in [Tasks -> Places]
    /\ life \in [Containers -> Marks]
    /\ changes \in 0..MaxChanges
    /\ pc \in {"idle"} \cup Calls \cup Ends
    /\ got \in [tasks : [Tasks -> Places], services : SUBSET Services, nodes : SUBSET Nodes,
                containers : [Containers -> Marks], inspect : SUBSET [Containers -> Marks]]
    /\ got.inspect = {} \/ \E inspected \in [Containers -> Marks] : got.inspect = {inspected}
    /\ pc \notin Ends => got.inspect = {}
    /\ pc = "idle" => got = NothingRead
    /\ result # {} => pc = "ok"
    /\ orphaned \in BOOLEAN

\* All tasks that the read has got are on nodes that there were.
OrphanInv ==
    /\ pc = "node missing" => NodeMissing
    /\ ~orphaned =>
          /\ pc = "tasks" => \A t \in Tasks : task[t] \in Nodes => task[t] \in nodes
          /\ pc \in {"services", "nodes"} =>
                \A t \in Tasks : got.tasks[t] \in Nodes => got.tasks[t] \in nodes
          /\ pc = "node missing" =>
                \A t \in Tasks : got.tasks[t] \in Nodes => got.tasks[t] \in got.nodes

\* The networks that a container may have an address in.
NetworksOf(c) == About[c].networks \cup IF About[c].gwbridge THEN {"docker_gwbridge"} ELSE {}

AddressIn(c, net, mark) == IF net = "host" THEN Loopback ELSE AddressOf(c, net, mark)

\* The addresses that marks give to containers.
MarkedSeen(marks) ==
    \A c \in Containers : \A net \in NetworksOf(c) :
        marks[c] # 0 => AddressIn(c, net, marks[c]) \in seen

\* The addresses that the read has got were there.
SeenInv ==
    /\ pc \in Calls => Addresses \subseteq seen
    /\ \A t \in Tasks : got.tasks[t] \notin {"none", "new"} /\ network \in Attached[ServiceOf[t]]
                            => [of |-> t, net |-> network, mark |-> 1] \in seen
    /\ MarkedSeen(got.containers)
    /\ \A inspected \in got.inspect : MarkedSeen(inspected)

WantedTask(t, n) ==
    Wanted("task", ServiceOf[t], Labels[ServiceOf[t]], [of |-> t, net |-> n, mark |-> 1])

WantedContainer(c, net, mark) ==
    Wanted("container", ServiceName(c), Labels[c], AddressOf(c, net, mark))

\* The networks in which a container is wanted when network n is asked for.
WantedNets(c, n) ==
    {net \in About[c].networks \ {"host"} : \/ net = n
                                            \/ n = "_auto_" /\ About[c].networks = {net}}
        \cup IF n = "docker_gwbridge" /\ About[c].gwbridge
                /\ About[c].networks \cap {"bridge", "host"} = {}
             THEN {n} ELSE {}

\* w is a container that the marks say to run.
MarkedWanted(w, marks, n) ==
    \E c \in Containers : \E net \in WantedNets(c, n) :
        marks[c] # 0 /\ About[c].name # Empty /\ w = WantedContainer(c, net, marks[c])

\* What is wanted all through a read is in what each of its calls has returned.
ThroughInv ==
    /\ pc \in Calls => through \subseteq WantedNow
    /\ \A w \in through : w.as \in {"task", "container"}
    /\ pc \in {"services", "nodes", "containers", "inspect", "ok"} =>
          \A w \in through : w.as = "task" =>
              \E t \in Tasks : /\ w = WantedTask(t, network)
                               /\ network \in Attached[ServiceOf[t]]
                               /\ got.tasks[t] \in Nodes
    /\ pc \in {"nodes", "containers", "inspect", "ok"} =>
          \A w \in through : w.as = "task" => w.name \in got.services
    /\ pc \in {"inspect", "ok"} =>
          \A w \in through : w.as = "container" => MarkedWanted(w, got.containers, network)
    /\ pc = "ok" =>
          \A w \in through, inspected \in got.inspect :
              w.as = "container" => MarkedWanted(w, inspected, network)

\* A read that has succeeded needed nothing more.
ResultInv == pc = "ok" => result = Applications /\ ~NeedsInspect

DockerInv == DockerType /\ OrphanInv /\ SeenInv /\ ThroughInv /\ ResultInv

\* The addresses and what is wanted depend on Docker and the network only.
LEMMA DockerAsItWas ==
    ASSUME UNCHANGED <<network, nodes, services, task, life>>
    PROVE  Addresses' = Addresses /\ WantedNow' = WantedNow
  BY DEF Addresses, WantedNow, TaskAddress

\* What is wanted is a task or a container.
LEMMA WantedCases ==
    ASSUME NEW w \in WantedNow
    PROVE  \/ \E t \in Tasks : /\ task[t] \in nodes /\ ServiceOf[t] \in services
                               /\ network \in Attached[ServiceOf[t]]
                               /\ w = WantedTask(t, network)
           \/ MarkedWanted(w, life, network)
<1> DEFINE T == {u \in Tasks : /\ task[u] \in nodes
                               /\ ServiceOf[u] \in services
                               /\ network \in Attached[ServiceOf[u]]}
           C == {d \in Containers : life[d] # 0 /\ About[d].name # Empty}
<1>1. \/ w \in {WantedTask(t, network) : t \in T}
      \/ w \in UNION {{WantedContainer(c, net, life[c]) : net \in WantedNets(c, network)} : c \in C}
  BY DEF WantedNow, WantedTask, WantedContainer, WantedNets, TaskAddress
<1>2. CASE w \in {WantedTask(t, network) : t \in T}
  BY <1>2
<1>3. CASE w \in UNION {{WantedContainer(c, net, life[c]) : net \in WantedNets(c, network)} :
                        c \in C}
  <2>1. PICK c \in C : w \in {WantedContainer(c, net, life[c]) : net \in WantedNets(c, network)}
    BY <1>3
  <2> QED
    BY <2>1 DEF MarkedWanted
<1> QED
  BY <1>1, <1>2, <1>3

\* A container that runs has the addresses of its networks.
LEMMA LifeSeen ==
    ASSUME NEW c \in Containers, life[c] # 0, NEW net \in NetworksOf(c)
    PROVE  AddressIn(c, net, life[c]) \in Addresses
<1> DEFINE C == {d \in Containers : life[d] # 0}
<1>1. AddressIn(c, net, life[c]) \in
          UNION {{AddressIn(d, n, life[d]) : n \in NetworksOf(d)} : d \in C}
  OBVIOUS
<1> QED
  BY <1>1 DEF Addresses, AddressIn, NetworksOf

\* At first nothing is read.
LEMMA InitDockerInv == Init => DockerInv
<1> SUFFICES ASSUME Init PROVE DockerInv
  OBVIOUS
<1>1. DockerType
  <2>1. task \in [Tasks -> Places] /\ services \subseteq Services /\ nodes \subseteq Nodes
    BY DEF Init, Places
  <2>2. (CHOOSE mark \in Lives : TRUE) \in Lives
    BY DockerAssumption
  <2>3. life \in [Containers -> Marks]
    BY <2>2 DEF Init, Marks
  <2>4. got = NothingRead /\ changes \in 0..MaxChanges
    BY DockerAssumption DEF Init
  <2>5. NothingRead \in [tasks : [Tasks -> Places], services : SUBSET Services,
                         nodes : SUBSET Nodes, containers : [Containers -> Marks],
                         inspect : SUBSET [Containers -> Marks]]
    BY DEF NothingRead, Places, Marks
  <2>6. got.inspect = {}
    BY <2>4 DEF NothingRead
  <2> QED
    BY <2>1, <2>3, <2>4, <2>5, <2>6 DEF Init, DockerType
<1>2. OrphanInv /\ ThroughInv /\ ResultInv
  BY DEF Init, OrphanInv, ThroughInv, ResultInv, Calls
<1>3. SeenInv
  BY DockerAssumption DEF Init, SeenInv, Calls, NothingRead, MarkedSeen
<1> QED
  BY <1>1, <1>2, <1>3 DEF DockerInv

\* What the applications are made of is what the read has got.
LEMMA ReadAsItWas ==
    ASSUME UNCHANGED <<network, got>>
    PROVE  Applications' = Applications /\ NeedsInspect' = NeedsInspect /\ NodeMissing' = NodeMissing
<1>1. Listed' = Listed /\ (\A c : ContainerAddress(c)' = ContainerAddress(c))
  BY DEF Listed, ContainerAddress, ListedAddress
<1>2. \A c : InspectedAddress(c)' = InspectedAddress(c)
  BY <1>1 DEF InspectedAddress
<1>3. \A s : Placed(s)' = Placed(s)
  BY DEF Placed
<1>4. SwarmServices' = SwarmServices
  BY <1>3 DEF SwarmServices, TaskAddress
<1>5. BareContainers' = BareContainers
  BY <1>1, <1>2, <1>4 DEF BareContainers
<1> QED
  BY <1>1, <1>3, <1>4, <1>5 DEF Applications, NeedsInspect, NodeMissing

\* What changes in Docker during a read is accounted for.
LEMMA ChangeDockerInv ==
    ASSUME DockerInv, Docker
    PROVE  DockerInv'
<1>1. DockerType /\ OrphanInv /\ SeenInv /\ ThroughInv /\ ResultInv
  BY DEF DockerInv
<1>2. UNCHANGED <<network, pc, got, result>>
  BY DEF Docker, NodeChanges, ServiceChanges, TaskChanges, ContainerChanges, Change, readVars
<1>0. MaxChanges \in Nat /\ changes \in 0..MaxChanges /\ (Change => changes' \in 0..MaxChanges)
  <2>1. MaxChanges \in Nat /\ changes \in 0..MaxChanges
    BY <1>1, DockerAssumption DEF DockerType
  <2> QED
    BY <2>1 DEF Change
<1>3. /\ nodes' \subseteq Nodes /\ services' \subseteq Services
      /\ task' \in [Tasks -> Places] /\ life' \in [Containers -> Marks]
      /\ changes' \in 0..MaxChanges
      /\ \A t \in Tasks : task'[t] \in Nodes => task'[t] = task[t] \/ task'[t] \in nodes'
      /\ Observe
  <2>1. CASE NodeChanges
    <3>1. nodes' \subseteq Nodes /\ UNCHANGED <<services, task, life>> /\ Change /\ Observe
      BY <1>1, <2>1 DEF NodeChanges, DockerType
    <3> QED
      BY <1>0, <1>1, <3>1 DEF DockerType
  <2>2. CASE ServiceChanges
    <3>1. services' \subseteq Services /\ UNCHANGED <<nodes, task, life>> /\ Change /\ Observe
      BY <1>1, <2>2 DEF ServiceChanges, DockerType
    <3> QED
      BY <1>0, <1>1, <3>1 DEF DockerType
  <2>3. ASSUME NEW t \in Tasks, TaskChanges(t)
        PROVE  /\ task' \in [Tasks -> Places] /\ UNCHANGED <<nodes, services, life>>
               /\ changes' \in 0..MaxChanges /\ Observe
               /\ \A u \in Tasks : task'[u] \in Nodes => task'[u] = task[u] \/ task'[u] \in nodes'
    <3>1. \E place \in {"none", "new", "pending"} \cup nodes : task' = [task EXCEPT ![t] = place]
      BY <2>3 DEF TaskChanges
    <3>2. PICK place \in {"none", "new", "pending"} \cup nodes : task' = [task EXCEPT ![t] = place]
      BY <3>1
    <3>3. place \in Places /\ (place \in Nodes => place \in nodes)
      BY <1>1, DockerAssumption DEF DockerType, Places
    <3>4. UNCHANGED <<nodes, services, life>> /\ changes' \in 0..MaxChanges /\ Observe
      BY <1>0, <2>3 DEF TaskChanges
    <3> QED
      BY <1>1, <3>2, <3>3, <3>4 DEF DockerType
  <2>4. ASSUME NEW c \in Containers, ContainerChanges(c)
        PROVE  /\ life' \in [Containers -> Marks] /\ UNCHANGED <<nodes, services, task>>
               /\ changes' \in 0..MaxChanges /\ Observe
    <3>1. UNCHANGED <<nodes, services, task>> /\ Change /\ Observe
      BY <2>4 DEF ContainerChanges
    <3>2. \E mark \in Marks : life' = [life EXCEPT ![c] = mark]
      BY <2>4 DEF ContainerChanges, Marks
    <3>3. life' \in [Containers -> Marks]
      BY <1>1, <3>2 DEF DockerType
    <3> QED
      BY <1>0, <3>1, <3>3
  <2> QED
    BY <1>1, <2>1, <2>2, <2>3, <2>4 DEF Docker, DockerType
<1>4. CASE pc \in Calls
  <2>1. /\ through' = through \cap WantedNow' /\ seen' = seen \cup Addresses'
        /\ orphaned' = (orphaned \/ ~(nodes \subseteq nodes'))
    BY <1>3, <1>4 DEF Observe, Calls, Ends
  <2>2. DockerType'
    BY <1>1, <1>2, <1>3, <2>1 DEF DockerType
  <2>3. OrphanInv'
    BY <1>1, <1>2, <1>3, <1>4, <2>1 DEF OrphanInv, Calls, DockerType
  <2>4. SeenInv'
    BY <1>1, <1>2, <2>1 DEF SeenInv, MarkedSeen
  <2>5. ThroughInv'
    BY <1>1, <1>2, <1>4, <2>1 DEF ThroughInv, Calls
  <2> QED
    BY <1>2, <1>4, <2>2, <2>3, <2>4, <2>5 DEF DockerInv, ResultInv, Calls
<1>5. CASE pc \notin Calls
  <2>1. UNCHANGED <<through, seen, orphaned>>
    BY <1>1, <1>3, <1>5 DEF Observe, history, DockerType
  <2>2. DockerType'
    BY <1>1, <1>2, <1>3, <2>1 DEF DockerType
  <2>3. OrphanInv'
    BY <1>1, <1>2, <1>5, <2>1, ReadAsItWas DEF OrphanInv, Calls
  <2>4. SeenInv'
    BY <1>1, <1>2, <1>5, <2>1 DEF SeenInv, MarkedSeen
  <2>5. ThroughInv'
    BY <1>1, <1>2, <1>5, <2>1 DEF ThroughInv
  <2>6. ResultInv'
    BY <1>1, <1>2, ReadAsItWas DEF ResultInv
  <2> QED
    BY <2>2, <2>3, <2>4, <2>5, <2>6 DEF DockerInv
<1> QED
  BY <1>4, <1>5

\* A read begins with what there is.
LEMMA StartDockerInv ==
    ASSUME DockerInv, Start
    PROVE  DockerInv'
<1>1. DockerType /\ OrphanInv /\ SeenInv /\ ThroughInv /\ ResultInv
  BY DEF DockerInv
<1>2. /\ pc = "idle" /\ pc' = "tasks"
      /\ through' = WantedNow /\ seen' = Addresses /\ orphaned' = Orphaned
      /\ UNCHANGED <<network, nodes, services, task, life, changes, got, result>>
  BY DEF Start, After, dockerVars
<1>3. WantedNow' = WantedNow /\ Addresses' = Addresses
  BY <1>2, DockerAsItWas
<1>4. DockerType'
  BY <1>1, <1>2 DEF DockerType, Calls, Ends, Orphaned
<1>5. OrphanInv'
  BY <1>2 DEF OrphanInv, Orphaned
<1>6. ThroughInv'
  <2>1. \A w \in WantedNow : w.as \in {"task", "container"}
    BY WantedCases DEF MarkedWanted, WantedTask, WantedContainer, Wanted
  <2> QED
    BY <1>2, <1>3, <2>1 DEF ThroughInv
<1>7. SeenInv'
  BY <1>1, <1>2, <1>3 DEF SeenInv, MarkedSeen, NothingRead, DockerType
<1> QED
  BY <1>2, <1>4, <1>5, <1>6, <1>7 DEF DockerInv, ResultInv

\* The answers to the three calls of Swarm.
LEMMA SwarmDockerInv ==
    ASSUME DockerInv, CallSwarm
    PROVE  DockerInv'
<1>1. DockerType /\ OrphanInv /\ SeenInv /\ ThroughInv /\ ResultInv
  BY DEF DockerInv
<1>2. UNCHANGED <<network, nodes, services, task, life, changes, result, through, seen, orphaned>>
  BY DEF CallSwarm, dockerVars, history
<1>3. WantedNow' = WantedNow /\ Addresses' = Addresses
  BY <1>2, DockerAsItWas
<1>4. pc \in Calls => Addresses \subseteq seen /\ through \subseteq WantedNow
  BY <1>1 DEF SeenInv, ThroughInv
<1>5. CASE pc = "tasks"
  <2>1. got' = [got EXCEPT !.tasks = task] /\ pc' = "services"
    BY <1>5 DEF CallSwarm, After
  <2>2. /\ got'.tasks = task /\ got'.services = got.services /\ got'.nodes = got.nodes
        /\ got'.containers = got.containers /\ got'.inspect = got.inspect
    BY <1>1, <2>1 DEF DockerType
  <2>3. DockerType'
    BY <1>1, <1>2, <1>5, <2>1, <2>2 DEF DockerType, Calls, Ends
  <2>4. OrphanInv'
    BY <1>1, <1>2, <1>5, <2>1, <2>2 DEF OrphanInv
  <2>5. SeenInv'
    <3>1. \A t \in Tasks : task[t] \notin {"none", "new"} /\ network \in Attached[ServiceOf[t]]
              => [of |-> t, net |-> network, mark |-> 1] \in Addresses
      BY DEF Addresses, TaskAddress
    <3> QED
      BY <1>1, <1>2, <1>3, <1>4, <1>5, <2>1, <2>2, <3>1 DEF SeenInv, MarkedSeen, Calls
  <2>6. ThroughInv'
    <3>1. ASSUME NEW w \in through, w.as = "task"
          PROVE  \E t \in Tasks : /\ w = WantedTask(t, network)
                                  /\ network \in Attached[ServiceOf[t]]
                                  /\ task[t] \in Nodes
      <4>1. w \in WantedNow
        BY <1>4, <1>5 DEF Calls
      <4>2. ~MarkedWanted(w, life, network)
        BY <3>1 DEF MarkedWanted, WantedContainer, Wanted
      <4> QED
        BY <1>1, <4>1, <4>2, WantedCases DEF DockerType
    <3> QED
      BY <1>1, <1>2, <1>3, <1>4, <1>5, <2>1, <2>2, <3>1 DEF ThroughInv, Calls
  <2> QED
    BY <2>1, <2>3, <2>4, <2>5, <2>6 DEF DockerInv, ResultInv
<1>6. CASE pc = "services"
  <2>1. got' = [got EXCEPT !.services = services] /\ pc' = "nodes"
    BY <1>6 DEF CallSwarm, After
  <2>2. /\ got'.tasks = got.tasks /\ got'.services = services /\ got'.nodes = got.nodes
        /\ got'.containers = got.containers /\ got'.inspect = got.inspect
    BY <1>1, <2>1 DEF DockerType
  <2>3. DockerType'
    BY <1>1, <1>2, <1>6, <2>1, <2>2 DEF DockerType, Calls, Ends
  <2>4. OrphanInv'
    BY <1>1, <1>2, <1>6, <2>1, <2>2 DEF OrphanInv
  <2>5. SeenInv'
    BY <1>1, <1>2, <1>3, <1>4, <1>6, <2>1, <2>2 DEF SeenInv, MarkedSeen, Calls
  <2>6. ThroughInv'
    <3>1. ASSUME NEW w \in through, w.as = "task" PROVE w.name \in services
      <4>1. w \in WantedNow
        BY <1>4, <1>6 DEF Calls
      <4>2. ~MarkedWanted(w, life, network)
        BY <3>1 DEF MarkedWanted, WantedContainer, Wanted
      <4>3. PICK t \in Tasks : ServiceOf[t] \in services /\ w = WantedTask(t, network)
        BY <4>1, <4>2, WantedCases
      <4> QED
        BY <4>3 DEF WantedTask, Wanted
    <3> QED
      BY <1>1, <1>2, <1>3, <1>4, <1>6, <2>1, <2>2, <3>1 DEF ThroughInv, Calls
  <2> QED
    BY <2>1, <2>3, <2>4, <2>5, <2>6 DEF DockerInv, ResultInv
<1>7. CASE pc = "nodes"
  <2>1. /\ got' = [got EXCEPT !.nodes = nodes]
        /\ pc' \in {"no address", "node missing", "containers"}
        /\ pc' = "node missing" => NodeMissing'
    BY <1>7 DEF CallSwarm, After
  <2>2. /\ got'.tasks = got.tasks /\ got'.services = got.services /\ got'.nodes = nodes
        /\ got'.containers = got.containers /\ got'.inspect = got.inspect
    BY <1>1, <2>1 DEF DockerType
  <2>3. DockerType'
    BY <1>1, <1>2, <1>7, <2>1, <2>2 DEF DockerType, Calls, Ends
  <2>4. OrphanInv'
    BY <1>1, <1>2, <1>7, <2>1, <2>2 DEF OrphanInv
  <2>5. SeenInv'
    <3>1. Addresses' \subseteq seen'
      BY <1>2, <1>3, <1>4, <1>7 DEF Calls
    <3> QED
      BY <1>1, <1>2, <2>2, <3>1 DEF SeenInv, MarkedSeen
  <2>6. ThroughInv'
    BY <1>1, <1>2, <1>3, <1>4, <1>7, <2>1, <2>2 DEF ThroughInv, Calls
  <2> QED
    BY <2>1, <2>3, <2>4, <2>5, <2>6 DEF DockerInv, ResultInv
<1> QED
  BY <1>5, <1>6, <1>7 DEF CallSwarm

\* The answer to the list of containers, and to the inspect.
LEMMA ContainersDockerInv ==
    ASSUME DockerInv, CallContainers
    PROVE  DockerInv'
<1>1. DockerType /\ OrphanInv /\ SeenInv /\ ThroughInv /\ ResultInv
  BY DEF DockerInv
<1>2. UNCHANGED <<network, nodes, services, task, life, changes, through, seen, orphaned>>
  BY DEF CallContainers, dockerVars, history
<1>3. /\ WantedNow' = WantedNow /\ Addresses' = Addresses
      /\ pc \in Calls /\ Addresses \subseteq seen /\ through \subseteq WantedNow
  BY <1>1, <1>2, DockerAsItWas DEF SeenInv, ThroughInv, CallContainers, Calls
<1>4. \/ NeedsInspect' /\ pc' = "inspect" /\ UNCHANGED result
      \/ ~NeedsInspect' /\ pc' = "ok" /\ result' = Applications'
  BY DEF CallContainers
<1>5. /\ got'.tasks = got.tasks /\ got'.services = got.services /\ got'.nodes = got.nodes
      /\ \/ pc = "containers" /\ got'.containers = life /\ got'.inspect = {}
         \/ /\ pc = "inspect" /\ got'.containers = got.containers /\ got'.inspect = {life}
            /\ pc' = "ok"
      /\ got' \in [tasks : [Tasks -> Places], services : SUBSET Services,
                   nodes : SUBSET Nodes, containers : [Containers -> Marks],
                   inspect : SUBSET [Containers -> Marks]]
  <2>1. CASE pc = "containers"
    <3>1. got' = [got EXCEPT !.containers = life] /\ got.inspect = {}
      BY <1>1, <2>1 DEF CallContainers, DockerType, Ends
    <3> QED
      BY <1>1, <2>1, <3>1 DEF DockerType
  <2>2. CASE pc = "inspect"
    <3>1. got' = [got EXCEPT !.inspect = {life}]
      BY <2>2 DEF CallContainers
    <3>2. /\ got'.inspect = {life} /\ got'.containers = got.containers
          /\ got'.tasks = got.tasks /\ got'.services = got.services /\ got'.nodes = got.nodes
          /\ got' \in [tasks : [Tasks -> Places], services : SUBSET Services,
                       nodes : SUBSET Nodes, containers : [Containers -> Marks],
                       inspect : SUBSET [Containers -> Marks]]
      BY <1>1, <3>1 DEF DockerType
    <3>3. ~NeedsInspect'
      BY <3>2 DEF NeedsInspect
    <3> QED
      BY <1>4, <2>2, <3>2, <3>3
  <2> QED
    BY <2>1, <2>2 DEF CallContainers
<1>6. DockerType'
  <2>1. got'.inspect = {} \/ \E i \in [Containers -> Marks] : got'.inspect = {i}
    BY <1>1, <1>5 DEF DockerType
  <2>2. pc' \notin Ends => got'.inspect = {}
    BY <1>4, <1>5 DEF Ends
  <2>3. pc' # "idle" /\ pc' \in {"idle"} \cup Calls \cup Ends
    BY <1>4 DEF Calls, Ends
  <2>4. result' # {} => pc' = "ok"
    BY <1>1, <1>3, <1>4 DEF DockerType, Calls
  <2> QED
    BY <1>1, <1>2, <1>5, <2>1, <2>2, <2>3, <2>4 DEF DockerType
<1>7. OrphanInv'
  BY <1>4 DEF OrphanInv
<1>8. SeenInv'
  <2>1. MarkedSeen(life)
    BY <1>3, LifeSeen DEF MarkedSeen
  <2>2. MarkedSeen(got'.containers) /\ \A inspected \in got'.inspect : MarkedSeen(inspected)
    BY <1>1, <1>5, <2>1 DEF SeenInv
  <2>3. MarkedSeen(got.containers)' /\ \A inspected \in got'.inspect : MarkedSeen(inspected)'
    BY <1>2, <2>2 DEF MarkedSeen
  <2> QED
    BY <1>1, <1>2, <1>3, <1>5, <2>3 DEF SeenInv
<1>9. ThroughInv'
  <2>1. ASSUME NEW w \in through, w.as = "container" PROVE MarkedWanted(w, life, network)
    <3>1. ~ \E t \in Tasks : w = WantedTask(t, network)
      BY <2>1 DEF WantedTask, Wanted
    <3> QED
      BY <1>3, <3>1, WantedCases
  <2>2. \A w \in through : w.as = "container" => MarkedWanted(w, got'.containers, network)
    BY <1>1, <1>5, <2>1 DEF ThroughInv
  <2>3. \A w \in through, inspected \in got'.inspect :
            w.as = "container" => MarkedWanted(w, inspected, network)
    BY <1>5, <2>1
  <2>4. pc \in {"containers", "inspect"} /\ pc' \in {"inspect", "ok"}
    BY <1>4, <1>5
  <2> QED
    BY <1>1, <1>2, <1>3, <1>5, <2>2, <2>3, <2>4 DEF ThroughInv
<1>10. ResultInv'
  BY <1>4 DEF ResultInv
<1> QED
  BY <1>6, <1>7, <1>8, <1>9, <1>10 DEF DockerInv

\* Every step keeps the invariant.
LEMMA StepDockerInv == DockerInv /\ [Next]_vars => DockerInv'
<1> SUFFICES ASSUME DockerInv, [Next]_vars PROVE DockerInv'
  OBVIOUS
<1>0. DockerType /\ OrphanInv /\ SeenInv /\ ThroughInv /\ ResultInv
  BY DEF DockerInv
<1>1. CASE CallFails
  <2>1. /\ pc \in Calls /\ pc' = "call failed"
        /\ UNCHANGED <<network, nodes, services, task, life, changes, got, result,
                       through, seen, orphaned>>
    BY <1>1 DEF CallFails, dockerVars, history
  <2>2. DockerType'
    BY <1>0, <2>1 DEF DockerType, Calls, Ends
  <2>3. OrphanInv' /\ ThroughInv' /\ ResultInv'
    BY <1>0, <2>1 DEF OrphanInv, ThroughInv, ResultInv, Calls
  <2>4. SeenInv'
    BY <1>0, <2>1 DEF SeenInv, MarkedSeen, Calls
  <2> QED
    BY <2>2, <2>3, <2>4 DEF DockerInv
<1>2. CASE Return
  <2>1. /\ pc' = "idle" /\ got' = NothingRead /\ result' = {} /\ through' = {} /\ seen' = {}
        /\ orphaned' = FALSE
        /\ UNCHANGED <<network, nodes, services, task, life, changes>>
    BY <1>2 DEF Return, dockerVars
  <2>2. /\ NothingRead.inspect = {} /\ NothingRead.tasks = [t \in Tasks |-> "none"]
        /\ NothingRead.containers = [c \in Containers |-> 0]
    BY DEF NothingRead
  <2>3. NothingRead \in [tasks : [Tasks -> Places], services : SUBSET Services,
                         nodes : SUBSET Nodes, containers : [Containers -> Marks],
                         inspect : SUBSET [Containers -> Marks]]
    BY DEF NothingRead, Places, Marks
  <2>4. got'.inspect = {} /\ NothingRead' = NothingRead
    BY <2>1, <2>2 DEF NothingRead
  <2>5. DockerType'
    BY <1>0, <2>1, <2>3, <2>4 DEF DockerType
  <2>6. OrphanInv' /\ ThroughInv' /\ ResultInv'
    BY <2>1 DEF OrphanInv, ThroughInv, ResultInv, Calls
  <2>7. SeenInv'
    BY <2>1, <2>2, <2>4 DEF SeenInv, MarkedSeen, Calls
  <2> QED
    BY <2>5, <2>6, <2>7 DEF DockerInv
<1>3. CASE UNCHANGED vars
  <2>1. UNCHANGED <<network, nodes, services, task, life, changes, pc, got, result,
                    through, seen, orphaned>>
    BY <1>3 DEF vars, dockerVars, readVars, history
  <2>2. /\ WantedNow' = WantedNow /\ Addresses' = Addresses
        /\ Applications' = Applications /\ NeedsInspect' = NeedsInspect /\ NodeMissing' = NodeMissing
    BY <2>1, DockerAsItWas, ReadAsItWas
  <2>3. DockerType' /\ OrphanInv' /\ ThroughInv' /\ ResultInv'
    BY <1>0, <2>1, <2>2, ZenonT(30) DEF DockerType, OrphanInv, ThroughInv, ResultInv
  <2>4. SeenInv'
    BY <1>0, <2>1, <2>2 DEF SeenInv, MarkedSeen
  <2> QED
    BY <2>3, <2>4 DEF DockerInv
<1> QED
  BY <1>1, <1>2, <1>3, ChangeDockerInv, StartDockerInv, SwarmDockerInv, ContainersDockerInv
     DEF Next

-----------------------------------------------------------------------------
(* Docker: what the applications are made of                               *)

\* A missing node is one that has left.
LEMMA MissingIsOrphaned == DockerInv => ReadsSurviveGrowth
<1> SUFFICES ASSUME DockerInv, pc = "node missing" PROVE orphaned
  BY DEF ReadsSurviveGrowth
<1>1. DockerType /\ OrphanInv
  BY DEF DockerInv
<1>2. PICK s \in got.services : \E t \in Placed(s) : got.tasks[t] \notin got.nodes
  BY <1>1 DEF OrphanInv, NodeMissing
<1>3. \A t \in Placed(s) : t \in Tasks /\ got.tasks[t] \in Nodes
  BY <1>1 DEF Placed, DockerType, Places
<1> QED
  BY <1>1, <1>2, <1>3 DEF OrphanInv, DockerType

\* The first of four that is not empty.
LEMMA FirstOfFour ==
    ASSUME NEW a, NEW b, NEW c, NEW d, NEW e
    PROVE  Coalesce(<<a, b, c, d>>, e) =
               IF a # e THEN a ELSE IF b # e THEN b ELSE IF c # e THEN c ELSE d
<1> DEFINE items == <<a, b, c, d>>
           filled == {i \in DOMAIN items : items[i] # e}
<1>1. /\ DOMAIN items = 1..4 /\ items[1] = a /\ items[2] = b /\ items[3] = c /\ items[4] = d
  OBVIOUS
<1>2. Coalesce(items, e) = IF filled = {} THEN e ELSE items[Min(filled)]
  BY DEF Coalesce
<1>3. \A i \in 1..4 : i \in filled /\ (\A j \in 1..4 : j < i => j \notin filled) => Min(filled) = i
  <2> SUFFICES ASSUME NEW i \in 1..4, i \in filled, \A j \in 1..4 : j < i => j \notin filled
               PROVE  Min(filled) = i
    OBVIOUS
  <2>1. filled \subseteq 1..4
    BY <1>1
  <2> HIDE DEF filled
  <2>2. \A j \in filled : i <= j
    BY <2>1
  <2>3. \A k \in filled : (\A j \in filled : k <= j) => k = i
    BY <2>1, <2>2
  <2> QED
    BY <2>2, <2>3 DEF Min
<1>4. \A i \in 1..4 : i \in filled <=> items[i] # e
  BY <1>1
<1>5. filled \subseteq 1..4
  BY <1>1
<1> HIDE DEF items, filled
<1>6. CASE a # e
  <2>1. 1 \in filled /\ \A j \in 1..4 : j < 1 => j \notin filled
    BY <1>1, <1>4, <1>6
  <2> QED
    BY <1>1, <1>2, <1>3, <1>6, <2>1 DEF items
<1>7. CASE a = e /\ b # e
  <2>1. 2 \in filled /\ \A j \in 1..4 : j < 2 => j \notin filled
    BY <1>1, <1>4, <1>7
  <2> QED
    BY <1>1, <1>2, <1>3, <1>7, <2>1 DEF items
<1>8. CASE a = e /\ b = e /\ c # e
  <2>1. 3 \in filled /\ \A j \in 1..4 : j < 3 => j \notin filled
    BY <1>1, <1>4, <1>8
  <2> QED
    BY <1>1, <1>2, <1>3, <1>8, <2>1 DEF items
<1>9. CASE a = e /\ b = e /\ c = e /\ d # e
  <2>1. 4 \in filled /\ \A j \in 1..4 : j < 4 => j \notin filled
    BY <1>1, <1>4, <1>9
  <2> QED
    BY <1>1, <1>2, <1>3, <1>9, <2>1 DEF items
<1>10. CASE a = e /\ b = e /\ c = e /\ d = e
  <2>1. filled = {}
    BY <1>1, <1>4, <1>5, <1>10
  <2> QED
    BY <1>2, <1>10, <2>1 DEF items
<1> QED
  BY <1>6, <1>7, <1>8, <1>9, <1>10

\* An address of a container is none of no container.
LEMMA AddressIsSome ==
    ASSUME NEW c, NEW net, NEW mark \in Marks, mark # 0
    PROVE  AddressOf(c, net, mark) # NoAddress
<1>1. AddressOf(c, net, mark).mark # 0
  BY DEF AddressOf
<1>2. NoAddress.mark = 0
  BY DEF NoAddress
<1> QED
  BY <1>1, <1>2

\* The origins of an application are the addresses of its service.
LEMMA OriginsOfApp ==
    ASSUME NEW service
    PROVE  Origins(App(service)) = service.addrs
<1> DEFINE scheme == Scheme(service.labels)
           port == Port(service.labels)
           origins == [scheme : {scheme}, addr : service.addrs, port : {port}]
<1>1. App(service).origins = origins
  BY DEF App
<1> HIDE DEF scheme, port
<1>2. \A addr \in service.addrs :
         LET origin == [scheme |-> scheme, addr |-> addr, port |-> port] IN
         origin \in origins /\ origin.addr = addr
  OBVIOUS
<1>3. \A origin \in origins : origin.addr \in service.addrs
  OBVIOUS
<1> HIDE DEF origins
<1> QED
  BY <1>1, <1>2, <1>3 DEF Origins

\* A container is found at an address that it has by the list or by the inspect.
LEMMA InspectedIs ==
    ASSUME DockerType, NEW c \in Listed, InspectedAddress(c) # NoAddress
    PROVE  \E net \in NetworksOf(c) : \E marks \in {got.containers} \cup got.inspect :
               marks[c] # 0 /\ InspectedAddress(c) = AddressIn(c, net, marks[c])
<1>1. c \in Containers /\ got.containers[c] # 0
  BY DEF Listed
<1>2. ASSUME NEW net, ListedAddress(c, net) # NoAddress
      PROVE  net \in NetworksOf(c) /\ ListedAddress(c, net) = AddressIn(c, net, got.containers[c])
  BY <1>2 DEF ListedAddress, NetworksOf, AddressIn
<1>3. CASE ContainerAddress(c) # NoAddress
  <2> DEFINE only == IF network = "_auto_" /\ Cardinality(About[c].networks) = 1
                     THEN ListedAddress(c, CHOOSE net \in About[c].networks : TRUE)
                     ELSE NoAddress
             host == IF "host" \in About[c].networks THEN Loopback ELSE NoAddress
             Is(addr) == addr # NoAddress =>
                            \E net \in NetworksOf(c) : addr = AddressIn(c, net, got.containers[c])
  <2>1. Is(only)
    BY <1>2
  <2>2. Is(host)
    <3> SUFFICES ASSUME "host" \in About[c].networks
                 PROVE  \E net \in NetworksOf(c) : Loopback = AddressIn(c, net, got.containers[c])
      OBVIOUS
    <3>1. "host" \in NetworksOf(c)
      BY DEF NetworksOf
    <3>2. Loopback = AddressIn(c, "host", got.containers[c])
      BY DEF AddressIn
    <3> QED
      BY <3>1, <3>2
  <2>3. Is(ListedAddress(c, network)) /\ Is(ListedAddress(c, "bridge"))
    BY <1>2
  <2>4. ContainerAddress(c) =
           Coalesce(<<only, ListedAddress(c, network), ListedAddress(c, "bridge"), host>>,
                    NoAddress)
    BY DEF ContainerAddress
  <2> HIDE DEF only, host, Is
  <2>5. ContainerAddress(c) \in {only, ListedAddress(c, network), ListedAddress(c, "bridge"), host}
    BY <2>4, FirstOfFour
  <2>6. Is(ContainerAddress(c))
    BY <2>1, <2>2, <2>3, <2>5
  <2>7. PICK net \in NetworksOf(c) : ContainerAddress(c) = AddressIn(c, net, got.containers[c])
    BY <1>3, <2>6 DEF Is
  <2>8. InspectedAddress(c) = ContainerAddress(c)
    BY <1>3 DEF InspectedAddress
  <2> QED
    BY <1>1, <2>7, <2>8
<1>4. CASE ContainerAddress(c) = NoAddress
  <2>1. /\ \E inspected \in got.inspect : inspected[c] # 0 /\ About[c].gwbridge
        /\ LET inspected == CHOOSE i \in got.inspect : TRUE
           IN InspectedAddress(c) = AddressOf(c, "docker_gwbridge", inspected[c])
    BY <1>4 DEF InspectedAddress
  <2>2. PICK inspected \in got.inspect : inspected[c] # 0 /\ About[c].gwbridge
    BY <2>1
  <2>3. got.inspect = {inspected}
    BY <2>2 DEF DockerType
  <2>4. InspectedAddress(c) = AddressOf(c, "docker_gwbridge", inspected[c])
    BY <2>1, <2>3
  <2>5. "docker_gwbridge" \in NetworksOf(c)
    BY <2>2 DEF NetworksOf
  <2>6. InspectedAddress(c) = AddressIn(c, "docker_gwbridge", inspected[c])
    BY <2>4 DEF AddressIn
  <2> QED
    BY <2>2, <2>5, <2>6
<1> QED
  BY <1>3, <1>4

\* What a container is found at was there.
LEMMA InspectedSeen ==
    ASSUME DockerType, SeenInv, NEW c \in Listed, InspectedAddress(c) # NoAddress
    PROVE  InspectedAddress(c) \in seen
<1>1. PICK net \in NetworksOf(c), marks \in {got.containers} \cup got.inspect :
         marks[c] # 0 /\ InspectedAddress(c) = AddressIn(c, net, marks[c])
  BY InspectedIs
<1>2. MarkedSeen(marks) /\ c \in Containers
  BY DEF SeenInv, Listed
<1> QED
  BY <1>1, <1>2 DEF MarkedSeen

\* An address tells which container has it, and in which network.
LEMMA SameContainer ==
    ASSUME NEW c \in Containers, NEW d \in Containers, NEW m, NEW n, NEW net, NEW other_net,
           AddressOf(c, net, m) = AddressOf(d, other_net, n)
    PROVE  c = d /\ net = other_net
<1>1. AddressOf(c, net, m).net = net /\ AddressOf(d, other_net, n).net = other_net
  BY DEF AddressOf
<1>2. \A e \in Containers : About[e].task \in Tasks \cup {Empty}
  BY DockerAssumption DEF Descriptions
<1>3. \A k, mark : \A e \in Containers :
         \/ AddressOf(e, k, mark).of = e
         \/ About[e].task # Empty /\ AddressOf(e, k, mark).of = About[e].task
  BY DEF AddressOf
<1>4. AddressOf(c, net, m).of = AddressOf(d, other_net, n).of
  OBVIOUS
<1>5. c = d
  BY <1>2, <1>3, <1>4, DockerAssumption
<1> QED
  BY <1>1, <1>5

\* The second of three, when the first is empty.
LEMMA SecondOfThree ==
    ASSUME NEW b, NEW c, NEW e, b # e
    PROVE  Coalesce(<<e, b, c>>, e) = b
<1> DEFINE items == <<e, b, c>>
           filled == {i \in DOMAIN items : items[i] # e}
<1>1. DOMAIN items = 1..3 /\ items[1] = e /\ items[2] = b
  OBVIOUS
<1>2. Coalesce(items, e) = IF filled = {} THEN e ELSE items[Min(filled)]
  BY DEF Coalesce
<1>3. filled \subseteq {2, 3} /\ 2 \in filled
  BY <1>1
<1> HIDE DEF items, filled
<1>4. \A k \in filled : (\A j \in filled : k <= j) => k = 2
  BY <1>3
<1>5. \A j \in filled : 2 <= j
  BY <1>3
<1>6. Min(filled) = 2
  BY <1>3, <1>4, <1>5 DEF Min
<1> QED
  BY <1>1, <1>2, <1>3, <1>6 DEF items

\* The container of a task has the name of its service, if it is in no project.
LEMMA NamedAsService ==
    ASSUME NEW c \in Containers, NEW t \in Tasks, About[c].task = t, t # Empty,
           About[c].project = Empty
    PROVE  ServiceName(c) = ServiceOf[t]
<1>1. ServiceOf[t] # Empty
  BY DockerAssumption
<1>2. ServiceName(c) = Coalesce(<<Empty, ServiceOf[t], About[c].name>>, Empty)
  BY DEF ServiceName
<1> QED
  BY <1>1, <1>2, SecondOfThree

\* A container has an address of its own or of the task it runs, but for the host's.
LEMMA OwnAddress ==
    ASSUME DockerType, NEW c \in Listed, InspectedAddress(c) # NoAddress
    PROVE  \/ InspectedAddress(c) = Loopback /\ "host" \in About[c].networks
           \/ /\ InspectedAddress(c) # Loopback
              /\ \E net, mark : InspectedAddress(c) = AddressOf(c, net, mark)
              /\ \/ InspectedAddress(c).of = c
                 \/ InspectedAddress(c).of = About[c].task /\ About[c].task # Empty
<1>1. PICK net \in NetworksOf(c), marks \in {got.containers} \cup got.inspect :
         marks[c] # 0 /\ InspectedAddress(c) = AddressIn(c, net, marks[c])
  BY InspectedIs
<1>2. CASE net = "host"
  BY <1>1, <1>2 DEF AddressIn, NetworksOf
<1>3. CASE net # "host"
  <2>1. InspectedAddress(c) = AddressOf(c, net, marks[c])
    BY <1>1, <1>3 DEF AddressIn
  <2>2. /\ AddressOf(c, net, marks[c]).mark # 0
        /\ \/ AddressOf(c, net, marks[c]).of = c
           \/ AddressOf(c, net, marks[c]).of = About[c].task /\ About[c].task # Empty
    BY <1>1 DEF AddressOf
  <2>3. Loopback.mark = 0
    BY DEF Loopback
  <2> QED
    BY <2>1, <2>2, <2>3
<1> QED
  BY <1>2, <1>3

\* A service has the addresses of its tasks in the network.
LEMMA SwarmAddress ==
    ASSUME NEW service \in SwarmServices
    PROVE  /\ service = [name |-> service.name, labels |-> Labels[service.name],
                         addrs |-> {TaskAddress(t) : t \in Placed(service.name)}]
           /\ \A addr \in service.addrs :
                 /\ addr # Loopback /\ addr.of \in Placed(service.name)
                 /\ ServiceOf[addr.of] = service.name /\ addr.of \in Tasks
<1>1. PICK s \in got.services :
         service = [name |-> s, labels |-> Labels[s], addrs |-> {TaskAddress(t) : t \in Placed(s)}]
  BY DEF SwarmServices
<1>2. \A t \in Placed(s) : t \in Tasks /\ ServiceOf[t] = s
  BY DEF Placed
<1>3. \A t : TaskAddress(t).of = t /\ TaskAddress(t).mark = 1
  BY DEF TaskAddress
<1>4. Loopback.mark = 0
  BY DEF Loopback
<1> QED
  BY <1>1, <1>2, <1>3, <1>4

\* A bare container is one that is listed and that the catalogue does not have.
LEMMA BareIs ==
    ASSUME NEW service \in BareContainers
    PROVE  \E c \in Listed :
              /\ InspectedAddress(c) # NoAddress
              /\ \A s \in SwarmServices : s.name # ServiceName(c)
              /\ service = [name |-> ServiceName(c), labels |-> Labels[c],
                            addrs |-> {InspectedAddress(c)}]
BY DEF BareContainers

\* The addresses of all applications were there.
LEMMA FoundSeen ==
    ASSUME DockerType, SeenInv, NEW service \in SwarmServices \cup BareContainers
    PROVE  service.addrs \subseteq seen
<1>1. CASE service \in SwarmServices
  <2>1. service.addrs = {TaskAddress(t) : t \in Placed(service.name)}
    BY <1>1, SwarmAddress
  <2>2. \A t \in Placed(service.name) : TaskAddress(t) \in seen
    BY DEF Placed, TaskAddress, SeenInv
  <2> QED
    BY <2>1, <2>2
<1>2. CASE service \in BareContainers
  <2>1. PICK c \in Listed : InspectedAddress(c) # NoAddress /\ service.addrs = {InspectedAddress(c)}
    BY <1>2, BareIs
  <2>2. InspectedAddress(c) \in seen
    BY <2>1, InspectedSeen
  <2> QED
    BY <2>1, <2>2
<1> QED
  BY <1>1, <1>2

\* The labels that an application is made from are those of what has its addresses.
LEMMA FoundLabelled ==
    ASSUME DockerType, NEW service \in SwarmServices \cup BareContainers,
           NEW addr \in service.addrs
    PROVE  service.labels \in LabelsAt(addr)
<1>1. CASE service \in SwarmServices
  <2>1. /\ service.labels = Labels[service.name] /\ addr # Loopback
        /\ ServiceOf[addr.of] = service.name /\ addr.of \in Tasks
    BY <1>1, SwarmAddress
  <2> QED
    BY <2>1 DEF LabelsAt
<1>2. CASE service \in BareContainers
  <2>1. PICK c \in Listed :
           /\ InspectedAddress(c) # NoAddress /\ service.labels = Labels[c]
           /\ service.addrs = {InspectedAddress(c)}
    BY <1>2, BareIs
  <2>2. addr = InspectedAddress(c) /\ c \in Containers
    BY <2>1 DEF Listed
  <2>3. \/ addr = Loopback /\ "host" \in About[c].networks
        \/ addr # Loopback /\ addr.of \in {c, About[c].task}
    BY <2>1, <2>2, OwnAddress
  <2> QED
    BY <2>1, <2>2, <2>3 DEF LabelsAt
<1> QED
  BY <1>1, <1>2

\* What guards an application is what these labels ask for.
LEMMA FoundGuarded ==
    ASSUME NEW service, Supported(service.labels)
    PROVE  AsksFor(service.labels, App(service))
<1>1. /\ App(service).guard = Guard(service.name, service.labels)
      /\ App(service).id = service.name
  BY DEF App
<1>2. AuthSupported(service.labels)
  BY DEF Supported
<1> QED
  BY <1>1, <1>2 DEF AuthSupported, Guard, AsksFor

\* One address is of one service, or of one container.
LEMMA FoundOnce ==
    ASSUME DockerType,
           NEW s \in SwarmServices \cup BareContainers,
           NEW b \in SwarmServices \cup BareContainers,
           NEW addr \in s.addrs \cap b.addrs, addr # Loopback, ~Renamed(addr)
    PROVE  s = b
<1>1. ASSUME NEW service \in SwarmServices, NEW bare \in BareContainers,
             addr \in service.addrs, addr \in bare.addrs
      PROVE  FALSE
  <2>1. PICK c \in Listed :
           /\ InspectedAddress(c) # NoAddress /\ bare.addrs = {InspectedAddress(c)}
           /\ service.name # ServiceName(c)
    BY <1>1, BareIs
  <2>2. addr = InspectedAddress(c) /\ c \in Containers
    BY <1>1, <2>1 DEF Listed
  <2>3. addr.of \in Tasks /\ ServiceOf[addr.of] = service.name
    BY <1>1, SwarmAddress
  <2>4. addr.of # c
    BY <2>2, <2>3, DockerAssumption
  <2>5. addr.of = About[c].task /\ About[c].task # Empty
    BY <2>1, <2>2, <2>4, OwnAddress
  <2>6. About[c].project = Empty
    BY <2>2, <2>5 DEF Renamed
  <2>7. ServiceName(c) = ServiceOf[addr.of]
    BY <2>2, <2>3, <2>5, <2>6, NamedAsService
  <2> QED
    BY <2>1, <2>3, <2>7
<1>2. CASE s \in SwarmServices /\ b \in SwarmServices
  <2>1. s.name = b.name
    BY <1>2, SwarmAddress
  <2> QED
    BY <1>2, <2>1, SwarmAddress
<1>3. CASE s \in BareContainers /\ b \in BareContainers
  <2>1. PICK c \in Listed :
           /\ InspectedAddress(c) # NoAddress
           /\ s = [name |-> ServiceName(c), labels |-> Labels[c], addrs |-> {InspectedAddress(c)}]
    BY <1>3, BareIs
  <2>2. PICK d \in Listed :
           /\ InspectedAddress(d) # NoAddress
           /\ b = [name |-> ServiceName(d), labels |-> Labels[d], addrs |-> {InspectedAddress(d)}]
    BY <1>3, BareIs
  <2>3. addr = InspectedAddress(c) /\ addr = InspectedAddress(d)
    BY <2>1, <2>2
  <2>4. /\ \E net, mark : addr = AddressOf(c, net, mark)
        /\ \E net, mark : addr = AddressOf(d, net, mark)
    BY <2>1, <2>2, <2>3, OwnAddress
  <2>5. c \in Containers /\ d \in Containers
    BY DEF Listed
  <2>6. PICK m, net : addr = AddressOf(c, net, m)
    BY <2>4
  <2>7. PICK n, other_net : addr = AddressOf(d, other_net, n)
    BY <2>4
  <2>8. AddressOf(c, net, m) = AddressOf(d, other_net, n)
    BY <2>6, <2>7
  <2>9. c = d
    BY <2>5, <2>8, SameContainer
  <2> QED
    BY <2>1, <2>2, <2>9
<1> QED
  BY <1>1, <1>2, <1>3

\* A read has nothing more.
LEMMA FoundNothingMore == DockerInv => NothingMore
<1> SUFFICES ASSUME DockerInv, pc = "ok"
             PROVE  /\ \A app \in result : Origins(app) \subseteq seen
                    /\ \A app \in result : \A addr \in Origins(app) :
                          \E labels \in LabelsAt(addr) : AsksFor(labels, app)
                    /\ \A a, b \in result : \A addr \in Origins(a) \cap Origins(b) :
                          a = b \/ addr = Loopback \/ Renamed(addr)
  BY DEF NothingMore
<1>1. DockerType /\ SeenInv /\ result = Applications
  BY DEF DockerInv, ResultInv
<1>2. \A app \in result : \E service \in SwarmServices \cup BareContainers :
         /\ app = App(service) /\ Supported(service.labels)
         /\ Origins(app) = service.addrs
  BY <1>1, OriginsOfApp DEF Applications
<1>3. ASSUME NEW app \in result PROVE Origins(app) \subseteq seen
  BY <1>1, <1>2, FoundSeen
<1>4. ASSUME NEW app \in result, NEW addr \in Origins(app)
      PROVE  \E labels \in LabelsAt(addr) : AsksFor(labels, app)
  <2>1. PICK service \in SwarmServices \cup BareContainers :
           /\ app = App(service) /\ Supported(service.labels)
           /\ Origins(app) = service.addrs
    BY <1>2
  <2>2. service.labels \in LabelsAt(addr)
    BY <1>1, <1>4, <2>1, FoundLabelled
  <2> QED
    BY <2>1, <2>2, FoundGuarded
<1>5. ASSUME NEW a \in result, NEW b \in result, NEW addr \in Origins(a) \cap Origins(b),
             addr # Loopback, ~Renamed(addr)
      PROVE  a = b
  <2>1. PICK s \in SwarmServices \cup BareContainers : a = App(s) /\ Origins(a) = s.addrs
    BY <1>2
  <2>2. PICK d \in SwarmServices \cup BareContainers : b = App(d) /\ Origins(b) = d.addrs
    BY <1>2
  <2>3. addr \in s.addrs \cap d.addrs
    BY <2>1, <2>2
  <2>4. s = d
    BY <1>1, <1>5, <2>3, FoundOnce
  <2> QED
    BY <2>1, <2>2, <2>4
<1> QED
  BY <1>3, <1>4, <1>5

\* A container that the list shows in the network is found there.
LEMMA DirectAddress ==
    ASSUME DockerType, NEW c \in Containers, got.containers[c] # 0,
           NEW net \in About[c].networks \ {"host"},
           \/ net = network
           \/ network = "_auto_" /\ About[c].networks = {net}
    PROVE  /\ ContainerAddress(c) = AddressOf(c, net, got.containers[c])
           /\ ContainerAddress(c) # NoAddress
<1> DEFINE only == IF network = "_auto_" /\ Cardinality(About[c].networks) = 1
                   THEN ListedAddress(c, CHOOSE n \in About[c].networks : TRUE)
                   ELSE NoAddress
           host == IF "host" \in About[c].networks THEN Loopback ELSE NoAddress
           found == AddressOf(c, net, got.containers[c])
<1>1. ListedAddress(c, net) = found
  BY DEF ListedAddress
<1>2. found # NoAddress
  <2>1. got.containers[c] \in Marks
    BY DEF DockerType
  <2> QED
    BY <2>1, AddressIsSome
<1>3. ContainerAddress(c) =
         Coalesce(<<only, ListedAddress(c, network), ListedAddress(c, "bridge"), host>>, NoAddress)
  BY DEF ContainerAddress
<1>4. IsFiniteSet(About[c].networks)
  BY DockerAssumption
<1>5. \A n : About[c].networks = {n} => (CHOOSE k \in About[c].networks : TRUE) = n
  OBVIOUS
<1>6. CASE net = network
  <2>1. only = NoAddress \/ only = found
    <3>1. CASE network = "_auto_" /\ Cardinality(About[c].networks) = 1
      <4>1. PICK n : About[c].networks = {n}
        BY <1>4, <3>1, FS_Singleton
      <4>2. (CHOOSE k \in About[c].networks : TRUE) = net
        BY <1>5, <4>1
      <4> QED
        BY <1>1, <3>1, <4>2
    <3>2. CASE ~(network = "_auto_" /\ Cardinality(About[c].networks) = 1)
      BY <3>2
    <3> QED
      BY <3>1, <3>2
  <2> HIDE DEF only, host, found
  <2> QED
    BY <1>1, <1>2, <1>3, <1>6, <2>1, FirstOfFour DEF found
<1>7. CASE network = "_auto_" /\ About[c].networks = {net}
  <2>1. Cardinality(About[c].networks) = 1
    BY <1>7, FS_Singleton
  <2>2. only = found
    BY <1>1, <1>5, <1>7, <2>1
  <2> HIDE DEF only, host, found
  <2> QED
    BY <1>2, <1>3, <2>2, FirstOfFour DEF found
<1> QED
  BY <1>6, <1>7

\* A container that only docker_gwbridge has must be inspected.
LEMMA BridgedAddress ==
    ASSUME NEW c \in Containers, network = "docker_gwbridge",
           network \notin About[c].networks,
           About[c].networks \cap {"bridge", "host"} = {}
    PROVE  ContainerAddress(c) = NoAddress
<1> DEFINE only == IF network = "_auto_" /\ Cardinality(About[c].networks) = 1
                   THEN ListedAddress(c, CHOOSE n \in About[c].networks : TRUE)
                   ELSE NoAddress
           host == IF "host" \in About[c].networks THEN Loopback ELSE NoAddress
<1>1. ContainerAddress(c) =
         Coalesce(<<only, ListedAddress(c, network), ListedAddress(c, "bridge"), host>>, NoAddress)
  BY DEF ContainerAddress
<1>2. only = NoAddress
  OBVIOUS
<1>3. host = NoAddress
  OBVIOUS
<1>4. ListedAddress(c, network) = NoAddress /\ ListedAddress(c, "bridge") = NoAddress
  BY DEF ListedAddress
<1> HIDE DEF only, host
<1> QED
  BY <1>1, <1>2, <1>3, <1>4, FirstOfFour

\* A container that was wanted all through the read is found at its address.
LEMMA WantedFound ==
    ASSUME DockerInv, pc = "ok", NEW w \in through, w.as = "container"
    PROVE  \E c \in Listed : /\ w.name = ServiceName(c) /\ w.labels = Labels[c]
                             /\ w.addr = InspectedAddress(c)
                             /\ InspectedAddress(c) # NoAddress
<1>1. DockerType /\ ThroughInv /\ ~NeedsInspect
  BY DEF DockerInv, ResultInv
<1>2. PICK c \in Containers : \E net \in WantedNets(c, network) :
         got.containers[c] # 0 /\ About[c].name # Empty
         /\ w = WantedContainer(c, net, got.containers[c])
  BY <1>1 DEF ThroughInv, MarkedWanted
<1>3. PICK net \in WantedNets(c, network) : w = WantedContainer(c, net, got.containers[c])
  BY <1>2
<1>4. /\ c \in Listed /\ got.containers[c] # 0
      /\ w.name = ServiceName(c) /\ w.labels = Labels[c]
      /\ w.addr = AddressOf(c, net, got.containers[c])
  BY <1>2, <1>3 DEF Listed, WantedContainer, Wanted
<1>5. CASE /\ net \in About[c].networks \ {"host"}
           /\ \/ net = network
              \/ network = "_auto_" /\ About[c].networks = {net}
  <2>1. ContainerAddress(c) = w.addr /\ ContainerAddress(c) # NoAddress
    BY <1>1, <1>4, <1>5, DirectAddress
  <2> QED
    BY <1>4, <2>1 DEF InspectedAddress
<1>6. CASE ~(/\ net \in About[c].networks \ {"host"}
             /\ \/ net = network
                \/ network = "_auto_" /\ About[c].networks = {net})
  <2>1. /\ net = network /\ network = "docker_gwbridge" /\ About[c].gwbridge
        /\ network \notin About[c].networks
        /\ About[c].networks \cap {"bridge", "host"} = {}
    BY <1>3, <1>6 DEF WantedNets
  <2>2. ContainerAddress(c) = NoAddress
    BY <2>1, BridgedAddress
  <2>3. PICK inspected \in got.inspect : got.inspect = {inspected}
    BY <1>1, <1>4, <2>1, <2>2 DEF NeedsInspect, DockerType
  <2>4. inspected \in [Containers -> Marks]
    BY <1>1, <2>3 DEF DockerType
  <2>5. PICK d \in Containers : \E k \in WantedNets(d, network) :
           inspected[d] # 0 /\ w = WantedContainer(d, k, inspected[d])
    BY <1>1, <2>3 DEF ThroughInv, MarkedWanted
  <2>6. PICK k : inspected[d] # 0 /\ w = WantedContainer(d, k, inspected[d])
    BY <2>5
  <2>7. w.addr = AddressOf(d, k, inspected[d])
    BY <2>6 DEF WantedContainer, Wanted
  <2>8. AddressOf(c, net, got.containers[c]) = AddressOf(d, k, inspected[d])
    BY <1>4, <2>7
  <2>9. d = c /\ k = net
    BY <2>8, SameContainer
  <2>10. w.addr = AddressOf(c, "docker_gwbridge", inspected[c]) /\ inspected[c] # 0
    BY <2>1, <2>6, <2>7, <2>9
  <2>11. InspectedAddress(c) = AddressOf(c, "docker_gwbridge", inspected[c])
    <3>1. (CHOOSE i \in got.inspect : TRUE) = inspected
      BY <2>3
    <3> QED
      BY <2>1, <2>2, <2>3, <2>10, <3>1 DEF InspectedAddress
  <2>12. InspectedAddress(c) # NoAddress
    BY <2>4, <2>10, <2>11, AddressIsSome
  <2> QED
    BY <1>4, <2>10, <2>11, <2>12
<1> QED
  BY <1>5, <1>6

\* What was wanted all through the read is in its result.
LEMMA FoundKept == DockerInv => KeptThroughout
<1> SUFFICES ASSUME DockerInv, pc = "ok", NEW w \in through, Supported(w.labels)
             PROVE  \/ \E app \in result : app.id = w.name /\ w.addr \in Origins(app)
                    \/ /\ w.as = "container" /\ w.name \in got.services
                       /\ \E t \in Tasks : ServiceOf[t] = w.name /\ got.tasks[t] \in Nodes
                       /\ network \in Attached[w.name]
  BY DEF KeptThroughout
<1>1. DockerType /\ ThroughInv /\ result = Applications
  BY DEF DockerInv, ResultInv
<1>2. ASSUME NEW service \in SwarmServices \cup BareContainers, service.labels = w.labels,
             service.name = w.name, w.addr \in service.addrs
      PROVE  \E app \in result : app.id = w.name /\ w.addr \in Origins(app)
  <2>1. App(service) \in result
    BY <1>1, <1>2 DEF Applications
  <2>2. App(service).id = w.name
    BY <1>2 DEF App
  <2> QED
    BY <1>2, <2>1, <2>2, OriginsOfApp
<1>3. CASE w.as = "task"
  <2>1. PICK t \in Tasks : /\ w = WantedTask(t, network)
                           /\ network \in Attached[ServiceOf[t]]
                           /\ got.tasks[t] \in Nodes
    BY <1>1, <1>3 DEF ThroughInv
  <2> DEFINE s == ServiceOf[t]
             service == [name |-> s, labels |-> Labels[s],
                         addrs |-> {TaskAddress(u) : u \in Placed(s)}]
  <2>2. s \in got.services /\ w.name = s /\ w.labels = Labels[s] /\ w.addr = TaskAddress(t)
    BY <1>1, <1>3, <2>1 DEF ThroughInv, WantedTask, Wanted, TaskAddress
  <2>3. t \in Placed(s)
    BY <2>1, DockerAssumption DEF Placed
  <2>4. service \in SwarmServices
    BY <2>2, <2>3 DEF SwarmServices
  <2>5. service.labels = w.labels /\ service.name = w.name /\ w.addr \in service.addrs
    BY <2>2, <2>3
  <2> HIDE DEF service
  <2> QED
    BY <1>2, <2>4, <2>5
<1>4. CASE w.as = "container"
  <2>1. PICK c \in Listed : /\ w.name = ServiceName(c) /\ w.labels = Labels[c]
                            /\ w.addr = InspectedAddress(c)
                            /\ InspectedAddress(c) # NoAddress
    BY <1>4, WantedFound
  <2> DEFINE service == [name |-> ServiceName(c), labels |-> Labels[c],
                         addrs |-> {InspectedAddress(c)}]
  <2>2. CASE \A s \in SwarmServices : s.name # ServiceName(c)
    <3>1. service \in BareContainers
      BY <2>1, <2>2 DEF BareContainers
    <3>2. service.labels = w.labels /\ service.name = w.name /\ w.addr \in service.addrs
      BY <2>1
    <3> HIDE DEF service
    <3> QED
      BY <1>2, <3>1, <3>2
  <2>3. CASE \E s \in SwarmServices : s.name = ServiceName(c)
    <3>1. PICK s \in got.services : s = w.name /\ Placed(s) # {}
      BY <2>1, <2>3 DEF SwarmServices
    <3>2. PICK t \in Placed(s) : TRUE
      BY <3>1
    <3>3. /\ t \in Tasks /\ ServiceOf[t] = s /\ network \in Attached[s]
          /\ got.tasks[t] \in Nodes
      BY <1>1, <3>2 DEF Placed, DockerType, Places
    <3> QED
      BY <1>4, <3>1, <3>3
  <2> QED
    BY <2>2, <2>3
<1> QED
  BY <1>1, <1>3, <1>4 DEF ThroughInv

-----------------------------------------------------------------------------
(* Theorems                                                                *)

\* A router knows of each application what the stream says at its cursor, or at
\* an event further on that it does not know; it serves what the stream said at
\* one point (ehdiscovery.go:51-71, 93-120).
THEOREM KnowsTheStream == RegistrySpec => []ViewIsPrefix
<1>1. RegistrySpec => []RegistryInv
  BY InitRegistryInv, StepRegistryInv, PTL DEF RegistrySpec
<1> QED
  BY <1>1, RegistryInvView, PTL

\* Type correctness of the S3 discovery.
THEOREM BucketTypes == BucketSpec => []BucketTypeOK
<1>1. BucketInv => BucketTypeOK
  BY DEF BucketInv
<1> QED
  BY <1>1, InitBucketInv, StepBucketInv, PTL DEF BucketSpec

\* The cached applications are those of the ETags that they are filed under,
\* unless the bucket changed under the fetch that filled the cache
\* (s3discovery.go:75-106).
THEOREM FiledByETag == BucketSpec => []FiledRight
<1>1. BucketInv => FiledRight
  BY DEF BucketInv
<1> QED
  BY <1>1, InitBucketInv, StepBucketInv, PTL DEF BucketSpec

\* The invariant of the Docker discovery.
THEOREM DockerInvariant == Spec => []DockerInv
  BY InitDockerInv, StepDockerInv, PTL DEF Spec

\* Type correctness of the Docker discovery.
THEOREM DockerTypes == Spec => []TypeOK
<1>1. DockerInv => TypeOK
  <2> SUFFICES ASSUME DockerInv PROVE TypeOK
    OBVIOUS
  <2>1. DockerType
    BY DEF DockerInv
  <2>2. Cardinality(got.inspect) <= 1
    <3>1. CASE got.inspect = {}
      BY <3>1, FS_EmptySet
    <3>2. CASE \E i \in [Containers -> Marks] : got.inspect = {i}
      <4>1. PICK i : got.inspect = {i}
        BY <3>2
      <4>2. Cardinality(got.inspect) = 1
        BY <4>1, FS_Singleton
      <4> QED
        BY <4>2
    <3> QED
      BY <2>1, <3>1, <3>2 DEF DockerType
  <2> QED
    BY <2>1, <2>2 DEF DockerType, TypeOK, Places, Marks
<1> QED
  BY <1>1, DockerInvariant, PTL

\* What was there from the start to the end of a read that succeeds is in its
\* result, at its address (docker.go:97-107, 148-203, 258-311, 332-336).
THEOREM Kept == Spec => []KeptThroughout
  BY DockerInvariant, FoundKept, PTL

\* A read has no address that nothing had during it, none that is open or guarded
\* otherwise than labels of what has it ask for, and none twice (docker.go:219-237,
\* 327-336, traefikannotations.go:111-138).
THEOREM OnlyThat == Spec => []NothingMore
  BY DockerInvariant, FoundNothingMore, PTL

\* A read ends for a missing node only if a node has left (docker.go:177-180).
THEOREM Grown == Spec => []ReadsSurviveGrowth
  BY DockerInvariant, MissingIsOrphaned, PTL

=============================================================================
