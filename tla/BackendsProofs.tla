--------------------------- MODULE BackendsProofs ---------------------------
(***************************************************************************)
(* Theorems about Backends, and the Routing in it: where a request goes,   *)
(* what keeps it away from an upstream, and what the client is told, for   *)
(* any frontends, rules, backends and clients.                             *)
(***************************************************************************)
EXTENDS Backends, FunctionTheorems, SequenceTheorems, WellFoundedInduction, TLAPS

\* What has been configured are mounts of the catalogue, and so is what a request
\* resolves to.
MountsInv ==
    /\ request.host \in Hosts
    /\ pathPrefix \in Seq(Mounts)
    /\ hostname \in [Hosts -> Seq(Mounts)]
    /\ regexps \in Seq([hosts : SUBSET Hosts, mount : Mounts])
    /\ pc \in {"scheme", "filter", "strip", "backend", "served"} => mount \in Mounts
    /\ reply = "backend" => pc \in {"replied", "served"} /\ mount \in Mounts

\* The checks that a request has passed hold for the mount it goes to.
PassedInv ==
    /\ pc \in {"filter", "strip", "backend"} \/ reply = "backend" =>
          request.tls \/ mount.insecure
    /\ pc \in {"strip", "backend"} \/ reply = "backend" =>
          IpAllowed(request.addr, mount.app, Rules)

\* k handlers have let the request through: the ones that ask for a token have
\* accepted the client's header, and have taken it away.
Through(k) ==
    LET b == BackendOf[mount.app]
        passed == {i \in 1..k : b[i].kind = "auth_v0"}
    IN /\ Len(chain) = Len(b) - k
       /\ \A i \in 1..Len(chain) : chain[i] = b[i + k]
       /\ \A i \in passed : Authorize(client.auth, b[i].token)
       /\ auth = IF passed = {} THEN client.auth ELSE NoAuth

ChainInv ==
    /\ at = "routing" => asked = NotAsked /\ pc # "served"
    /\ at # "routing" =>
          /\ pc = "served"
          /\ chain \in Seq(ToSet(BackendOf[mount.app]))
          /\ \E k \in 0..(Len(BackendOf[mount.app]) - 1) : Through(k)

IInv == MountsInv /\ PassedInv /\ ChainInv /\ AuthorizedOnly

\* Where the backend is says which one it is and what its upstream may have said:
\* only what went wrong gets the page, and nothing is answered before the end.
PlaceInv ==
    /\ at # "done" => answer = NoAnswer
    /\ up = [status |-> up.status, body |-> up.body]
    /\ at = "page" => up.status # 200
    /\ at = "function" => Leaf.kind = "aws_lambda"
    /\ at = "manifest" => Leaf.kind = "turbocharger"

-----------------------------------------------------------------------------
(* Paths                                                                   *)

\* The minimum of indexes is one of them, and none is below it.
LEMMA Least ==
    ASSUME NEW S \in SUBSET Nat, S # {}
    PROVE  Min(S) \in S /\ \A j \in S : Min(S) <= j
<1>1. PICK m \in S : \A k \in S : <<k, m>> \notin OpToRel(<, Nat)
  BY WFMin, NatLessThanWellFounded, Zenon
<1>2. ASSUME NEW k \in S PROVE ~(k < m)
  BY <1>1, <1>2, Zenon DEF OpToRel
<1>3. m \in S /\ \A k \in S : m =< k
  BY <1>2
<1> QED
  BY <1>3 DEF Min

\* A first element of a set of numbers that has no first element: none.
LEMMA Induction ==
    ASSUME NEW N \in Nat, NEW P \in SUBSET (0..N), 0 \in P,
           \A n \in 1..N : n - 1 \in P => n \in P
    PROVE  P = 0..N
<1> DEFINE S == (0..N) \ P
<1>1. CASE S # {}
  <2>1. S \in SUBSET Nat
    OBVIOUS
  <2>2. PICK m \in S : \A j \in S : m <= j
    BY <1>1, <2>1, Least
  <2>3. m \in 1..N /\ m - 1 \in 0..N /\ ~(m <= m - 1)
    BY <2>2
  <2> QED
    BY <2>2, <2>3
<1> QED
  BY <1>1

\* What every step makes of the value before exists, from the first to the last.
LEMMA Iterates ==
    ASSUME NEW S, NEW a \in S, NEW N \in Nat, NEW step \in [1..N -> [S -> S]]
    PROVE  \E f \in [0..N -> S] : f[0] = a /\ \A n \in 1..N : f[n] = step[n][f[n - 1]]
<1> DEFINE Upto(m, f) == f[0] = a /\ \A n \in 1..m : f[n] = step[n][f[n - 1]]
           P == {m \in 0..N : \E f \in [0..m -> S] : Upto(m, f)}
<1>1. 0 \in P
  <2> DEFINE f == [n \in 0..0 |-> a]
  <2>1. f \in [0..0 -> S] /\ f[0] = a /\ 1..0 = {}
    OBVIOUS
  <2>2. Upto(0, f)
    BY <2>1
  <2> HIDE DEF f, Upto
  <2> QED
    BY <2>1, <2>2
<1>2. ASSUME NEW m \in 1..N, m - 1 \in P PROVE m \in P
  <2>1. PICK f \in [0..(m - 1) -> S] : Upto(m - 1, f)
    BY <1>2
  <2> DEFINE last == step[m][f[m - 1]]
             g == [n \in 0..m |-> IF n = m THEN last ELSE f[n]]
  <2>2. last \in S
    OBVIOUS
  <2> HIDE DEF last
  <2>3. g \in [0..m -> S]
    <3>1. \A n \in 0..m : n # m => n \in 0..(m - 1)
      OBVIOUS
    <3> QED
      BY <2>2, <3>1
  <2>4. g[m] = last /\ \A n \in 0..(m - 1) : g[n] = f[n]
    OBVIOUS
  <2> HIDE DEF g
  <2>5. Upto(m, g)
    <3>1. g[0] = a
      BY <2>1, <2>4
    <3>2. ASSUME NEW n \in 1..m PROVE g[n] = step[n][g[n - 1]]
      <4>1. n - 1 \in 0..(m - 1) /\ g[n - 1] = f[n - 1]
        BY <2>4
      <4>2. CASE n = m
        BY <2>4, <4>1, <4>2 DEF last
      <4>3. CASE n # m
        <5>1. n \in 1..(m - 1) /\ g[n] = f[n]
          BY <2>4, <4>3
        <5> QED
          BY <2>1, <4>1, <5>1
      <4> QED
        BY <4>2, <4>3
    <3> QED
      BY <3>1, <3>2
  <2>6. m \in 0..N
    OBVIOUS
  <2> QED
    BY <2>3, <2>5, <2>6
<1>3. P = 0..N
  <2> HIDE DEF P
  <2>1. P \in SUBSET (0..N)
    BY DEF P
  <2> QED
    BY <1>1, <1>2, <2>1, Induction
<1>4. N \in P
  <2> HIDE DEF P
  <2> QED
    BY <1>3
<1> QED
  BY <1>4

\* The characters of a path.  That the two are strings is nothing a prover knows.
Chars == STRING \cup {"/", "index.html"}

Text == Seq(Chars)

Parts == Seq(Text) \ {<<>>}

\* One more character of a path that is being split.
SplitStep(path, n, before) ==
    IF path[n] = "/" THEN Append(before, <<>>)
    ELSE [before EXCEPT ![Len(before)] = Append(@, path[n])]

\* parts are what Split(path) is from character to character.
Splits(parts, path) ==
    /\ parts \in [0..Len(path) -> Parts]
    /\ parts[0] = <<<<>>>>
    /\ \A n \in 1..Len(path) : parts[n] = SplitStep(path, n, parts[n - 1])

\* A slash starts a part, any other character goes to the last one.
LEMMA SplitStepProperties ==
    ASSUME NEW path \in Text, NEW n \in 1..Len(path), NEW p \in Parts
    PROVE  LET q == SplitStep(path, n, p) a == Len(p) IN
           /\ a \in Nat \ {0} /\ p[a] \in Text
           /\ q \in Parts
           /\ path[n] = "/" => /\ Len(q) = a + 1 /\ q[a + 1] = <<>>
                               /\ \A i \in 1..a : q[i] = p[i]
           /\ path[n] # "/" => /\ Len(q) = a /\ q[a] = Append(p[a], path[n])
                               /\ \A i \in 1..(a - 1) : q[i] = p[i]
<1> DEFINE q == SplitStep(path, n, p)
           a == Len(p)
<1>1. path[n] \in Chars /\ <<>> \in Text
  BY EmptySeq DEF Text
<1>2. p \in Seq(Text) /\ a \in Nat \ {0} /\ a \in 1..a
  BY EmptySeq DEF Parts
<1>3. p[a] \in Text
  BY <1>2, ElementOfSeq
<1>4. Append(p[a], path[n]) \in Text
  BY <1>1, <1>3, AppendProperties DEF Text
<1>5. CASE path[n] = "/"
  <2>1. q = Append(p, <<>>)
    BY <1>5 DEF SplitStep
  <2> HIDE DEF q
  <2>2. /\ q \in Seq(Text) /\ q # <<>> /\ Len(q) = a + 1
        /\ \A i \in 1..a : q[i] = p[i]
        /\ q[a + 1] = <<>>
    BY <1>1, <1>2, <2>1, AppendProperties
  <2> QED
    BY <1>2, <1>3, <1>5, <2>2 DEF Parts, q
<1>6. CASE path[n] # "/"
  <2>1. q = [p EXCEPT ![a] = Append(p[a], path[n])]
    BY <1>6 DEF SplitStep
  <2> HIDE DEF q
  <2>2. /\ q \in Seq(Text) /\ Len(q) = a
        /\ \A i \in 1..a : q[i] = IF i = a THEN Append(p[a], path[n]) ELSE p[i]
    BY <1>2, <1>4, <2>1, ExceptSeq
  <2>3. q # <<>>
    BY <1>2, <2>2, EmptySeq
  <2>4. q \in Parts
    BY <2>2, <2>3 DEF Parts
  <2>5. q[a] = Append(p[a], path[n])
    BY <1>2, <2>2
  <2>6. ASSUME NEW i \in 1..(a - 1) PROVE q[i] = p[i]
    <3>1. i \in 1..a /\ i # a
      BY <1>2
    <3> QED
      BY <2>2, <3>1
  <2> QED
    BY <1>2, <1>3, <1>6, <2>2, <2>4, <2>5, <2>6 DEF q
<1> QED
  BY <1>5, <1>6

\* The recursion of Split is well-founded: its function exists, from part to part.
LEMMA SplitDefined ==
    ASSUME NEW path \in Text
    PROVE  \E parts : Splits(parts, path) /\ Split(path) = parts[Len(path)]
<1> DEFINE N == Len(path)
           Add(n, p) == IF path[n] = "/" THEN Append(p, <<>>)
                        ELSE [p EXCEPT ![Len(p)] = Append(@, path[n])]
           step == [n \in 1..N |-> [p \in Parts |-> Add(n, p)]]
           start == <<<<>>>>
           Eqn(f) == f = [n \in 0..N |-> IF n = 0 THEN start ELSE Add(n, f[n - 1])]
<1>1. N \in Nat
  BY DEF Text
<1>2. \A n \in 1..N : \A p \in Parts : Add(n, p) = SplitStep(path, n, p) /\ Add(n, p) \in Parts
  BY SplitStepProperties DEF SplitStep
<1>3. start \in Parts
  BY EmptySeq DEF Parts, Text
<1> HIDE DEF Add, start
<1>4. step \in [1..N -> [Parts -> Parts]]
  BY <1>2
<1>5. PICK f \in [0..N -> Parts] : f[0] = start /\ \A n \in 1..N : f[n] = step[n][f[n - 1]]
  <2> HIDE DEF step, N
  <2> QED
    BY <1>1, <1>3, <1>4, Iterates
<1>6. ASSUME NEW n \in 1..N PROVE f[n] = Add(n, f[n - 1])
  <2>1. n - 1 \in 0..N
    BY <1>1
  <2> QED
    BY <1>5, <2>1
<1>7. Eqn(f)
  <2>1. \A n \in 0..N : f[n] = IF n = 0 THEN start ELSE Add(n, f[n - 1])
    <3> HIDE DEF N, step
    <3> QED
      BY <1>1, <1>5, <1>6
  <2> QED
    BY <2>1
<1> DEFINE g == CHOOSE h : Eqn(h)
<1>8. Eqn(g)
  BY <1>7
<1>9. Split(path) = g[N]
  BY DEF Split, Add, start
<1>10. g[0] = start /\ \A n \in 1..N : g[n] = Add(n, g[n - 1])
  <2> HIDE DEF g, N
  <2> QED
    BY <1>1, <1>8
<1>11. \A n \in 0..N : g[n] \in Parts
  <2> DEFINE P == {n \in 0..N : g[n] \in Parts}
  <2> HIDE DEF g, N
  <2>1. 0 \in P
    BY <1>1, <1>3, <1>10
  <2>2. ASSUME NEW n \in 1..N, n - 1 \in P PROVE n \in P
    BY <1>2, <1>10, <2>2
  <2>3. P \in SUBSET (0..N)
    OBVIOUS
  <2>4. P = 0..N
    <3> HIDE DEF P
    <3> QED
      BY <1>1, <2>1, <2>2, <2>3, Induction
  <2> QED
    BY <2>4
<1>12. Splits(g, path)
  <2> HIDE DEF g
  <2>1. g \in [0..N -> Parts]
    <3> HIDE DEF N
    <3> QED
      BY <1>8, <1>11
  <2>2. \A n \in 1..N : g[n] = SplitStep(path, n, g[n - 1])
    <3>1. \A n \in 1..N : n - 1 \in 0..N
      BY <1>1
    <3> QED
      BY <1>2, <1>10, <1>11, <3>1
  <2> QED
    BY <1>10, <2>1, <2>2 DEF Splits, start
<1> QED
  BY <1>9, <1>12

\* What is added to parts leaves those before the last, and what the last has.
Extends(p, q) ==
    LET a == Len(p) IN
    /\ a <= Len(q)
    /\ \A i \in 1..(a - 1) : q[i] = p[i]
    /\ Len(p[a]) <= Len(q[a])
    /\ \A j \in 1..Len(p[a]) : q[a][j] = p[a][j]

\* There is at least one part, and each is a text.
LEMMA PartsProperties ==
    ASSUME NEW p \in Parts
    PROVE  /\ Len(p) \in Nat \ {0}
           /\ \A i \in 1..Len(p) : p[i] \in Text /\ Len(p[i]) \in Nat
BY EmptySeq, ElementOfSeq, LenProperties DEF Parts, Text

\* What extends parts that extend others extends those.
LEMMA ExtendsTransitive ==
    ASSUME NEW p \in Parts, NEW q \in Parts, NEW r \in Parts,
           Extends(p, q), Extends(q, r)
    PROVE  Extends(p, r)
<1> DEFINE a == Len(p)
           b == Len(q)
           c == Len(r)
<1>1. a \in Nat \ {0} /\ b \in Nat \ {0} /\ c \in Nat \ {0} /\ a <= b /\ b <= c
  BY PartsProperties DEF Extends
<1>2. Len(p[a]) \in Nat /\ Len(q[a]) \in Nat /\ Len(r[a]) \in Nat
  BY <1>1, PartsProperties
<1>3. \A i \in 1..(a - 1) : r[i] = p[i]
  BY <1>1 DEF Extends
<1>4. CASE a = b
  BY <1>1, <1>2, <1>3, <1>4 DEF Extends
<1>5. CASE a < b
  <2>1. r[a] = q[a]
    BY <1>1, <1>5 DEF Extends
  <2> QED
    BY <1>1, <1>3, <2>1 DEF Extends
<1> QED
  BY <1>1, <1>4, <1>5

\* Parts extend themselves.
LEMMA ExtendsReflexive ==
    ASSUME NEW p \in Parts
    PROVE  Extends(p, p)
BY PartsProperties DEF Extends

\* One more character extends the parts.
LEMMA StepExtends ==
    ASSUME NEW path \in Text, NEW n \in 1..Len(path), NEW p \in Parts
    PROVE  Extends(p, SplitStep(path, n, p))
<1> DEFINE q == SplitStep(path, n, p)
           a == Len(p)
<1>1. a \in Nat \ {0} /\ p[a] \in Text /\ Len(p[a]) \in Nat /\ path[n] \in Chars
  BY SplitStepProperties, PartsProperties DEF Text
<1>2. CASE path[n] = "/"
  <2>1. Len(q) = a + 1 /\ \A i \in 1..a : q[i] = p[i]
    BY <1>2, SplitStepProperties
  <2> QED
    BY <1>1, <2>1 DEF Extends
<1>3. CASE path[n] # "/"
  <2>1. Len(q) = a /\ q[a] = Append(p[a], path[n]) /\ \A i \in 1..(a - 1) : q[i] = p[i]
    BY <1>3, SplitStepProperties
  <2>2. /\ Len(Append(p[a], path[n])) = Len(p[a]) + 1
        /\ \A j \in 1..Len(p[a]) : Append(p[a], path[n])[j] = p[a][j]
    BY <1>1, AppendProperties DEF Text
  <2> QED
    BY <1>1, <2>1, <2>2 DEF Extends
<1> QED
  BY <1>2, <1>3

\* So do all that come later.
LEMMA SplitExtends ==
    ASSUME NEW path \in Text, NEW parts, Splits(parts, path),
           NEW k \in 0..Len(path), NEW n \in k..Len(path)
    PROVE  Extends(parts[k], parts[n])
<1> DEFINE N == Len(path) - k
           P == {m \in 0..N : Extends(parts[k], parts[k + m])}
<1>1. Len(path) \in Nat /\ N \in Nat /\ k \in Nat
  BY DEF Text
<1>2. \A m \in 0..N : parts[k + m] \in Parts
  BY <1>1 DEF Splits
<1>3. 0 \in P
  <2>1. k + 0 = k /\ parts[k] \in Parts /\ 0 \in 0..N
    BY <1>1, <1>2
  <2> QED
    BY <2>1, ExtendsReflexive
<1>4. ASSUME NEW m \in 1..N, m - 1 \in P PROVE m \in P
  <2>1. k + m \in 1..Len(path) /\ (k + m) - 1 = k + (m - 1)
    BY <1>1
  <2>2. parts[k + m] = SplitStep(path, k + m, parts[k + (m - 1)])
    BY <2>1 DEF Splits
  <2>3. Extends(parts[k], parts[k + (m - 1)])
    BY <1>4
  <2>4. m \in 0..N /\ m - 1 \in 0..N /\ 0 \in 0..N /\ k + 0 = k
    BY <1>1
  <2>5. parts[k + m] \in Parts /\ parts[k + (m - 1)] \in Parts /\ parts[k] \in Parts
    BY <1>2, <2>4
  <2>6. Extends(parts[k + (m - 1)], parts[k + m])
    BY <2>1, <2>2, <2>5, StepExtends
  <2>7. Extends(parts[k], parts[k + m])
    BY <2>3, <2>5, <2>6, ExtendsTransitive
  <2> QED
    BY <2>4, <2>7
<1>5. P = 0..N
  <2>1. P \in SUBSET (0..N)
    OBVIOUS
  <2> HIDE DEF P, N
  <2> QED
    BY <1>1, <1>3, <1>4, <2>1, Induction
<1>6. n - k \in 0..N /\ k + (n - k) = n
  BY <1>1
<1> QED
  BY <1>5, <1>6

\* Where two paths are the same, so are their parts.
LEMMA SplitAgrees ==
    ASSUME NEW s \in Text, NEW t \in Text, NEW u, NEW v, Splits(u, s), Splits(v, t),
           NEW c \in Nat, c <= Len(s), c <= Len(t), \A i \in 1..c : s[i] = t[i]
    PROVE  u[c] = v[c]
<1> DEFINE P == {m \in 0..c : u[m] = v[m]}
<1>1. Len(s) \in Nat /\ Len(t) \in Nat
  BY DEF Text
<1>2. 0 \in P
  BY DEF Splits
<1>3. ASSUME NEW m \in 1..c, m - 1 \in P PROVE m \in P
  <2>1. m \in 1..Len(s) /\ m \in 1..Len(t) /\ s[m] = t[m]
    BY <1>1
  <2>2. u[m] = SplitStep(s, m, u[m - 1]) /\ v[m] = SplitStep(t, m, v[m - 1])
    BY <2>1 DEF Splits
  <2>3. u[m - 1] = v[m - 1]
    BY <1>3
  <2> QED
    BY <2>1, <2>2, <2>3 DEF SplitStep
<1>4. P = 0..c
  <2>1. P \in SUBSET (0..c)
    OBVIOUS
  <2> HIDE DEF P
  <2> QED
    BY <1>2, <1>3, <2>1, Induction
<1> QED
  BY <1>4

\* What of the parts so far is final: all but the last, and the last before a slash.
Final(parts, path, c) ==
    LET p == parts[c] a == Len(p) q == parts[Len(path)] IN
    /\ p \in Parts /\ q \in Parts /\ a \in Nat \ {0} /\ Len(q) \in Nat /\ a <= Len(q)
    /\ Len(p[a]) \in Nat /\ Len(q[a]) \in Nat
    /\ \A i \in 1..(a - 1) : q[i] = p[i]
    /\ c < Len(path) /\ path[c + 1] = "/" => q[a] = p[a] /\ a < Len(q)
    /\ c < Len(path) /\ path[c + 1] # "/" =>
         Len(p[a]) < Len(q[a]) /\ q[a][Len(p[a]) + 1] = path[c + 1]

\* It is final: from here, a slash ends the last part, other characters lengthen it.
LEMMA SplitFrom ==
    ASSUME NEW path \in Text, NEW parts, Splits(parts, path), NEW c \in 0..Len(path)
    PROVE  Final(parts, path, c)
<1> DEFINE p == parts[c]
           a == Len(p)
           q == parts[Len(path)]
           r == parts[c + 1]
<1>1. Len(path) \in Nat /\ c \in Nat
  BY DEF Text
<1>2. p \in Parts /\ q \in Parts /\ Extends(p, q)
  <2>1. Len(path) \in c..Len(path) /\ Len(path) \in 0..Len(path)
    BY <1>1
  <2> QED
    BY <2>1, SplitExtends DEF Splits
<1>3. a \in Nat \ {0} /\ p[a] \in Text /\ Len(p[a]) \in Nat
  BY <1>2, PartsProperties
<1>4. /\ Len(q) \in Nat /\ a <= Len(q) /\ Len(q[a]) \in Nat
      /\ \A i \in 1..(a - 1) : q[i] = p[i]
  <2>1. Len(q) \in Nat /\ a <= Len(q) /\ \A i \in 1..(a - 1) : q[i] = p[i]
    BY <1>2, PartsProperties DEF Extends
  <2>2. a \in 1..Len(q)
    BY <1>3, <2>1
  <2> QED
    BY <1>2, <2>1, <2>2, PartsProperties
<1>5. ASSUME c < Len(path)
      PROVE  /\ c + 1 \in 1..Len(path) /\ r \in Parts /\ Extends(r, q)
             /\ r = SplitStep(path, c + 1, p)
  <2>1. c + 1 \in 1..Len(path) /\ (c + 1) - 1 = c /\ Len(path) \in (c + 1)..Len(path)
    BY <1>1, <1>5
  <2>2. r = SplitStep(path, c + 1, p) /\ r \in Parts
    BY <2>1 DEF Splits
  <2>3. c + 1 \in 0..Len(path)
    BY <2>1
  <2> QED
    BY <2>1, <2>2, <2>3, SplitExtends
<1>6. ASSUME c < Len(path), path[c + 1] = "/" PROVE q[a] = p[a] /\ a < Len(q)
  <2>1. Len(r) = a + 1 /\ \A i \in 1..a : r[i] = p[i]
    BY <1>2, <1>5, <1>6, SplitStepProperties
  <2>2. Len(r) <= Len(q) /\ \A i \in 1..(Len(r) - 1) : q[i] = r[i]
    BY <1>5, <1>6 DEF Extends
  <2>3. a \in 1..a /\ a \in 1..(Len(r) - 1)
    BY <1>3, <2>1
  <2> QED
    BY <1>3, <1>4, <2>1, <2>2, <2>3, SMTT(30)
<1>7. ASSUME c < Len(path), path[c + 1] # "/"
      PROVE  Len(p[a]) < Len(q[a]) /\ q[a][Len(p[a]) + 1] = path[c + 1]
  <2>1. Len(r) = a /\ r[a] = Append(p[a], path[c + 1])
    <3> DEFINE x == SplitStep(path, c + 1, p)
    <3>1. c + 1 \in 1..Len(path) /\ p \in Parts /\ r = x
      BY <1>2, <1>5, <1>7
    <3>2. path[c + 1] # "/" => Len(x) = a /\ x[a] = Append(p[a], path[c + 1])
      <4> HIDE DEF p
      <4> QED
        BY <3>1, SplitStepProperties
    <3> HIDE DEF x, p, a, r
    <3> QED
      BY <1>7, <3>1, <3>2
  <2>2. path[c + 1] \in Chars
    BY <1>5, <1>7 DEF Text
  <2>3. /\ Len(r[a]) = Len(p[a]) + 1
        /\ r[a][Len(p[a]) + 1] = path[c + 1]
    BY <1>3, <2>1, <2>2, AppendProperties DEF Text
  <2>4. Len(r[a]) <= Len(q[a]) /\ \A j \in 1..Len(r[a]) : q[a][j] = r[a][j]
    BY <1>5, <1>7, <2>1 DEF Extends
  <2>5. Len(p[a]) + 1 \in 1..Len(r[a])
    BY <1>3, <2>3
  <2>6. q[a][Len(p[a]) + 1] = path[c + 1]
    <3> HIDE DEF p, q, r, a
    <3> QED
      BY <2>3, <2>4, <2>5
  <2>7. Len(p[a]) < Len(q[a])
    <3> HIDE DEF p, q, r, a
    <3> QED
      BY <1>3, <1>4, <2>3, <2>4
  <2> QED
    BY <2>6, <2>7
<1> QED
  BY <1>2, <1>3, <1>4, <1>6, <1>7 DEF Final

\* One sequence is a prefix of another.
LEMMA PrefixIs ==
    ASSUME NEW S, NEW s \in Seq(S), NEW t \in Seq(S)
    PROVE  IsPrefix(s, t) <=> Len(s) <= Len(t) /\ \A i \in 1..Len(s) : s[i] = t[i]
<1>1. Len(s) \in Nat /\ Len(t) \in Nat
  OBVIOUS
<1>2. SubSeq(s, 1, Len(s)) = s
  BY SubSeqFull
<1>3. ASSUME Len(s) <= Len(t)
      PROVE  /\ SubSeq(t, 1, Len(s)) \in Seq(S)
             /\ Len(SubSeq(t, 1, Len(s))) = Len(s)
             /\ \A i \in 1..Len(s) : SubSeq(t, 1, Len(s))[i] = t[i]
  <2>1. \A i \in 1..Len(s) : t[i] \in S
    BY <1>1, <1>3
  <2>2. /\ SubSeq(t, 1, Len(s)) \in Seq(S)
        /\ Len(SubSeq(t, 1, Len(s))) = IF 1 <= Len(s) THEN (Len(s) - 1) + 1 ELSE 0
        /\ \A i \in 1..((Len(s) - 1) + 1) : SubSeq(t, 1, Len(s))[i] = t[(1 + i) - 1]
    BY <1>1, <2>1, SubSeqProperties
  <2> QED
    BY <1>1, <2>2
<1>4. ASSUME Len(s) <= Len(t), \A i \in 1..Len(s) : s[i] = t[i]
      PROVE  SubSeq(t, 1, Len(s)) = s
  BY <1>3, <1>4, SeqEqual
<1> QED
  BY <1>2, <1>3, <1>4 DEF IsPrefix

\* Trimmed is up to the last character that is none of the slashes at the end.
LEMMA Trimmed ==
    ASSUME NEW s \in Text
    PROVE  LET t == TrimRight(s) n == Len(t) IN
           /\ t \in Text /\ n \in 0..Len(s)
           /\ \A i \in 1..n : t[i] = s[i]
           /\ n # 0 => t[n] # "/"
           /\ \A i \in (n + 1)..Len(s) : s[i] = "/"
<1> DEFINE kept == {0} \cup {i \in DOMAIN s : s[i] # "/"}
           R == {Len(s) - i : i \in kept}
           Last1(k) == \A j \in kept : j <= k
           m == CHOOSE i \in kept : Last1(i)
<1>1. Len(s) \in Nat /\ DOMAIN s = 1..Len(s)
  BY DEF Text
<1>2. R \in SUBSET Nat /\ R # {}
  BY <1>1
<1>3. PICK r \in R : \A j \in R : r <= j
  BY <1>2, Least
<1>4. PICK i \in kept : r = Len(s) - i
  BY <1>3
<1>5. \A j \in kept : j <= i
  <2>1. ASSUME NEW j \in kept PROVE j <= i
    <3>1. r <= Len(s) - j
      BY <1>3
    <3>2. i \in Nat /\ j \in Nat
      BY <1>1
    <3> QED
      BY <1>1, <1>4, <3>1, <3>2
  <2> QED
    BY <2>1
<1>6. m \in kept /\ Last1(m)
  BY <1>5
<1>7. m \in 0..Len(s) /\ (m # 0 => s[m] # "/")
  BY <1>1, <1>6
<1>8. \A j \in (m + 1)..Len(s) : s[j] = "/"
  <2>1. ASSUME NEW j \in (m + 1)..Len(s), s[j] # "/" PROVE FALSE
    <3>1. j \in DOMAIN s /\ ~(j <= m)
      BY <1>1, <1>7
    <3> QED
      BY <1>6, <2>1, <3>1
  <2> QED
    BY <2>1
<1>9. TrimRight(s) = SubSeq(s, 1, m)
  BY DEF TrimRight
<1> HIDE DEF m
<1>10. \A j \in 1..m : s[j] \in Chars
  BY <1>1, <1>7 DEF Text
<1>11. /\ SubSeq(s, 1, m) \in Text
       /\ Len(SubSeq(s, 1, m)) = m
       /\ \A j \in 1..m : SubSeq(s, 1, m)[j] = s[j]
  <2>1. /\ SubSeq(s, 1, m) \in Seq(Chars)
        /\ Len(SubSeq(s, 1, m)) = IF 1 <= m THEN (m - 1) + 1 ELSE 0
        /\ \A j \in 1..((m - 1) + 1) : SubSeq(s, 1, m)[j] = s[(1 + j) - 1]
    BY <1>7, <1>10, SubSeqProperties
  <2> QED
    BY <1>7, <2>1 DEF Text
<1> QED
  BY <1>1, <1>7, <1>8, <1>9, <1>11

\* A path is in a directory, part by part, if it is the directory or goes on with a
\* slash.
LEMMA InDirectory ==
    ASSUME NEW t \in Text, NEW path \in Text
    PROVE  IsPrefix(Split(t), Split(path)) <=> path = t \/ IsPrefix(Append(t, "/"), path)
<1> DEFINE n == Len(t)
           m == Len(path)
<1>1. n \in Nat /\ m \in Nat
  BY DEF Text
<1>2. PICK u : Splits(u, t) /\ Split(t) = u[n]
  BY SplitDefined
<1>3. PICK v : Splits(v, path) /\ Split(path) = v[m]
  BY SplitDefined
<1> DEFINE p == u[n]
           q == v[m]
<1>4. p \in Seq(Text) /\ q \in Seq(Text) /\ p \in Parts /\ q \in Parts
  BY <1>1, <1>2, <1>3, SMTT(30) DEF Splits, Parts
<1>5. IsPrefix(p, q) <=> Len(p) <= Len(q) /\ \A i \in 1..Len(p) : p[i] = q[i]
  BY <1>4, PrefixIs
<1>6. IsPrefix(Append(t, "/"), path) <=>
          n < m /\ path[n + 1] = "/" /\ \A i \in 1..n : t[i] = path[i]
  <2> DEFINE e == Append(t, "/")
  <2>1. e \in Seq(Chars) /\ Len(e) = n + 1 /\ e[n + 1] = "/" /\ \A i \in 1..n : e[i] = t[i]
    <3>1. "/" \in Chars
      BY DEF Chars
    <3>2. t \in Seq(Chars)
      BY DEF Text
    <3> QED
      BY <3>1, <3>2, AppendProperties
  <2>2. IsPrefix(e, path) <=> Len(e) <= m /\ \A i \in 1..Len(e) : e[i] = path[i]
    <3>1. path \in Seq(Chars)
      BY DEF Text
    <3> HIDE DEF e
    <3> QED
      BY <2>1, <3>1, PrefixIs
  <2> HIDE DEF e
  <2>3. (\A i \in 1..(n + 1) : e[i] = path[i])
        <=> e[n + 1] = path[n + 1] /\ \A i \in 1..n : e[i] = path[i]
    <3>1. \A i \in 1..(n + 1) : i = n + 1 \/ i \in 1..n
      BY <1>1
    <3>2. n + 1 \in 1..(n + 1) /\ \A i \in 1..n : i \in 1..(n + 1)
      BY <1>1
    <3> QED
      BY <3>1, <3>2
  <2> QED
    BY <1>1, <2>1, <2>2, <2>3 DEF e
<1>7. ASSUME path = t \/ IsPrefix(Append(t, "/"), path) PROVE IsPrefix(p, q)
  <2>1. n <= m /\ \A i \in 1..n : t[i] = path[i]
    BY <1>1, <1>6, <1>7
  <2>2. u[n] = v[n]
    BY <1>1, <1>2, <1>3, <2>1, SplitAgrees
  <2>3. CASE path = t
    <3>1. p = q
      BY <2>2, <2>3
    <3> QED
      BY <1>4, <1>5, <3>1, PartsProperties
  <2>4. CASE path # t
    <3>1. n < m /\ path[n + 1] = "/"
      BY <1>6, <1>7, <2>4
    <3>2. /\ Len(p) \in Nat \ {0} /\ Len(p) <= Len(q) /\ q[Len(p)] = p[Len(p)]
          /\ \A i \in 1..(Len(p) - 1) : q[i] = p[i]
      <4>1. n \in 0..m
        BY <1>1, <2>1
      <4> QED
        BY <1>3, <2>2, <3>1, <4>1, SplitFrom DEF Final
    <3>3. \A i \in 1..Len(p) : i = Len(p) \/ i \in 1..(Len(p) - 1)
      BY <3>2
    <3> HIDE DEF p, q
    <3> QED
      BY <1>5, <3>2, <3>3
  <2> QED
    BY <2>3, <2>4
<1>8. ASSUME IsPrefix(p, q) PROVE path = t \/ IsPrefix(Append(t, "/"), path)
  <2>1. Len(p) <= Len(q) /\ \A i \in 1..Len(p) : p[i] = q[i]
    BY <1>5, <1>8
  <2> DEFINE D == {i \in 1..n : i \in 1..m /\ t[i] # path[i]}
             Same(c) == c <= n /\ c <= m /\ \A i \in 1..c : t[i] = path[i]
             a(c) == Len(u[c])
             w(c) == u[c][a(c)]
  <2>2. ASSUME NEW c \in Nat, Same(c)
        PROVE  /\ u[c] = v[c]
               /\ Len(w(c)) \in Nat /\ Len(p) \in Nat /\ Len(q) \in Nat
               /\ a(c) <= Len(p) /\ p[a(c)] = q[a(c)]
               /\ c < n /\ t[c + 1] = "/" => p[a(c)] = w(c) /\ a(c) < Len(p)
               /\ c < n /\ t[c + 1] # "/" =>
                    Len(w(c)) < Len(p[a(c)]) /\ p[a(c)][Len(w(c)) + 1] = t[c + 1]
               /\ c < m /\ path[c + 1] = "/" => q[a(c)] = w(c) /\ a(c) < Len(q)
               /\ c < m /\ path[c + 1] # "/" =>
                    Len(w(c)) < Len(q[a(c)]) /\ q[a(c)][Len(w(c)) + 1] = path[c + 1]
    <3>1. u[c] = v[c]
      BY <1>2, <1>3, <2>2, SplitAgrees
    <3>2. c \in 0..n /\ c \in 0..m
      BY <1>1, <2>2
    <3>3. /\ a(c) \in Nat \ {0} /\ a(c) <= Len(p) /\ Len(w(c)) \in Nat /\ Len(p) \in Nat
          /\ c < n /\ t[c + 1] = "/" => p[a(c)] = w(c) /\ a(c) < Len(p)
          /\ c < n /\ t[c + 1] # "/" =>
               Len(w(c)) < Len(p[a(c)]) /\ p[a(c)][Len(w(c)) + 1] = t[c + 1]
      <4>1. Final(u, t, c)
        BY <1>2, <3>2, SplitFrom
      <4> QED
        BY <4>1 DEF Final
    <3>4. /\ Len(q) \in Nat
          /\ c < m /\ path[c + 1] = "/" => q[a(c)] = w(c) /\ a(c) < Len(q)
          /\ c < m /\ path[c + 1] # "/" =>
               Len(w(c)) < Len(q[a(c)]) /\ q[a(c)][Len(w(c)) + 1] = path[c + 1]
      <4>1. LET b == Len(v[c]) x == v[c][b] IN
            /\ Len(q) \in Nat
            /\ c < m /\ path[c + 1] = "/" => q[b] = x /\ b < Len(q)
            /\ c < m /\ path[c + 1] # "/" => Len(x) < Len(q[b]) /\ q[b][Len(x) + 1] = path[c + 1]
        <5>1. Final(v, path, c)
          BY <1>3, <3>2, SplitFrom
        <5> QED
          BY <5>1 DEF Final
      <4> QED
        BY <3>1, <4>1
    <3>5. p[a(c)] = q[a(c)]
      <4>1. a(c) \in 1..Len(p)
        BY <3>3
      <4> HIDE DEF p, q, a
      <4> QED
        BY <2>1, <4>1
    <3> QED
      BY <3>1, <3>3, <3>4, <3>5
  <2> HIDE DEF p, q, a, w
  <2>3. CASE D # {}
    <3>1. D \in SUBSET Nat
      OBVIOUS
    <3>2. PICK d \in D : \A j \in D : d <= j
      BY <2>3, <3>1, Least
    <3> DEFINE c == d - 1
    <3>3. c \in Nat /\ c + 1 = d /\ c < n /\ c < m /\ t[d] # path[d]
      BY <1>1, <3>2
    <3>4. Same(c)
      <4>1. ASSUME NEW i \in 1..c, t[i] # path[i] PROVE FALSE
        <5>1. i \in D /\ ~(d <= i)
          BY <1>1, <3>3, <4>1
        <5> QED
          BY <3>2, <5>1
      <4> QED
        BY <1>1, <3>3, <4>1
    <3> HIDE DEF c, D, Same
    <3>5. FALSE
      <4>1. CASE t[d] = "/"
        <5>1. p[a(c)] = w(c) /\ p[a(c)] = q[a(c)] /\ Len(w(c)) < Len(q[a(c)])
          BY <2>2, <3>3, <3>4, <4>1
        <5> QED
          BY <2>2, <3>3, <3>4, <5>1
      <4>2. CASE path[d] = "/"
        <5>1. q[a(c)] = w(c) /\ p[a(c)] = q[a(c)] /\ Len(w(c)) < Len(p[a(c)])
          BY <2>2, <3>3, <3>4, <4>2
        <5> QED
          BY <2>2, <3>3, <3>4, <5>1
      <4>3. CASE t[d] # "/" /\ path[d] # "/"
        BY <2>2, <3>3, <3>4, <4>3
      <4> QED
        BY <4>1, <4>2, <4>3
    <3> QED
      BY <3>5
  <2>4. CASE D = {}
    <3>1. CASE n <= m
      <4>1. \A i \in 1..n : t[i] = path[i]
        BY <1>1, <2>4, <3>1
      <4>2. Same(n)
        BY <1>1, <3>1, <4>1
      <4>3. CASE n = m
        BY <4>1, <4>3, SeqEqual DEF Text
      <4>4. CASE n < m
        <5>1. path[n + 1] = "/"
          <6> HIDE DEF Same, D
          <6>1. p[a(n)] = w(n)
            BY DEF p, a, w
          <6> QED
            BY <1>1, <2>2, <4>2, <4>4, <6>1
        <5> QED
          BY <1>6, <4>1, <4>4, <5>1
      <4> QED
        BY <1>1, <3>1, <4>3, <4>4
    <3>2. CASE m < n
      <4>1. Same(m)
        BY <1>1, <2>4, <3>2
      <4> HIDE DEF Same, D
      <4>2. q[a(m)] = w(m) /\ Len(q) = a(m)
        <5>1. u[m] = v[m]
          BY <1>1, <2>2, <4>1
        <5> QED
          BY <5>1 DEF q, a, w
      <4>3. FALSE
        BY <1>1, <2>1, <2>2, <3>2, <4>1, <4>2
      <4> QED
        BY <4>3
    <3> QED
      BY <1>1, <3>1, <3>2
  <2> QED
    BY <2>3, <2>4
<1> QED
  BY <1>2, <1>3, <1>7, <1>8

\* resolveMount lets a path match a prefix if it is in the directory that it names.
LEMMA CoversIsMatch ==
    ASSUME NEW m, m.prefix \in Text, NEW path \in Text, path # <<>>, path[1] = "/"
    PROVE  PathMatches(m, path) <=> IsPrefix(Directory(m.prefix), Split(path))
<1> DEFINE t == TrimRight(m.prefix)
<1>1. t \in Text /\ Len(t) \in 0..Len(m.prefix) /\ (Len(t) # 0 => t[Len(t)] # "/")
  BY Trimmed
<1>2. IsPrefix(Split(t), Split(path)) <=> path = t \/ IsPrefix(Append(t, "/"), path)
  BY <1>1, InDirectory
<1>3. ASSUME m.prefix = <<"/">> PROVE IsPrefix(Append(t, "/"), path)
  <2>1. Len(m.prefix) = 1 /\ m.prefix[1] = "/"
    BY <1>3
  <2>2. \A i \in 1..Len(t) : t[i] = m.prefix[i]
    BY Trimmed
  <2>3. Len(t) = 0
    <3>1. CASE Len(t) = 1
      BY <1>1, <2>1, <2>2, <3>1
    <3> QED
      BY <1>1, <2>1, <3>1
  <2>4. "/" \in Chars
    BY DEF Chars
  <2>5. Append(t, "/") \in Seq(Chars) /\ Len(Append(t, "/")) = 1 /\ Append(t, "/")[1] = "/"
    BY <1>1, <2>3, <2>4, AppendProperties DEF Text
  <2>6. Len(path) \in Nat \ {0}
    BY EmptySeq DEF Text
  <2>7. 1 <= Len(path) /\ \A i \in 1..1 : Append(t, "/")[i] = path[i]
    BY <2>5, <2>6
  <2> HIDE DEF t
  <2> QED
    BY <2>5, <2>7, PrefixIs DEF Text
<1> QED
  BY <1>2, <1>3 DEF PathMatches, Directory

\* Of two directories that a path is in, the one with more parts is longer, by a slash
\* and a name: also than a prefix for the other, unless that has a needless slash.
LEMMA DeeperIsLonger ==
    ASSUME NEW p \in Text, NEW q \in Text, NEW path \in Text,
           IsPrefix(Directory(p), Split(path)), IsPrefix(Directory(q), Split(path)),
           Len(p) >= Len(q), ~Slashed(p)
    PROVE  Len(Directory(q)) <= Len(Directory(p))
<1> DEFINE s == TrimRight(p)
           t == TrimRight(q)
           a == Len(s)
           b == Len(t)
<1>1. /\ s \in Text /\ a \in 0..Len(p) /\ a \in Nat /\ Len(p) \in Nat
      /\ \A i \in (a + 1)..Len(p) : p[i] = "/"
  BY Trimmed DEF Text
<1>2. /\ t \in Text /\ b \in 0..Len(q) /\ b \in Nat /\ Len(q) \in Nat
      /\ b # 0 => t[b] # "/"
  BY Trimmed DEF Text
<1>3. a >= Len(p) - 1
  <2>1. ASSUME a + 2 <= Len(p) PROVE FALSE
    <3>1. Len(p) \in (a + 1)..Len(p) /\ Len(p) - 1 \in (a + 1)..Len(p) /\ Len(p) > 1
      BY <1>1, <2>1
    <3> QED
      BY <1>1, <3>1 DEF Slashed
  <2> QED
    BY <1>1, <2>1
<1> HIDE DEF s, t
<1>4. PICK u : Splits(u, s) /\ Split(s) = u[a]
  BY <1>1, SplitDefined
<1>5. PICK v : Splits(v, t) /\ Split(t) = v[b]
  BY <1>2, SplitDefined
<1>6. path = s \/ IsPrefix(Append(s, "/"), path)
  BY <1>1, InDirectory DEF Directory, s
<1>7. path = t \/ IsPrefix(Append(t, "/"), path)
  BY <1>2, InDirectory DEF Directory, t
<1>8. ASSUME NEW x \in Text, path = x \/ IsPrefix(Append(x, "/"), path)
      PROVE  /\ Len(x) \in Nat /\ Len(path) \in Nat /\ Len(x) <= Len(path)
             /\ \A i \in 1..Len(x) : path[i] = x[i]
             /\ Len(x) < Len(path) => path[Len(x) + 1] = "/"
  <2>1. Len(x) \in Nat /\ Len(path) \in Nat
    BY DEF Text
  <2>2. CASE path = x
    BY <2>1, <2>2
  <2>3. CASE IsPrefix(Append(x, "/"), path)
    <3> DEFINE e == Append(x, "/")
    <3>1. "/" \in Chars
      BY DEF Chars
    <3>2. e \in Seq(Chars) /\ Len(e) = Len(x) + 1 /\ e[Len(x) + 1] = "/"
          /\ \A i \in 1..Len(x) : e[i] = x[i]
      BY <3>1, AppendProperties DEF Text
    <3> HIDE DEF e
    <3>3. Len(e) <= Len(path) /\ \A i \in 1..Len(e) : e[i] = path[i]
      <4>1. path \in Seq(Chars) /\ IsPrefix(e, path)
        BY <2>3 DEF e, Text
      <4> QED
        BY <3>2, <4>1, PrefixIs
    <3>4. Len(x) + 1 \in 1..Len(e) /\ \A i \in 1..Len(x) : i \in 1..Len(e)
      BY <2>1, <3>2
    <3> QED
      BY <2>1, <3>2, <3>3, <3>4
  <2> QED
    BY <1>8, <2>2, <2>3
<1>9. CASE b <= a
  <2>1. b \in Nat /\ \A i \in 1..b : t[i] = s[i]
    <3>1. \A i \in 1..b : i \in 1..a
      BY <1>1, <1>2, <1>9
    <3> QED
      BY <1>1, <1>2, <1>6, <1>7, <1>8, <3>1
  <2>2. v[b] = u[b]
    BY <1>1, <1>2, <1>4, <1>5, <1>9, <2>1, SplitAgrees
  <2>3. b \in 0..a /\ a \in b..a
    BY <1>1, <1>2, <1>9
  <2>4. Extends(u[b], u[a])
    BY <1>1, <1>4, <2>3, SplitExtends
  <2> QED
    BY <1>4, <1>5, <2>2, <2>4 DEF Extends, Directory, s, t
<1>10. CASE a < b
  <2>1. b = a + 1
    BY <1>1, <1>2, <1>3, <1>10
  <2>2. path[b] = "/"
    BY <1>1, <1>2, <1>6, <1>7, <1>8, <2>1
  <2>3. path[b] = t[b] /\ b # 0
    <3>1. b \in 1..b
      BY <1>1, <2>1
    <3> QED
      BY <1>2, <1>7, <1>8, <3>1
  <2> QED
    BY <1>2, <2>2, <2>3
<1> QED
  BY <1>1, <1>2, <1>9, <1>10

\* One more character of a path whose segments are taken.
SegmentStep(path, n, before) ==
    IF path[n] = "/" THEN before
    ELSE IF n = 1 \/ path[n - 1] = "/" THEN Append(before, <<path[n]>>)
    ELSE [before EXCEPT ![Len(before)] = Append(@, path[n])]

\* segs are what Segments(path) is from character to character.
Segmented(segs, path) ==
    /\ segs \in [0..Len(path) -> Seq(Text)]
    /\ segs[0] = <<>>
    /\ \A n \in 1..Len(path) : segs[n] = SegmentStep(path, n, segs[n - 1])
    /\ \A n \in 1..Len(path) : path[n] # "/" => segs[n] # <<>>

\* A character that is no slash is in a segment.
LEMMA SegmentStepProperties ==
    ASSUME NEW path \in Text, NEW n \in 1..Len(path), NEW p \in Seq(Text),
           p = <<>> => path[n] = "/" \/ n = 1 \/ path[n - 1] = "/"
    PROVE  /\ SegmentStep(path, n, p) \in Seq(Text)
           /\ path[n] # "/" => SegmentStep(path, n, p) # <<>>
<1>1. path[n] \in Chars /\ <<path[n]>> \in Text
  BY DEF Text
<1>2. CASE path[n] = "/"
  BY <1>2 DEF SegmentStep
<1>3. CASE path[n] # "/" /\ (n = 1 \/ path[n - 1] = "/")
  BY <1>1, <1>3, AppendProperties DEF SegmentStep
<1>4. CASE path[n] # "/" /\ ~(n = 1 \/ path[n - 1] = "/")
  <2>1. p \in Parts /\ SegmentStep(path, n, p) = SplitStep(path, n, p)
    BY <1>4 DEF SegmentStep, SplitStep, Parts
  <2>2. SplitStep(path, n, p) \in Parts
    BY <2>1, SplitStepProperties
  <2> QED
    BY <2>1, <2>2 DEF Parts
<1> QED
  BY <1>2, <1>3, <1>4

\* The recursion of Segments is well-founded.
LEMMA SegmentsDefined ==
    ASSUME NEW path \in Text
    PROVE  \E segs : Segmented(segs, path) /\ Segments(path) = segs[Len(path)]
<1> DEFINE N == Len(path)
           Add(n, p) == IF path[n] = "/" THEN p
                        ELSE IF n = 1 \/ path[n - 1] = "/" THEN Append(p, <<path[n]>>)
                        ELSE [p EXCEPT ![Len(p)] = Append(@, path[n])]
           start == <<>>
           Fits(n, p) == p = start => n = 0 \/ path[n] = "/"
           step == [n \in 1..N |-> [p \in Seq(Text) |->
                       IF Fits(n - 1, p) THEN Add(n, p) ELSE start]]
           Eqn(f) == f = [n \in 0..N |-> IF n = 0 THEN start ELSE Add(n, f[n - 1])]
<1>1. N \in Nat /\ start \in Seq(Text)
  BY DEF Text
<1>2. ASSUME NEW n \in 1..N, NEW p \in Seq(Text), Fits(n - 1, p)
      PROVE  Add(n, p) = SegmentStep(path, n, p) /\ Add(n, p) \in Seq(Text) /\ Fits(n, Add(n, p))
  <2>1. Add(n, p) = SegmentStep(path, n, p)
    BY DEF SegmentStep
  <2>2. p = <<>> => path[n] = "/" \/ n = 1 \/ path[n - 1] = "/"
    BY <1>1, <1>2
  <2>3. SegmentStep(path, n, p) \in Seq(Text) /\ (path[n] # "/" => SegmentStep(path, n, p) # <<>>)
    BY <2>2, SegmentStepProperties
  <2>4. n # 0
    BY <1>1
  <2> HIDE DEF Add
  <2> QED
    BY <2>1, <2>3, <2>4
<1> HIDE DEF Add, start
<1>3. step \in [1..N -> [Seq(Text) -> Seq(Text)]]
  BY <1>1, <1>2
<1>4. PICK f \in [0..N -> Seq(Text)] : f[0] = start /\ \A n \in 1..N : f[n] = step[n][f[n - 1]]
  <2> DEFINE S == Seq(Text)
  <2>1. start \in S /\ step \in [1..N -> [S -> S]]
    BY <1>1, <1>3
  <2> HIDE DEF step, N, S
  <2>0. N \in Nat
    BY <1>1
  <2>2. \E f \in [0..N -> S] : f[0] = start /\ \A n \in 1..N : f[n] = step[n][f[n - 1]]
    BY <2>0, <2>1, Iterates
  <2> QED
    BY <2>2 DEF S
<1>5. \A n \in 0..N : Fits(n, f[n])
  <2> DEFINE P == {n \in 0..N : Fits(n, f[n])}
  <2>1. 0 \in P
    BY <1>1
  <2>2. ASSUME NEW n \in 1..N, n - 1 \in P PROVE n \in P
    <3>1. n - 1 \in 0..N /\ n \in 0..N /\ f[n - 1] \in Seq(Text)
      BY <1>1
    <3>2. f[n] = Add(n, f[n - 1]) /\ Fits(n - 1, f[n - 1])
      BY <1>4, <2>2, <3>1
    <3> QED
      BY <1>2, <3>1, <3>2
  <2>3. P = 0..N
    <3>1. P \in SUBSET (0..N)
      OBVIOUS
    <3> HIDE DEF P, N
    <3> QED
      BY <1>1, <2>1, <2>2, <3>1, Induction
  <2> QED
    BY <2>3
<1>6. ASSUME NEW n \in 1..N PROVE f[n] = Add(n, f[n - 1])
  <2>1. n - 1 \in 0..N /\ f[n - 1] \in Seq(Text)
    BY <1>1, SMTT(30)
  <2>2. Fits(n - 1, f[n - 1])
    BY <1>5, <2>1
  <2> HIDE DEF Fits
  <2> QED
    BY <1>4, <2>1, <2>2
<1>7. Eqn(f)
  <2>1. \A n \in 0..N : f[n] = IF n = 0 THEN start ELSE Add(n, f[n - 1])
    <3> HIDE DEF N, step
    <3> QED
      BY <1>1, <1>4, <1>6
  <2> QED
    BY <2>1
<1> DEFINE g == CHOOSE h : Eqn(h)
<1>8. Eqn(g)
  BY <1>7
<1>9. Segments(path) = g[N]
  BY DEF Segments, Add, start
<1>10. g[0] = start /\ \A n \in 1..N : g[n] = Add(n, g[n - 1])
  <2> HIDE DEF g, N
  <2> QED
    BY <1>1, <1>8
<1>11. \A n \in 0..N : g[n] \in Seq(Text) /\ Fits(n, g[n])
  <2> DEFINE P == {n \in 0..N : g[n] \in Seq(Text) /\ Fits(n, g[n])}
  <2> HIDE DEF g, N, Fits
  <2>1. 0 \in P
    BY <1>1, <1>10 DEF Fits
  <2>2. ASSUME NEW n \in 1..N, n - 1 \in P PROVE n \in P
    BY <1>1, <1>2, <1>10, <2>2
  <2>3. P \in SUBSET (0..N)
    OBVIOUS
  <2>4. P = 0..N
    <3> HIDE DEF P
    <3> QED
      BY <1>1, <2>1, <2>2, <2>3, Induction
  <2> QED
    BY <2>4
<1>12. Segmented(g, path)
  <2> HIDE DEF g
  <2>1. g \in [0..N -> Seq(Text)]
    <3> HIDE DEF N, Fits
    <3> QED
      BY <1>8, <1>11
  <2>2. \A n \in 1..N : g[n] = SegmentStep(path, n, g[n - 1])
    <3>1. \A n \in 1..N : n - 1 \in 0..N
      BY <1>1
    <3> HIDE DEF Fits
    <3> QED
      BY <1>2, <1>10, <1>11, <3>1
  <2>3. \A n \in 1..N : path[n] # "/" => g[n] # <<>>
    BY <1>1, <1>11 DEF start
  <2> QED
    BY <1>10, <2>1, <2>2, <2>3 DEF Segmented, start
<1> QED
  BY <1>9, <1>12

\* Where two paths are the same, so are their segments.
LEMMA SegmentsAgree ==
    ASSUME NEW s \in Text, NEW t \in Text, NEW u, NEW v, Segmented(u, s), Segmented(v, t),
           NEW c \in Nat, c <= Len(s), c <= Len(t), \A i \in 1..c : s[i] = t[i]
    PROVE  u[c] = v[c]
<1> DEFINE P == {m \in 0..c : u[m] = v[m]}
<1>1. Len(s) \in Nat /\ Len(t) \in Nat
  BY DEF Text
<1>2. 0 \in P
  BY DEF Segmented
<1>3. ASSUME NEW m \in 1..c, m - 1 \in P PROVE m \in P
  <2>1. m \in 1..Len(s) /\ m \in 1..Len(t) /\ s[m] = t[m]
    BY <1>1
  <2>2. u[m] = SegmentStep(s, m, u[m - 1]) /\ v[m] = SegmentStep(t, m, v[m - 1])
    BY <2>1 DEF Segmented
  <2>3. u[m - 1] = v[m - 1]
    BY <1>3
  <2>4. m # 1 => s[m - 1] = t[m - 1]
    BY <1>1
  <2> QED
    BY <2>1, <2>2, <2>3, <2>4 DEF SegmentStep
<1>4. P = 0..c
  <2>1. P \in SUBSET (0..c)
    OBVIOUS
  <2> HIDE DEF P
  <2> QED
    BY <1>2, <1>3, <2>1, Induction
<1> QED
  BY <1>4

\* A path with only slashes has no segments, and one that does not end in a slash has.
LEMMA SegmentsProperties ==
    ASSUME NEW s \in Text
    PROVE  /\ Segments(s) \in Seq(Text)
           /\ (\A i \in 1..Len(s) : s[i] = "/") => Segments(s) = <<>>
           /\ Segments(s) = <<>> => s = <<>> \/ s[Len(s)] = "/"
<1>1. PICK u : Segmented(u, s) /\ Segments(s) = u[Len(s)]
  BY SegmentsDefined
<1>2. Len(s) \in Nat /\ Len(s) \in 0..Len(s)
  BY DEF Text
<1>3. Segments(s) \in Seq(Text)
  <2> DEFINE S == Seq(Text)
  <2>1. u \in [0..Len(s) -> S]
    BY <1>1 DEF Segmented
  <2> HIDE DEF S
  <2>2. u[Len(s)] \in S
    BY <1>2, <2>1
  <2> QED
    BY <1>1, <2>2 DEF S
<1>4. ASSUME \A i \in 1..Len(s) : s[i] = "/" PROVE Segments(s) = <<>>
  <2> DEFINE P == {m \in 0..Len(s) : u[m] = <<>>}
             N == Len(s)
  <2>1. 0 \in P
    BY <1>1, <1>2 DEF Segmented
  <2>2. ASSUME NEW m \in 1..N, m - 1 \in P PROVE m \in P
    <3>1. u[m] = SegmentStep(s, m, u[m - 1])
      BY <1>1 DEF Segmented
    <3> QED
      BY <1>2, <1>4, <2>2, <3>1 DEF SegmentStep
  <2>3. P = 0..N
    <3>1. P \in SUBSET (0..N)
      OBVIOUS
    <3> HIDE DEF P, N
    <3>2. N \in Nat
      BY <1>2 DEF N
    <3> QED
      BY <2>1, <2>2, <3>1, <3>2, Induction
  <2> QED
    BY <1>1, <1>2, <2>3
<1>5. ASSUME s # <<>>, s[Len(s)] # "/" PROVE Segments(s) # <<>>
  <2>1. Len(s) \in 1..Len(s)
    BY <1>2, <1>5, EmptySeq DEF Text
  <2> QED
    BY <1>1, <1>5, <2>1 DEF Segmented
<1> QED
  BY <1>3, <1>4, <1>5

\* Names for what the provers would take apart.
Joined(p, q) == p \o q

Pushed(p, e) == Append(p, e)

Lengthened(p, e) == [p EXCEPT ![Len(p)] = Append(@, e)]

\* An element that is added to the second of two sequences is added to both.
LEMMA AppendToConcat ==
    ASSUME NEW S, NEW p \in Seq(S), NEW q \in Seq(S), NEW e \in S
    PROVE  Pushed(Joined(p, q), e) = Joined(p, Pushed(q, e))
<1> DEFINE n == Len(p)
           m == Len(q)
           l == Append(p \o q, e)
           r == p \o Append(q, e)
<1>1. /\ n \in Nat /\ m \in Nat
      /\ p \o q \in Seq(S) /\ Len(p \o q) = n + m
      /\ \A i \in 1..(n + m) : (p \o q)[i] = IF i <= n THEN p[i] ELSE q[i - n]
  BY ConcatProperties
<1>2. /\ Append(q, e) \in Seq(S) /\ Len(Append(q, e)) = m + 1
      /\ Append(q, e)[m + 1] = e /\ \A i \in 1..m : Append(q, e)[i] = q[i]
  BY AppendProperties
<1>3. /\ l \in Seq(S) /\ Len(l) = n + m + 1 /\ l[n + m + 1] = e
      /\ \A i \in 1..(n + m) : l[i] = (p \o q)[i]
  BY <1>1, AppendProperties
<1>4. /\ r \in Seq(S) /\ Len(r) = n + (m + 1)
      /\ \A i \in 1..(n + (m + 1)) : r[i] = IF i <= n THEN p[i] ELSE Append(q, e)[i - n]
  BY <1>2, ConcatProperties
<1> HIDE DEF l, r
<1>5. Len(l) = Len(r)
  BY <1>1, <1>3, <1>4
<1>6. ASSUME NEW i \in 1..Len(l) PROVE l[i] = r[i]
  <2> DEFINE qe == Append(q, e)
             pq == p \o q
  <2>1. i \in 1..(n + m + 1)
    BY <1>1, <1>3
  <2>2. /\ qe[m + 1] = e /\ \A j \in 1..m : qe[j] = q[j]
        /\ \A j \in 1..(n + m) : pq[j] = IF j <= n THEN p[j] ELSE q[j - n]
        /\ \A j \in 1..(n + m) : l[j] = pq[j]
    BY <1>1, <1>2, <1>3
  <2> HIDE DEF qe, pq, n, m
  <2>6. r[i] = IF i <= n THEN p[i] ELSE qe[i - n]
    <3>1. i \in 1..(n + (m + 1))
      BY <1>1, <2>1
    <3>2. \A j \in 1..(n + (m + 1)) : r[j] = IF j <= n THEN p[j] ELSE qe[j - n]
      BY <1>4 DEF qe
    <3> QED
      BY <3>1, <3>2
  <2>3. CASE i <= n
    BY <1>1, <2>1, <2>2, <2>3, <2>6
  <2>4. CASE n < i /\ i <= n + m
    <3>1. i - n \in 1..m /\ ~(i <= n)
      BY <1>1, <2>1, <2>4
    <3> QED
      BY <1>1, <2>1, <2>2, <2>4, <2>6, <3>1
  <2>5. CASE i = n + m + 1
    <3>1. i - n = m + 1 /\ ~(i <= n)
      BY <1>1, <2>1, <2>5
    <3> QED
      BY <1>1, <1>3, <2>1, <2>2, <2>5, <2>6, <3>1
  <2> QED
    BY <1>1, <2>1, <2>3, <2>4, <2>5
<1> QED
  BY <1>3, <1>4, <1>5, <1>6, SeqEqual DEF l, r, Joined, Pushed

\* The last element of the second of two sequences is that of both.
LEMMA ExceptInConcat ==
    ASSUME NEW S, NEW p \in Seq(Seq(S)), NEW q \in Seq(Seq(S)), q # <<>>, NEW e \in S
    PROVE  Lengthened(Joined(p, q), e) = Joined(p, Lengthened(q, e))
<1> DEFINE n == Len(p)
           m == Len(q)
           x == Append(q[m], e)
           T == Seq(S)
           l == [(p \o q) EXCEPT ![Len(p \o q)] = Append(@, e)]
           k == [q EXCEPT ![Len(q)] = Append(@, e)]
           r == p \o k
<1>1. p \in Seq(T) /\ q \in Seq(T) /\ m \in 1..m /\ m \in Nat /\ n \in Nat
  BY EmptySeq
<1>2. q[m] \in T
  BY <1>1
<1>3. x \in T
  BY <1>2, AppendProperties
<1> HIDE DEF T
<1>4. /\ p \o q \in Seq(T) /\ Len(p \o q) = n + m
      /\ \A i \in 1..(n + m) : (p \o q)[i] = IF i <= n THEN p[i] ELSE q[i - n]
  BY <1>1, ConcatProperties
<1> DEFINE pq == p \o q
<1>5. (p \o q)[n + m] = q[m]
  BY <1>1, <1>4
<1>6. l = [(p \o q) EXCEPT ![n + m] = x] /\ k = [q EXCEPT ![m] = x]
  BY <1>4, <1>5
<1> HIDE DEF l, k, x
<1>7. /\ l \in Seq(T) /\ Len(l) = n + m
      /\ \A i \in 1..(n + m) : l[i] = IF i = n + m THEN x ELSE (p \o q)[i]
  <2>1. pq \in Seq(T) /\ Len(pq) = n + m /\ n + m \in 1..Len(pq) /\ l = [pq EXCEPT ![n + m] = x]
    BY <1>1, <1>4, <1>6
  <2> HIDE DEF pq
  <2> QED
    <3>1. /\ l \in Seq(T) /\ Len(l) = Len(pq)
          /\ \A i \in 1..Len(pq) : l[i] = IF i = n + m THEN x ELSE pq[i]
      BY <1>3, <2>1, ExceptSeq
    <3> HIDE DEF n, m
    <3> QED
      BY <2>1, <3>1 DEF pq
<1>8. /\ k \in Seq(T) /\ Len(k) = m
      /\ \A i \in 1..m : k[i] = IF i = m THEN x ELSE q[i]
  BY <1>1, <1>3, <1>6, ExceptSeq
<1>9. /\ r \in Seq(T) /\ Len(r) = n + m
      /\ \A i \in 1..(n + m) : r[i] = IF i <= n THEN p[i] ELSE k[i - n]
  <2>1. p \in Seq(T) /\ k \in Seq(T) /\ Len(k) = m
    BY <1>1, <1>8
  <2>2. /\ r \in Seq(T) /\ Len(r) = n + Len(k)
        /\ \A i \in 1..(n + Len(k)) : r[i] = IF i <= n THEN p[i] ELSE k[i - n]
    BY <2>1, ConcatProperties
  <2> HIDE DEF r, n, m
  <2> QED
    BY <2>1, <2>2
<1> HIDE DEF r
<1>10. ASSUME NEW i \in 1..(n + m) PROVE l[i] = r[i]
  <2>1. CASE i <= n
    <3>1. i # n + m
      BY <1>1, <2>1
    <3>2. l[i] = p[i]
      BY <1>4, <1>7, <2>1, <3>1
    <3> QED
      BY <1>9, <2>1, <3>2
  <2>2. CASE ~(i <= n)
    <3>1. i - n \in 1..m /\ (i - n = m <=> i = n + m)
      BY <1>1, <2>2
    <3> QED
      BY <1>1, <1>4, <1>7, <1>8, <1>9, <2>2, <3>1
  <2> QED
    BY <2>1, <2>2
<1>11. l = r
  BY <1>7, <1>9, <1>10, SeqEqual
<1> QED
  BY <1>11 DEF l, r, k, Joined, Lengthened

\* Where a slash separates them, the segments of two paths follow each other.
LEMMA SegmentsConcat ==
    ASSUME NEW s \in Text, NEW t \in Text,
           s = <<>> \/ t = <<>> \/ s[Len(s)] = "/" \/ t[1] = "/"
    PROVE  s \o t \in Text /\ Segments(s \o t) = Segments(s) \o Segments(t)
<1> DEFINE a == Len(s)
           N == Len(t)
           st == s \o t
<1>1. /\ a \in Nat /\ N \in Nat
      /\ st \in Text /\ Len(st) = a + N
      /\ \A i \in 1..a : st[i] = s[i]
      /\ \A i \in 1..N : st[a + i] = t[i]
  BY ConcatProperties DEF Text
<1>2. PICK u : Segmented(u, s) /\ Segments(s) = u[a]
  BY SegmentsDefined
<1>3. PICK v : Segmented(v, t) /\ Segments(t) = v[N]
  BY SegmentsDefined
<1>4. PICK w : Segmented(w, st) /\ Segments(st) = w[Len(st)]
  BY <1>1, SegmentsDefined
<1> DEFINE U == u[a]
           P == {m \in 0..N : w[a + m] = U \o v[m]}
<1>5. U \in Seq(Text)
  BY <1>2, SegmentsProperties
<1>6. 0 \in P
  <2>1. w[a] = U
    <3>1. s \in Text /\ st \in Text /\ a <= Len(s) /\ a <= Len(st) /\ \A i \in 1..a : st[i] = s[i]
      BY <1>1
    <3> HIDE DEF st, U
    <3>2. w[a] = u[a]
      BY <1>1, <1>2, <1>4, <3>1, SegmentsAgree
    <3> QED
      BY <3>2 DEF U
  <2>2. v[0] = <<>> /\ a + 0 = a /\ 0 \in 0..N
    BY <1>1, <1>3 DEF Segmented
  <2>3. U \o <<>> = U
    BY <1>5, ConcatEmptySeq
  <2> HIDE DEF U, a, N
  <2> QED
    BY <2>1, <2>2, <2>3
<1> HIDE DEF U, st
<1>7. ASSUME NEW m \in 1..N, m - 1 \in P PROVE m \in P
  <2> DEFINE x == v[m - 1]
             c == t[m]
  <2>1. /\ a + m \in 1..Len(st) /\ (a + m) - 1 = a + (m - 1) /\ st[a + m] = c
        /\ m - 1 \in 0..N /\ m \in 0..N
    BY <1>1
  <2>2. w[a + (m - 1)] = U \o x
    BY <1>7
  <2>3. w[a + m] = SegmentStep(st, a + m, U \o x)
    BY <1>4, <2>1, <2>2 DEF Segmented
  <2>4. v[m] = SegmentStep(t, m, x)
    BY <1>3 DEF Segmented
  <2>5. x \in Seq(Text)
    <3> DEFINE S == Seq(Text)
    <3>1. v \in [0..N -> S]
      BY <1>3 DEF Segmented
    <3> HIDE DEF S
    <3>2. v[m - 1] \in S
      BY <2>1, <3>1
    <3> QED
      BY <3>2 DEF S
  <2> DEFINE d == <<c>>
  <2>6. c \in Chars
    BY DEF Text
  <2>14. d \in Text
    BY <2>6 DEF Text
  <2>7. m # 1 => m - 1 \in 1..N /\ st[(a + m) - 1] = t[m - 1]
    BY <1>1, <2>1, SMTT(30)
  <2>8. m = 1 /\ a # 0 => st[(a + m) - 1] = s[a]
    BY <1>1
  <2>9. a = 0 <=> s = <<>>
    BY EmptySeq DEF Text
  <2>10. N # 0 /\ t # <<>>
    BY EmptySeq DEF Text
  <2>11. CASE c = "/"
    BY <2>1, <2>2, <2>3, <2>4, <2>11 DEF SegmentStep
  <2>12. CASE c # "/" /\ (m = 1 \/ t[m - 1] = "/")
    <3>1. a + m = 1 \/ st[(a + m) - 1] = "/"
      BY <1>1, <2>7, <2>8, <2>9, <2>10, <2>12
    <3>2. w[a + m] = Append(U \o x, <<c>>)
      BY <2>1, <2>3, <2>12, <3>1 DEF SegmentStep
    <3>3. v[m] = Append(x, <<c>>)
      BY <2>4, <2>12 DEF SegmentStep
    <3>4. Pushed(Joined(U, x), d) = Joined(U, Pushed(x, d))
      <4> HIDE DEF x, d
      <4> QED
        BY <1>5, <2>5, <2>14, AppendToConcat
    <3>5. Append(U \o x, d) = U \o Append(x, d)
      BY <3>4 DEF Joined, Pushed
    <3> QED
      BY <2>1, <3>2, <3>3, <3>5
  <2>13. CASE c # "/" /\ ~(m = 1 \/ t[m - 1] = "/")
    <3>1. ~(a + m = 1 \/ st[(a + m) - 1] = "/")
      BY <1>1, <2>7, <2>13
    <3>2. x # <<>>
      BY <1>3, <2>7, <2>13 DEF Segmented
    <3>3. w[a + m] = [(U \o x) EXCEPT ![Len(U \o x)] = Append(@, c)]
      BY <2>1, <2>3, <2>13, <3>1 DEF SegmentStep
    <3>4. v[m] = [x EXCEPT ![Len(x)] = Append(@, c)]
      BY <2>4, <2>13 DEF SegmentStep
    <3>5. Lengthened(Joined(U, x), c) = Joined(U, Lengthened(x, c))
      <4>1. U \in Seq(Seq(Chars)) /\ x \in Seq(Seq(Chars))
        BY <1>5, <2>5 DEF Text
      <4> HIDE DEF x, c
      <4> QED
        BY <2>6, <3>2, <4>1, ExceptInConcat
    <3>6. w[a + m] = U \o v[m]
      BY <3>3, <3>4, <3>5 DEF Joined, Lengthened
    <3> QED
      BY <2>1, <3>6
  <2> QED
    BY <2>11, <2>12, <2>13
<1>8. P = 0..N
  <2>1. P \in SUBSET (0..N)
    OBVIOUS
  <2> HIDE DEF P, N
  <2>2. N \in Nat
    BY <1>1
  <2> QED
    BY <1>6, <1>7, <2>1, <2>2, Induction
<1>9. w[a + N] = U \o v[N]
  <2>1. N \in P
    <3> HIDE DEF P
    <3> QED
      BY <1>1, <1>8
  <2> QED
    BY <2>1
<1> QED
  BY <1>1, <1>2, <1>3, <1>4, <1>9 DEF U, st

\* What is sliced off.
LEMMA SliceFrom ==
    ASSUME NEW S, NEW w \in Seq(S), NEW a \in 0..Len(w)
    PROVE  LET r == SubSeq(w, a + 1, Len(w)) IN
           r \in Seq(S) /\ Len(r) = Len(w) - a /\ \A i \in 1..(Len(w) - a) : r[i] = w[a + i]
<1> DEFINE N == Len(w)
           r == SubSeq(w, a + 1, N)
<1>1. a \in Nat /\ N \in Nat /\ a <= N /\ a + 1 \in Int /\ N \in Int
  OBVIOUS
<1>2. \A i \in (a + 1)..N : w[i] \in S
  BY <1>1
<1>3. /\ r \in Seq(S)
      /\ Len(r) = IF a + 1 <= N THEN (N - (a + 1)) + 1 ELSE 0
      /\ \A i \in 1..((N - (a + 1)) + 1) : r[i] = w[((a + 1) + i) - 1]
  <2> HIDE DEF N
  <2> QED
    BY <1>1, <1>2, SubSeqProperties
<1> HIDE DEF N, r
<1>4. Len(r) = N - a /\ (N - (a + 1)) + 1 = N - a
  BY <1>1, <1>3
<1>5. ASSUME NEW i \in 1..(N - a) PROVE r[i] = w[a + i]
  <2>1. ((a + 1) + i) - 1 = a + i
    BY <1>1
  <2> QED
    BY <1>3, <1>4, <2>1
<1> QED
  BY <1>3, <1>4, <1>5 DEF N, r

\* A text is its prefix and what is sliced off after that.
LEMMA PrefixAndRest ==
    ASSUME NEW p \in Text, NEW path \in Text, IsPrefix(p, path)
    PROVE  LET rest == SubSeq(path, Len(p) + 1, Len(path)) IN
           /\ rest \in Text /\ path = p \o rest
           /\ Len(p) \in Nat /\ Len(path) \in Nat /\ Len(p) <= Len(path)
           /\ Len(rest) = Len(path) - Len(p)
           /\ \A i \in 1..Len(rest) : rest[i] = path[Len(p) + i]
<1> DEFINE a == Len(p)
           b == Len(path)
           rest == SubSeq(path, a + 1, b)
           both == p \o rest
<1>1. /\ a \in Nat /\ b \in Nat /\ p \in Seq(Chars) /\ path \in Seq(Chars)
      /\ a <= b /\ \A i \in 1..a : p[i] = path[i]
  BY PrefixIs DEF Text
<1>2. /\ rest \in Seq(Chars) /\ Len(rest) = b - a
      /\ \A i \in 1..(b - a) : rest[i] = path[a + i]
  <2>1. a \in 0..b
    BY <1>1
  <2> QED
    BY <1>1, <2>1, SliceFrom
<1> HIDE DEF rest
<1>3. /\ both \in Seq(Chars) /\ Len(both) = a + Len(rest)
      /\ \A i \in 1..(a + Len(rest)) : both[i] = IF i <= a THEN p[i] ELSE rest[i - a]
  BY <1>1, <1>2, ConcatProperties
<1> HIDE DEF both, a, b
<1>4. ASSUME NEW i \in 1..b PROVE path[i] = both[i]
  <2>1. CASE i <= a
    BY <1>1, <1>2, <1>3, <2>1
  <2>2. CASE ~(i <= a)
    <3>1. i - a \in 1..(b - a) /\ a + (i - a) = i /\ i \in 1..(a + Len(rest))
      BY <1>1, <1>2, <2>2
    <3> QED
      BY <1>2, <1>3, <2>2, <3>1
  <2> QED
    BY <2>1, <2>2
<1>5. path = both
  <2>1. Len(path) = Len(both)
    BY <1>1, <1>2, <1>3 DEF b
  <2> QED
    BY <1>1, <1>3, <1>4, <2>1, SeqEqual DEF b
<1> QED
  BY <1>1, <1>2, <1>5 DEF both, a, b, rest, Text

\* The shortest absolute path has no segments, nor has no path.
LEMMA Slash ==
    /\ <<"/">> \in Text /\ Segments(<<"/">>) = <<>> /\ EndsInSlash(<<"/">>)
    /\ <<>> \in Text /\ Segments(<<>>) = <<>> /\ ~EndsInSlash(<<>>)
<1> DEFINE slash == <<"/">>
           none == <<>>
<1>1. "/" \in Chars
  BY DEF Chars
<1>2. slash \in Text /\ Len(slash) = 1 /\ slash[1] = "/" /\ slash # <<>>
  BY <1>1 DEF Text
<1>3. none \in Text /\ Len(none) = 0
  BY DEF Text
<1>4. EndsInSlash(slash) /\ ~EndsInSlash(none)
  BY DEF EndsInSlash, Last
<1> HIDE DEF slash, none
<1>5. Segments(slash) = <<>>
  <2>1. \A i \in 1..Len(slash) : slash[i] = "/"
    BY <1>2
  <2> QED
    BY <1>2, <2>1, SegmentsProperties
<1>6. Segments(none) = <<>>
  <2>1. \A i \in 1..Len(none) : none[i] = "/"
    BY <1>3
  <2> QED
    BY <1>3, <2>1, SegmentsProperties
<1> QED
  BY <1>2, <1>3, <1>4, <1>5, <1>6 DEF slash, none

\* A path that an application gets: an absolute one.
Absolute(path) == path \in Text /\ path # <<>> /\ path[1] = "/"

\* What StripPrefix makes of a path when n characters are sliced off.
Stripped(path, n) ==
    LET rest == SubSeq(path, n + 1, Len(path))
    IN IF IsPrefix(<<"/">>, rest) THEN rest ELSE <<"/">> \o rest

\* It panics for the directory of a prefix with a slash, and keeps all other segments.
LEMMA Strips ==
    ASSUME NEW m, m.prefix \in Text, NEW path, Absolute(path),
           PathMatches(m, path), ~Slashed(m.prefix)
    PROVE  LET n == Len(m.prefix) s == Stripped(path, n) IN
           /\ n > Len(path) => m.prefix[n] = "/" /\ path = TrimRight(m.prefix)
           /\ ~(n > Len(path)) =>
                 /\ Absolute(s)
                 /\ Segments(path) = Segments(m.prefix) \o Segments(s)
                 /\ EndsInSlash(s) <=> EndsInSlash(path) \/ Segments(s) = <<>>
<1> DEFINE p == m.prefix
           t == TrimRight(p)
           n == Len(p)
           k == Len(t)
           N == Len(path)
           rest == SubSeq(path, n + 1, N)
           e == Append(t, "/")
           slash == <<"/">>
<1>1. /\ t \in Text /\ k \in 0..n /\ n \in Nat /\ N \in Nat \ {0}
      /\ \A i \in 1..k : t[i] = p[i]
      /\ k # 0 => t[k] # "/"
      /\ \A i \in (k + 1)..n : p[i] = "/"
  BY Trimmed, EmptySeq DEF Text, Absolute
<1>2. n = k \/ n = k + 1
  <2>1. ASSUME k + 2 <= n PROVE FALSE
    <3>1. n \in (k + 1)..n /\ n - 1 \in (k + 1)..n /\ n > 1
      BY <1>1, <2>1
    <3> QED
      BY <1>1, <3>1 DEF Slashed
  <2> QED
    BY <1>1, <2>1
<1>3. /\ e \in Text /\ Len(e) = k + 1 /\ e[k + 1] = "/"
      /\ \A i \in 1..k : e[i] = t[i]
  <2>1. "/" \in Chars
    BY DEF Chars
  <2> QED
    BY <1>1, <2>1, AppendProperties DEF Text
<1>4. slash \in Text /\ Len(slash) = 1 /\ slash[1] = "/"
  BY Slash
<1>5. path = t \/ (/\ k + 1 <= N /\ path[k + 1] = "/"
                  /\ \A i \in 1..k : path[i] = t[i])
  <2>1. CASE p = slash
    <3>1. n = 1 /\ p[1] = "/"
      BY <1>4, <2>1
    <3>2. k # 1
      BY <1>1, <3>1
    <3>3. k = 0
      BY <1>1, <3>1, <3>2
    <3> QED
      BY <1>1, <3>3 DEF Absolute
  <2>2. CASE IsPrefix(e, path)
    <3>1. Len(e) <= N /\ \A i \in 1..Len(e) : e[i] = path[i]
      <4>1. e \in Seq(Chars) /\ path \in Seq(Chars) /\ IsPrefix(e, path)
        BY <1>3, <2>2 DEF Absolute, Text
      <4> HIDE DEF e
      <4> QED
        BY <4>1, PrefixIs
    <3> HIDE DEF e, t, k
    <3>2. k + 1 \in 1..Len(e) /\ \A i \in 1..k : i \in 1..Len(e)
      BY <1>1, <1>3
    <3> QED
      BY <1>3, <3>1, <3>2
  <2> QED
    BY <2>1, <2>2 DEF PathMatches
<1>6. ASSUME path = t, n = k + 1
      PROVE  n > N /\ p[n] = "/"
  BY <1>1, <1>6
<1>7. ASSUME ~(path = t /\ n = k + 1)
      PROVE  /\ n <= N /\ \A i \in 1..n : p[i] = path[i]
             /\ n # 0 => p[n] = "/" \/ n = N \/ path[n + 1] = "/"
  <2>1. CASE path = t
    BY <1>1, <1>2, <1>7, <2>1
  <2>2. CASE path # t
    <3> HIDE DEF t
    <3>1. /\ k + 1 <= N /\ path[k + 1] = "/"
          /\ \A i \in 1..k : path[i] = t[i]
      BY <1>5, <2>2
    <3> HIDE DEF k, n, N, p
    <3>2. CASE n = k
      BY <1>1, <3>1, <3>2
    <3>3. CASE n = k + 1
      <4>1. p[k + 1] = "/"
        BY <1>1, <3>3
      <4>2. \A i \in 1..n : i \in 1..k \/ i = k + 1
        BY <1>1, <3>3
      <4> QED
        BY <1>1, <3>1, <3>3, <4>1, <4>2
    <3> QED
      BY <1>2, <3>2, <3>3
  <2> QED
    BY <2>1, <2>2
<1> DEFINE s == Stripped(path, n)
<1>8. ASSUME ~(path = t /\ n = k + 1)
      PROVE  /\ Absolute(s)
             /\ Segments(path) = Segments(p) \o Segments(s)
             /\ EndsInSlash(s) <=> EndsInSlash(path) \/ Segments(s) = <<>>
  <2>1. IsPrefix(p, path)
    <3>1. p \in Seq(Chars) /\ path \in Seq(Chars)
      BY DEF Absolute, Text
    <3> QED
      BY <1>7, <1>8, <3>1, PrefixIs
  <2>2. /\ rest \in Text /\ path = p \o rest /\ Len(rest) = N - n
        /\ \A i \in 1..Len(rest) : rest[i] = path[n + i]
    BY <2>1, PrefixAndRest DEF Absolute
  <2>3. s = IF IsPrefix(slash, rest) THEN rest ELSE slash \o rest
    BY DEF Stripped
  <2> HIDE DEF rest, slash, s, n, N, p, t, k
  <2>4. Len(rest) \in Nat /\ (rest = <<>> <=> Len(rest) = 0)
    BY <2>2, EmptySeq DEF Text
  <2>15. slash \in Seq(Chars) /\ rest \in Seq(Chars)
    BY <1>4, <2>2 DEF Text
  <2>5. IsPrefix(slash, rest) <=> rest # <<>> /\ rest[1] = "/"
    <3>1. IsPrefix(slash, rest) <=>
              Len(slash) <= Len(rest) /\ \A i \in 1..Len(slash) : slash[i] = rest[i]
      BY <2>15, PrefixIs
    <3> QED
      BY <1>4, <2>4, <3>1
  <2>6. rest # <<>> => rest[Len(rest)] = path[N]
    <3>1. rest # <<>> => Len(rest) \in 1..Len(rest) /\ n + Len(rest) = N
      BY <1>1, <2>2, <2>4
    <3> QED
      BY <2>2, <3>1
  <2>7. rest # <<>> => (EndsInSlash(rest) <=> EndsInSlash(path))
    BY <2>6 DEF EndsInSlash, Last, Absolute, N
  <2>8. rest # <<>> /\ Segments(rest) = <<>> => EndsInSlash(rest)
    BY <2>2, SegmentsProperties DEF EndsInSlash, Last
  <2>9. p \in Text /\ (p = <<>> <=> n = 0)
    BY EmptySeq DEF p, n, Text
  <2>10. rest # <<>> => rest[1] = path[n + 1]
    <3>1. rest # <<>> => 1 \in 1..Len(rest)
      BY <2>4
    <3> QED
      BY <2>2, <3>1
  <2>11. p = <<>> \/ rest = <<>> \/ p[n] = "/" \/ rest[1] = "/"
    <3>1. n = N => rest = <<>>
      BY <1>1, <2>2, <2>4
    <3> QED
      BY <1>7, <1>8, <2>9, <2>10, <3>1
  <2>12. Segments(path) = Segments(p) \o Segments(rest)
    <3>1. p = <<>> \/ rest = <<>> \/ p[Len(p)] = "/" \/ rest[1] = "/"
      BY <2>11 DEF n, p
    <3> QED
      BY <2>2, <2>9, <3>1, SegmentsConcat
  <2>13. CASE IsPrefix(slash, rest)
    <3>1. s = rest /\ rest # <<>> /\ rest[1] = "/"
      BY <2>3, <2>5, <2>13
    <3> QED
      BY <2>2, <2>7, <2>8, <2>12, <3>1 DEF Absolute
  <2>14. CASE ~IsPrefix(slash, rest)
    <3>1. s = slash \o rest
      BY <2>3, <2>14
    <3>2. /\ s \in Seq(Chars) /\ Len(s) = 1 + Len(rest)
          /\ \A i \in 1..(1 + Len(rest)) : s[i] = IF i <= 1 THEN slash[i] ELSE rest[i - 1]
      <4>1. /\ slash \o rest \in Seq(Chars) /\ Len(slash \o rest) = Len(slash) + Len(rest)
            /\ \A i \in 1..(Len(slash) + Len(rest)) :
                  (slash \o rest)[i] = IF i <= Len(slash) THEN slash[i] ELSE rest[i - Len(slash)]
        BY <2>15, ConcatProperties
      <4> QED
        BY <1>4, <3>1, <4>1
    <3>3. s # <<>> /\ s[1] = "/"
      <4>1. 1 \in 1..(1 + Len(rest))
        BY <2>4
      <4> QED
        BY <1>4, <2>4, <3>2, <4>1, EmptySeq
    <3>4. Segments(s) = Segments(rest)
      <4>1. slash[Len(slash)] = "/"
        BY <1>4
      <4>2. Segments(s) = Segments(slash) \o Segments(rest)
        BY <1>4, <2>2, <3>1, <4>1, SegmentsConcat
      <4>3. Segments(slash) = <<>> /\ Segments(rest) \in Seq(Text)
        BY <2>2, SegmentsProperties, Slash DEF slash
      <4>4. <<>> \o Segments(rest) = Segments(rest)
        BY <4>3, ConcatEmptySeq
      <4> QED
        BY <4>2, <4>3, <4>4
    <3>5. CASE rest = <<>>
      <4>1. s[Len(s)] = "/"
        BY <2>4, <3>2, <3>3, <3>5
      <4>2. EndsInSlash(s)
        BY <3>3, <4>1 DEF EndsInSlash, Last
      <4>3. Segments(rest) = <<>>
        BY <3>5, Slash
      <4> QED
        BY <2>12, <3>2, <3>3, <3>4, <4>2, <4>3 DEF Absolute, Text
    <3>6. CASE rest # <<>>
      <4>1. s[Len(s)] = rest[Len(rest)]
        <5>1. Len(s) \in 1..(1 + Len(rest)) /\ ~(Len(s) <= 1) /\ Len(s) - 1 = Len(rest)
          BY <2>4, <3>2, <3>6
        <5> QED
          BY <3>2, <5>1
      <4>2. EndsInSlash(s) <=> EndsInSlash(rest)
        BY <3>3, <3>6, <4>1 DEF EndsInSlash, Last
      <4> QED
        BY <2>7, <2>8, <2>12, <3>2, <3>3, <3>4, <3>6, <4>2 DEF Absolute, Text
    <3> QED
      BY <3>5, <3>6
  <2> QED
    BY <2>13, <2>14
<1>9. n > N => path = t /\ n = k + 1
  <2> HIDE DEF n, N, t, k
  <2> QED
    BY <1>1, <1>7
<1>10. ~(n > N) => ~(path = t /\ n = k + 1)
  <2> HIDE DEF n, N, t, k
  <2> QED
    BY <1>6
<1> HIDE DEF s
<1> QED
  BY <1>6, <1>8, <1>9, <1>10 DEF s

\* The index document is one segment.
LEMMA IndexSegments ==
    Index \in Text /\ Index # <<>> /\ Segments(Index) = <<Index>>
<1>1. "index.html" \in Chars /\ "index.html" # "/"
  BY DEF Chars
<1>2. Index \in Text /\ Len(Index) = 1 /\ Index[1] = "index.html" /\ Index # <<>>
  BY <1>1 DEF Index, Text
<1>3. PICK u : Segmented(u, Index) /\ Segments(Index) = u[Len(Index)]
  BY <1>2, SegmentsDefined
<1>4. u[0] = <<>> /\ u[1] = SegmentStep(Index, 1, u[0])
  <2>1. 1 \in 1..Len(Index) /\ 1 - 1 = 0
    BY <1>2
  <2> QED
    BY <1>3, <2>1 DEF Segmented
<1>5. u[1] = Append(<<>>, <<Index[1]>>)
  <2>1. u[1] = Append(u[0], <<Index[1]>>)
    BY <1>1, <1>2, <1>4 DEF SegmentStep
  <2> QED
    BY <1>4, <2>1
<1>6. <<Index[1]>> = Index
  BY <1>2 DEF Index
<1>7. Append(<<>>, Index) = <<Index>>
  OBVIOUS
<1> QED
  BY <1>2, <1>3, <1>5, <1>6, <1>7

\* What comes after a prefix is the rest.
LEMMA AfterPrefix ==
    ASSUME NEW S, NEW s \in Seq(S), NEW t \in Seq(S), NEW w, w = s \o t
    PROVE  SubSeq(w, Len(s) + 1, Len(w)) = t
<1> DEFINE a == Len(s)
           b == Len(t)
           N == Len(w)
           r == SubSeq(w, a + 1, N)
<1>1. /\ a \in Nat /\ b \in Nat /\ w \in Seq(S) /\ N = a + b
      /\ \A i \in 1..(a + b) : w[i] = IF i <= a THEN s[i] ELSE t[i - a]
  BY ConcatProperties
<1>2. r \in Seq(S) /\ Len(r) = N - a /\ \A i \in 1..(N - a) : r[i] = w[a + i]
  <2>1. a \in 0..N
    BY <1>1
  <2> QED
    BY <1>1, <2>1, SliceFrom
<1> HIDE DEF a, b, N, r
<1>4. Len(r) = b /\ N - a = b
  BY <1>1, <1>2
<1>5. ASSUME NEW i \in 1..Len(r) PROVE r[i] = t[i]
  <2>1. i \in 1..(N - a) /\ a + i \in 1..(a + b) /\ ~(a + i <= a) /\ (a + i) - a = i
    BY <1>1, <1>4
  <2> QED
    BY <1>1, <1>2, <2>1
<1>6. r = t
  BY <1>2, <1>4, <1>5, SeqEqual DEF b
<1> QED
  BY <1>6 DEF r, a, N

\* The segments of what an origin is asked: its own, the path's, and the index
\* document if the path is that of a directory.
LEMMA AskedPath ==
    ASSUME NEW path, Absolute(path), NEW base \in Text, NEW indexed \in BOOLEAN
    PROVE  LET asks == base \o (IF indexed THEN WithIndex(path) ELSE path) IN
           Segments(asks) = Segments(base) \o Segments(path)
                               \o (IF EndsInSlash(path) /\ indexed THEN <<Index>> ELSE <<>>)
<1> DEFINE sp == Segments(path)
           sb == Segments(base)
           p == IF indexed THEN WithIndex(path) ELSE path
           more == IF EndsInSlash(path) /\ indexed THEN <<Index>> ELSE <<>>
           pi == path \o Index
<1>1. path \in Text /\ path # <<>> /\ path[1] = "/" /\ Len(path) \in Nat \ {0}
  BY EmptySeq DEF Absolute, Text
<1>2. sp \in Seq(Text) /\ sb \in Seq(Text)
  BY <1>1, SegmentsProperties
<1>3. CASE EndsInSlash(path) /\ indexed
  <2>1. p = pi /\ more = <<Index>>
    BY <1>3 DEF WithIndex
  <2>2. path[Len(path)] = "/"
    BY <1>3 DEF EndsInSlash, Last
  <2>3. pi \in Text /\ Segments(pi) = sp \o Segments(Index)
    BY <1>1, <2>2, IndexSegments, SegmentsConcat
  <2>4. /\ Len(pi) = Len(path) + Len(Index) /\ Len(Index) \in Nat
        /\ \A i \in 1..(Len(path) + Len(Index)) :
              pi[i] = IF i <= Len(path) THEN path[i] ELSE Index[i - Len(path)]
    <3>1. path \in Seq(Chars) /\ Index \in Seq(Chars)
      BY <1>1, IndexSegments DEF Text
    <3> HIDE DEF pi
    <3>2. /\ Len(path \o Index) = Len(path) + Len(Index)
          /\ \A i \in 1..(Len(path) + Len(Index)) :
                (path \o Index)[i] = IF i <= Len(path) THEN path[i] ELSE Index[i - Len(path)]
      BY <3>1, ConcatProperties
    <3> QED
      BY <3>1, <3>2 DEF pi
  <2> HIDE DEF pi, sp, sb, p, more
  <2>5. pi[1] = "/"
    <3>1. 1 \in 1..(Len(path) + Len(Index)) /\ 1 <= Len(path)
      BY <1>1, <2>4
    <3> QED
      BY <1>1, <2>4, <3>1
  <2>6. Segments(base \o pi) = sb \o Segments(pi)
    BY <2>3, <2>5, SegmentsConcat DEF sb
  <2>7. Segments(base \o p) = sb \o (sp \o more)
    BY <2>1, <2>3, <2>6, IndexSegments
  <2>8. more \in Seq(Text)
    BY <2>1, IndexSegments
  <2>9. sb \o (sp \o more) = (sb \o sp) \o more
    BY <1>2, <2>8, ConcatAssociative, SMTT(30)
  <2>10. Segments(base \o p) = (sb \o sp) \o more
    BY <2>7, <2>9
  <2> QED
    BY <2>10 DEF p, sp, sb, more
<1>4. CASE ~(EndsInSlash(path) /\ indexed)
  <2>1. p = path /\ more = <<>>
    BY <1>4 DEF WithIndex
  <2> HIDE DEF sp, sb, p, more
  <2>2. Segments(base \o path) = sb \o sp
    BY <1>1, SegmentsConcat DEF sb, sp
  <2>3. (sb \o sp) \in Seq(Text)
    BY <1>2, ConcatProperties
  <2>4. (sb \o sp) \o <<>> = sb \o sp
    BY <2>3, ConcatEmptySeq
  <2>5. Segments(base \o p) = (sb \o sp) \o more
    BY <2>1, <2>2, <2>4
  <2> QED
    BY <2>5 DEF p, sp, sb, more
<1> QED
  BY <1>3, <1>4

-----------------------------------------------------------------------------
(* Matchers                                                                *)

\* Frontend f has its mount in the list of this kind, for "hostname" of this host.
Concerns(f, kind, host) == f.kind = kind /\ (kind = "path" \/ host \in f.hosts)

\* A list has the mounts of the frontends that it concerns, from longest to shortest.
Lists(mounts, fs, kind, host) ==
    /\ \A k \in 1..Len(mounts) :
          \E i \in 1..Len(fs) : Concerns(fs[i], kind, host) /\ mounts[k] = MountOf(fs[i])
    /\ \A i \in 1..Len(fs) :
          Concerns(fs[i], kind, host) => \E k \in 1..Len(mounts) : mounts[k] = MountOf(fs[i])
    /\ \A j, k \in 1..Len(mounts) : j < k => Len(mounts[j].prefix) >= Len(mounts[k].prefix)

\* The host patterns are those of the frontends at these positions, in their order.
Follows(patterns, fs, pos) ==
    /\ pos \in [1..Len(patterns) -> 1..Len(fs)]
    /\ \A j, k \in 1..Len(patterns) : j < k => pos[j] < pos[k]
    /\ \A k \in 1..Len(patterns) :
          /\ fs[pos[k]].kind = "regexp"
          /\ patterns[k] = [hosts |-> fs[pos[k]].hosts, mount |-> MountOf(fs[pos[k]])]
    /\ \A i \in 1..Len(fs) : fs[i].kind = "regexp" => \E k \in 1..Len(patterns) : pos[k] = i

\* Sorting is what it says.
LEMMA SortedMounts ==
    ASSUME NEW mounts \in Seq(Mounts), NEW m \in Mounts, NEW s \in Sorted(mounts, m)
    PROVE  /\ s \in Seq(Mounts)
           /\ \A k \in 1..Len(s) : s[k] = m \/ \E j \in 1..Len(mounts) : s[k] = mounts[j]
           /\ \E k \in 1..Len(s) : s[k] = m
           /\ \A j \in 1..Len(mounts) : \E k \in 1..Len(s) : s[k] = mounts[j]
           /\ \A j, k \in 1..Len(s) : j < k => Len(s[j].prefix) >= Len(s[k].prefix)
<1> DEFINE n == Len(mounts) + 1
           all == Append(mounts, m)
<1>1. /\ Len(mounts) \in Nat /\ n \in Nat /\ all \in [1..n -> Mounts] /\ all[n] = m
      /\ \A j \in 1..Len(mounts) : all[j] = mounts[j]
  <2>1. /\ all \in Seq(Mounts) /\ Len(all) = n /\ n \in Nat /\ Len(mounts) \in Nat
        /\ all[n] = m /\ \A j \in 1..Len(mounts) : all[j] = mounts[j]
    BY AppendProperties
  <2> HIDE DEF all, n
  <2>2. all \in [1..n -> Mounts]
    BY <2>1, LenProperties
  <2> QED
    BY <2>1, <2>2
<1>2. PICK p \in Bijection(1..n, 1..n) :
          /\ s = [i \in 1..n |-> all[p[i]]]
          /\ \A i, j \in 1..n : i < j => Len(all[p[i]].prefix) >= Len(all[p[j]].prefix)
  BY DEF Sorted
<1> DEFINE N == 1..n
<1>12. N = 1..n
  OBVIOUS
<1> HIDE DEF all, n, N
<1>3. p \in [N -> N] /\ \A t \in N : \E k \in N : p[k] = t
  <2>1. p \in Bijection(N, N)
    BY <1>12
  <2> QED
    BY <2>1, Fun_BijectionProperties, SMTT(30)
<1>5. \A k \in N : s[k] = all[p[k]] /\ p[k] \in N
  BY <1>2, <1>3, <1>12
<1>4. s \in Seq(Mounts) /\ Len(s) = n
  <2>1. s = [i \in 1..n |-> s[i]] /\ \A i \in 1..n : s[i] \in Mounts
    BY <1>1, <1>2, <1>3, <1>12
  <2> QED
    BY <1>1, <2>1
<1>6. /\ n \in N /\ \A t \in N : t = n \/ t \in 1..Len(mounts)
      /\ \A t \in 1..Len(mounts) : t \in N
  BY <1>1, <1>12 DEF n
<1>8. ASSUME NEW k \in N PROVE s[k] = m \/ \E j \in 1..Len(mounts) : s[k] = mounts[j]
  <2>1. s[k] = all[p[k]] /\ (p[k] = n \/ p[k] \in 1..Len(mounts))
    BY <1>5, <1>6
  <2> QED
    BY <1>1, <2>1
<1>9. \E k \in N : s[k] = m
  <2>1. PICK k \in N : p[k] = n
    BY <1>3, <1>6
  <2> QED
    BY <1>1, <1>5, <2>1
<1>10. ASSUME NEW j \in 1..Len(mounts) PROVE \E k \in N : s[k] = mounts[j]
  <2>1. PICK k \in N : p[k] = j
    BY <1>3, <1>6
  <2> QED
    BY <1>1, <1>5, <2>1
<1>11. \A j, k \in N : j < k => Len(s[j].prefix) >= Len(s[k].prefix)
  BY <1>2, <1>5, <1>12
<1> QED
  BY <1>4, <1>8, <1>9, <1>10, <1>11, <1>12

\* A frontend that is added, and the list that it concerns.
LEMMA SortedLists ==
    ASSUME NEW fs \in Seq(Catalogue), NEW f \in Catalogue, NEW kind, NEW host,
           NEW mounts \in Seq(Mounts), Lists(mounts, fs, kind, host), Concerns(f, kind, host),
           NEW s \in Sorted(mounts, MountOf(f))
    PROVE  s \in Seq(Mounts) /\ Lists(s, Append(fs, f), kind, host)
<1> DEFINE m == MountOf(f)
           n == Len(fs)
           gs == Append(fs, f)
<1>1. m \in Mounts
  BY DEF Mounts
<1>2. /\ s \in Seq(Mounts)
      /\ \A k \in 1..Len(s) : s[k] = m \/ \E j \in 1..Len(mounts) : s[k] = mounts[j]
      /\ \E k \in 1..Len(s) : s[k] = m
      /\ \A j \in 1..Len(mounts) : \E k \in 1..Len(s) : s[k] = mounts[j]
      /\ \A j, k \in 1..Len(s) : j < k => Len(s[j].prefix) >= Len(s[k].prefix)
  BY <1>1, SortedMounts
<1>3. /\ n \in Nat /\ Len(gs) = n + 1 /\ gs[n + 1] = f /\ \A i \in 1..n : gs[i] = fs[i]
      /\ \A i \in 1..(n + 1) : i = n + 1 \/ i \in 1..n
      /\ n + 1 \in 1..(n + 1) /\ \A i \in 1..n : i \in 1..(n + 1)
  BY AppendProperties
<1> HIDE DEF m, n, gs
<1>4. \A k \in 1..Len(s) :
          \E i \in 1..Len(gs) : Concerns(gs[i], kind, host) /\ s[k] = MountOf(gs[i])
  <2> SUFFICES ASSUME NEW k \in 1..Len(s)
               PROVE  \E i \in 1..Len(gs) : Concerns(gs[i], kind, host) /\ s[k] = MountOf(gs[i])
    OBVIOUS
  <2>1. CASE s[k] = m
    BY <1>3, <2>1 DEF m
  <2>2. CASE \E j \in 1..Len(mounts) : s[k] = mounts[j]
    <3>1. PICK i \in 1..n : Concerns(fs[i], kind, host) /\ s[k] = MountOf(fs[i])
      BY <2>2 DEF Lists, n
    <3> QED
      BY <1>3, <3>1
  <2> QED
    BY <1>2, <2>1, <2>2
<1>5. \A i \in 1..Len(gs) :
          Concerns(gs[i], kind, host) => \E k \in 1..Len(s) : s[k] = MountOf(gs[i])
  <2> SUFFICES ASSUME NEW i \in 1..Len(gs), Concerns(gs[i], kind, host)
               PROVE  \E k \in 1..Len(s) : s[k] = MountOf(gs[i])
    OBVIOUS
  <2>1. CASE i = n + 1
    BY <1>2, <1>3, <2>1 DEF m
  <2>2. CASE i \in 1..n
    <3>1. PICK j \in 1..Len(mounts) : mounts[j] = MountOf(gs[i])
      BY <1>3, <2>2 DEF Lists, n
    <3> QED
      BY <1>2, <3>1
  <2> QED
    BY <1>3, <2>1, <2>2
<1> QED
  BY <1>2, <1>4, <1>5 DEF Lists, gs

\* The other lists.
LEMMA SameLists ==
    ASSUME NEW fs \in Seq(Catalogue), NEW f \in Catalogue, NEW kind, NEW host,
           NEW mounts \in Seq(Mounts), Lists(mounts, fs, kind, host), ~Concerns(f, kind, host)
    PROVE  Lists(mounts, Append(fs, f), kind, host)
<1> DEFINE n == Len(fs)
           gs == Append(fs, f)
<1>1. /\ n \in Nat /\ Len(gs) = n + 1 /\ gs[n + 1] = f /\ \A i \in 1..n : gs[i] = fs[i]
      /\ \A i \in 1..(n + 1) : i = n + 1 \/ i \in 1..n
      /\ n + 1 \in 1..(n + 1) /\ \A i \in 1..n : i \in 1..(n + 1)
  BY AppendProperties
<1> HIDE DEF n, gs
<1>2. \A k \in 1..Len(mounts) :
          \E i \in 1..Len(gs) : Concerns(gs[i], kind, host) /\ mounts[k] = MountOf(gs[i])
  <2> SUFFICES ASSUME NEW k \in 1..Len(mounts)
               PROVE  \E i \in 1..Len(gs) :
                         Concerns(gs[i], kind, host) /\ mounts[k] = MountOf(gs[i])
    OBVIOUS
  <2>1. PICK i \in 1..n : Concerns(fs[i], kind, host) /\ mounts[k] = MountOf(fs[i])
    BY DEF Lists, n
  <2> QED
    BY <1>1, <2>1
<1>3. \A i \in 1..Len(gs) :
          Concerns(gs[i], kind, host) => \E k \in 1..Len(mounts) : mounts[k] = MountOf(gs[i])
  BY <1>1 DEF Lists, n
<1> QED
  BY <1>2, <1>3 DEF Lists, gs

\* A host pattern that is added comes after the others.
LEMMA AppendFollows ==
    ASSUME NEW fs \in Seq(Catalogue), NEW f \in Catalogue, f.kind = "regexp",
           NEW R, NEW patterns \in Seq(R), NEW r \in R,
           r = [hosts |-> f.hosts, mount |-> MountOf(f)],
           NEW pos, Follows(patterns, fs, pos)
    PROVE  \E new : Follows(Append(patterns, r), Append(fs, f), new)
<1> DEFINE n == Len(fs)
           l == Len(patterns)
           gs == Append(fs, f)
           ps == Append(patterns, r)
           new == [k \in 1..(l + 1) |-> IF k = l + 1 THEN n + 1 ELSE pos[k]]
<1>1. /\ n \in Nat /\ Len(gs) = n + 1 /\ gs[n + 1] = f /\ \A i \in 1..n : gs[i] = fs[i]
      /\ \A i \in 1..(n + 1) : i = n + 1 \/ i \in 1..n
      /\ n + 1 \in 1..(n + 1) /\ \A i \in 1..n : i \in 1..(n + 1) /\ i < n + 1
  BY AppendProperties
<1>2. /\ l \in Nat /\ Len(ps) = l + 1 /\ ps[l + 1] = r /\ \A k \in 1..l : ps[k] = patterns[k]
      /\ \A k \in 1..(l + 1) : k = l + 1 \/ (k \in 1..l /\ k # l + 1)
      /\ l + 1 \in 1..(l + 1) /\ \A k \in 1..l : k \in 1..(l + 1) /\ k < l + 1
  BY AppendProperties
<1>3. /\ pos \in [1..l -> 1..n]
      /\ \A j, k \in 1..l : j < k => pos[j] < pos[k]
      /\ \A k \in 1..l :
            /\ fs[pos[k]].kind = "regexp"
            /\ patterns[k] = [hosts |-> fs[pos[k]].hosts, mount |-> MountOf(fs[pos[k]])]
      /\ \A i \in 1..n : fs[i].kind = "regexp" => \E k \in 1..l : pos[k] = i
  BY DEF Follows
<1> HIDE DEF n, l, gs, ps
<1>4. new[l + 1] = n + 1 /\ \A k \in 1..l : new[k] = pos[k] /\ pos[k] \in 1..n
  BY <1>2, <1>3
<1>5. new \in [1..Len(ps) -> 1..Len(gs)]
  BY <1>1, <1>2, <1>3
<1> HIDE DEF new
<1>6. \A j, k \in 1..Len(ps) : j < k => new[j] < new[k]
  <2> SUFFICES ASSUME NEW j \in 1..(l + 1), NEW k \in 1..(l + 1), j < k PROVE new[j] < new[k]
    BY <1>2
  <2>1. j \in 1..l
    BY <1>2
  <2>2. CASE k = l + 1
    BY <1>1, <1>4, <2>1, <2>2
  <2>3. CASE k \in 1..l
    BY <1>3, <1>4, <2>1, <2>3
  <2> QED
    BY <1>2, <2>2, <2>3
<1>7. \A k \in 1..Len(ps) :
          /\ gs[new[k]].kind = "regexp"
          /\ ps[k] = [hosts |-> gs[new[k]].hosts, mount |-> MountOf(gs[new[k]])]
  <2> SUFFICES ASSUME NEW k \in 1..(l + 1)
               PROVE  /\ gs[new[k]].kind = "regexp"
                      /\ ps[k] = [hosts |-> gs[new[k]].hosts, mount |-> MountOf(gs[new[k]])]
    BY <1>2
  <2>1. CASE k = l + 1
    BY <1>1, <1>2, <1>4, <2>1
  <2>2. CASE k \in 1..l
    <3>1. gs[new[k]] = fs[pos[k]] /\ ps[k] = patterns[k]
      BY <1>1, <1>2, <1>4, <2>2
    <3> QED
      BY <1>3, <2>2, <3>1
  <2> QED
    BY <1>2, <2>1, <2>2
<1>8. \A i \in 1..Len(gs) : gs[i].kind = "regexp" => \E k \in 1..Len(ps) : new[k] = i
  BY <1>1, <1>2, <1>3, <1>4
<1>9. Follows(ps, gs, new)
  BY <1>5, <1>6, <1>7, <1>8 DEF Follows
<1> QED
  BY <1>9 DEF ps, gs

\* Frontends of the other kinds change nothing of that.
LEMMA SameFollows ==
    ASSUME NEW fs \in Seq(Catalogue), NEW f \in Catalogue, f.kind # "regexp",
           NEW patterns, NEW pos, Follows(patterns, fs, pos)
    PROVE  Follows(patterns, Append(fs, f), pos)
<1> DEFINE n == Len(fs)
           gs == Append(fs, f)
<1>1. /\ n \in Nat /\ Len(gs) = n + 1 /\ gs[n + 1] = f /\ \A i \in 1..n : gs[i] = fs[i]
      /\ \A i \in 1..(n + 1) : i = n + 1 \/ i \in 1..n
      /\ n + 1 \in 1..(n + 1) /\ \A i \in 1..n : i \in 1..(n + 1)
  BY AppendProperties
<1> HIDE DEF n, gs
<1>2. Follows(patterns, gs, pos)
  BY <1>1 DEF Follows, n
<1> QED
  BY <1>2 DEF gs

\* The frontends that match a request.
Hits(fs, kind, host, path) ==
    {i \in 1..Len(fs) : Concerns(fs[i], kind, host) /\ PathMatches(MountOf(fs[i]), path)}

\* A mount has the prefix of its frontend.
LEMMA MountsOf ==
    /\ NoMount \notin Mounts
    /\ \A f \in Catalogue : MountOf(f) \in Mounts /\ MountOf(f).prefix = f.prefix
    /\ \A f \in Catalogue : f.prefix \in Text
    /\ \A m \in Mounts : m.prefix \in Text
<1>1. \A f \in Catalogue : MountOf(f) \in Mounts /\ MountOf(f).prefix = f.prefix
  BY DEF Mounts, MountOf
<1>2. \A f \in Catalogue : f.prefix \in Text
  BY RoutingAssumption DEF Text, Chars
<1>3. NoMount \notin Mounts
  <2>1. ASSUME NEW f \in Catalogue, MountOf(f) = NoMount PROVE FALSE
    <3>1. MountOf(f).app = f.app /\ NoMount.app = "none"
      BY DEF MountOf, NoMount
    <3> QED
      BY <2>1, <3>1, RoutingAssumption
  <2> QED
    BY <2>1 DEF Mounts
<1> QED
  BY <1>1, <1>2, <1>3 DEF Mounts

\* The first mount of a list that matches is of the longest prefix that does.
LEMMA FirstOfLists ==
    ASSUME NEW fs \in Seq(Catalogue), NEW kind, NEW host, NEW path,
           NEW mounts \in Seq(Mounts), Lists(mounts, fs, kind, host)
    PROVE  LET m == FirstMatch(mounts, path)
               hits == Hits(fs, kind, host, path)
           IN /\ m = NoMount => hits = {}
              /\ m # NoMount => \E i \in hits :
                    /\ m = MountOf(fs[i])
                    /\ \A j \in hits : Len(fs[j].prefix) <= Len(fs[i].prefix)
<1> DEFINE found == {k \in DOMAIN mounts : PathMatches(mounts[k], path)}
           hits == Hits(fs, kind, host, path)
           first == Min(found)
<1>1. /\ DOMAIN mounts = 1..Len(mounts) /\ Len(mounts) \in Nat
      /\ \A k \in 1..Len(mounts) : mounts[k] \in Mounts
  OBVIOUS
<1>2. /\ Len(fs) \in Nat /\ \A i \in 1..Len(fs) : fs[i] \in Catalogue
      /\ \A i \in 1..Len(fs) : MountOf(fs[i]) \in Mounts /\ MountOf(fs[i]).prefix = fs[i].prefix
      /\ \A i \in 1..Len(fs) : Len(fs[i].prefix) \in Nat
  BY MountsOf, LenProperties DEF Text
<1>3. FirstMatch(mounts, path) = IF found = {} THEN NoMount ELSE mounts[first]
  BY DEF FirstMatch
<1>4. ASSUME NEW i \in hits PROVE \E k \in found : mounts[k] = MountOf(fs[i])
  <2>1. i \in 1..Len(fs) /\ Concerns(fs[i], kind, host) /\ PathMatches(MountOf(fs[i]), path)
    BY DEF Hits
  <2>2. PICK k \in 1..Len(mounts) : mounts[k] = MountOf(fs[i])
    BY <2>1 DEF Lists
  <2> QED
    BY <1>1, <2>1, <2>2
<1>5. CASE found = {}
  <2>1. hits = {}
    BY <1>4, <1>5
  <2>2. FirstMatch(mounts, path) = NoMount
    BY <1>3, <1>5
  <2> HIDE DEF found, hits
  <2> QED
    BY <2>1, <2>2 DEF hits
<1>6. CASE found # {}
  <2>1. found \in SUBSET Nat
    BY <1>1
  <2>2. first \in found /\ \A k \in found : first <= k
    BY <1>6, <2>1, Least
  <2> HIDE DEF first
  <2>3. first \in 1..Len(mounts) /\ PathMatches(mounts[first], path)
    BY <1>1, <2>2
  <2>4. PICK i \in 1..Len(fs) : Concerns(fs[i], kind, host) /\ mounts[first] = MountOf(fs[i])
    BY <2>3 DEF Lists
  <2>5. i \in hits
    BY <2>3, <2>4 DEF Hits
  <2>6. ASSUME NEW j \in hits PROVE Len(fs[j].prefix) <= Len(fs[i].prefix)
    <3>1. PICK k \in found : mounts[k] = MountOf(fs[j])
      BY <1>4
    <3>2. k \in 1..Len(mounts) /\ first <= k /\ j \in 1..Len(fs)
      BY <1>1, <2>2 DEF Hits
    <3>3. mounts[first].prefix = fs[i].prefix /\ mounts[k].prefix = fs[j].prefix
      BY <1>2, <2>4, <3>1, <3>2
    <3>4. CASE first = k
      BY <1>2, <3>2, <3>3, <3>4
    <3>5. CASE first < k
      <4>1. Len(mounts[first].prefix) >= Len(mounts[k].prefix)
        BY <2>3, <3>2, <3>5 DEF Lists
      <4> QED
        BY <1>2, <2>4, <3>2, <3>3, <4>1
    <3> QED
      BY <2>3, <3>2, <3>4, <3>5
  <2>7. mounts[first] # NoMount
    BY <1>1, <2>3, MountsOf
  <2>8. FirstMatch(mounts, path) = mounts[first]
    BY <1>3, <1>6
  <2> HIDE DEF hits, found
  <2> QED
    BY <2>4, <2>5, <2>6, <2>7, <2>8 DEF hits
<1> QED
  BY <1>5, <1>6

\* The first host pattern that matches is that of the first frontend that does.
LEMMA FirstOfPatterns ==
    ASSUME NEW fs \in Seq(Catalogue), NEW host, NEW path, NEW pos,
           NEW R, regexps \in Seq(R), Follows(regexps, fs, pos)
    PROVE  LET m == FirstRegexp(host, path)
               hits == Hits(fs, "regexp", host, path)
           IN /\ m = NoMount => hits = {}
              /\ m # NoMount => \E i \in hits : m = MountOf(fs[i]) /\ \A j \in hits : i <= j
<1> DEFINE l == Len(regexps)
           found == {k \in DOMAIN regexps : /\ host \in regexps[k].hosts
                                            /\ PathMatches(regexps[k].mount, path)}
           hits == Hits(fs, "regexp", host, path)
           first == Min(found)
<1>1. DOMAIN regexps = 1..l /\ l \in Nat /\ Len(fs) \in Nat
  BY LenProperties
<1>2. /\ \A k \in 1..l : /\ pos[k] \in 1..Len(fs) /\ fs[pos[k]].kind = "regexp"
                         /\ regexps[k].hosts = fs[pos[k]].hosts
                         /\ regexps[k].mount = MountOf(fs[pos[k]])
      /\ \A j, k \in 1..l : j < k => pos[j] < pos[k]
      /\ \A i \in 1..Len(fs) : fs[i].kind = "regexp" => \E k \in 1..l : pos[k] = i
  <2>1. ASSUME NEW k \in 1..l
        PROVE  /\ pos[k] \in 1..Len(fs) /\ fs[pos[k]].kind = "regexp"
               /\ regexps[k].hosts = fs[pos[k]].hosts
               /\ regexps[k].mount = MountOf(fs[pos[k]])
    <3>1. pos[k] \in 1..Len(fs) /\ fs[pos[k]].kind = "regexp"
      BY DEF Follows
    <3>2. regexps[k] = [hosts |-> fs[pos[k]].hosts, mount |-> MountOf(fs[pos[k]])]
      BY DEF Follows
    <3> HIDE DEF l
    <3> QED
      BY <3>1, <3>2
  <2> QED
    BY <2>1 DEF Follows
<1>3. FirstRegexp(host, path) = IF found = {} THEN NoMount ELSE regexps[first].mount
  BY DEF FirstRegexp
<1>4. ASSUME NEW i \in hits PROVE \E k \in found : pos[k] = i
  <2>1. i \in 1..Len(fs) /\ Concerns(fs[i], "regexp", host) /\ PathMatches(MountOf(fs[i]), path)
    BY DEF Hits
  <2>2. PICK k \in 1..l : pos[k] = i
    BY <1>2, <2>1 DEF Concerns
  <2> QED
    BY <1>1, <1>2, <2>1, <2>2 DEF Concerns
<1>5. \A k \in found : k \in 1..l /\ pos[k] \in hits
  BY <1>1, <1>2 DEF Hits, Concerns
<1>6. CASE found = {}
  <2>1. hits = {}
    BY <1>4, <1>6
  <2>2. FirstRegexp(host, path) = NoMount
    BY <1>3, <1>6
  <2> HIDE DEF found, hits
  <2> QED
    BY <2>1, <2>2 DEF hits
<1>7. CASE found # {}
  <2>1. found \in SUBSET Nat
    BY <1>1
  <2>2. first \in found /\ \A k \in found : first <= k
    BY <1>7, <2>1, Least
  <2>3. FirstRegexp(host, path) = regexps[first].mount
    BY <1>3, <1>7
  <2> HIDE DEF first, l
  <2>4. first \in 1..l /\ pos[first] \in hits
    BY <1>5, <2>2
  <2>5. regexps[first].mount = MountOf(fs[pos[first]])
    BY <1>2, <2>4
  <2>6. ASSUME NEW j \in hits PROVE pos[first] <= j
    <3>1. PICK k \in found : pos[k] = j
      BY <1>4
    <3>2. k \in 1..l /\ first <= k /\ pos[k] \in 1..Len(fs) /\ pos[first] \in 1..Len(fs)
      BY <1>2, <1>5, <2>2, <2>4
    <3> QED
      BY <1>1, <1>2, <2>4, <3>1, <3>2
  <2>7. MountOf(fs[pos[first]]) # NoMount
    <3>1. fs[pos[first]] \in Catalogue
      BY <1>2, <2>4
    <3> QED
      BY <3>1, MountsOf
  <2> HIDE DEF hits, found
  <2> QED
    BY <2>3, <2>4, <2>5, <2>6, <2>7 DEF hits
<1> QED
  BY <1>6, <1>7

\* Which is how a frontend is the best.
LEMMA BestHits ==
    ASSUME frontends \in Seq(Catalogue), NEW kind, NEW host, NEW path, Absolute(path),
           NEW i \in Hits(frontends, kind, host, path),
           \A j \in Hits(frontends, kind, host, path) :
              IF kind = "regexp" THEN i <= j
              ELSE Len(frontends[j].prefix) <= Len(frontends[i].prefix)
    PROVE  i \in Best(kind, host, path)
<1> DEFINE hits == Hits(frontends, kind, host, path)
           covering == {j \in DOMAIN frontends :
                           frontends[j].kind = kind /\ Covers(frontends[j], host, path)}
<1>1. /\ DOMAIN frontends = 1..Len(frontends) /\ Len(frontends) \in Nat
      /\ \A j \in 1..Len(frontends) : frontends[j] \in Catalogue
  BY LenProperties
<1>2. ASSUME NEW j \in 1..Len(frontends)
      PROVE  /\ frontends[j].prefix \in Text
             /\ j \in covering <=> j \in hits
  <2> DEFINE f == frontends[j]
  <2>1. /\ f.prefix \in Text /\ MountOf(f).prefix = f.prefix
        /\ path \in Text /\ path # <<>> /\ path[1] = "/"
    BY <1>1, MountsOf DEF Absolute
  <2>2. PathMatches(MountOf(f), path) <=> IsPrefix(Directory(f.prefix), Split(path))
    BY <2>1, CoversIsMatch
  <2> QED
    BY <1>1, <2>1, <2>2 DEF Hits, Concerns, Covers
<1>3. covering \subseteq 1..Len(frontends) /\ hits \subseteq 1..Len(frontends)
  BY <1>1 DEF Hits
<1>4. i \in covering
  BY <1>2, <1>3
<1>5. ASSUME NEW j \in covering
      PROVE  IF kind = "regexp" THEN i <= j
             ELSE \/ Len(Directory(frontends[j].prefix)) <= Len(Directory(frontends[i].prefix))
                  \/ Slashed(frontends[i].prefix)
  <2>1. j \in hits /\ j \in 1..Len(frontends) /\ i \in 1..Len(frontends)
    BY <1>2, <1>3
  <2>2. /\ frontends[i].prefix \in Text /\ frontends[j].prefix \in Text /\ path \in Text
        /\ IsPrefix(Directory(frontends[i].prefix), Split(path))
        /\ IsPrefix(Directory(frontends[j].prefix), Split(path))
    BY <1>2, <1>4, <2>1 DEF Covers, Absolute
  <2>3. CASE kind = "regexp"
    BY <2>1, <2>3
  <2>4. CASE kind # "regexp"
    <3>1. Len(frontends[j].prefix) <= Len(frontends[i].prefix)
      BY <2>1, <2>4
    <3>2. Len(frontends[j].prefix) \in Nat /\ Len(frontends[i].prefix) \in Nat
      BY <2>2 DEF Text
    <3>3. Len(frontends[i].prefix) >= Len(frontends[j].prefix)
      BY <3>1, <3>2
    <3> QED
      BY <2>2, <2>4, <3>3, DeeperIsLonger
  <2> QED
    BY <2>3, <2>4
<1>6. Best(kind, host, path) =
          {k \in covering : \A j \in covering :
              IF kind = "regexp" THEN k <= j
              ELSE \/ Len(Directory(frontends[j].prefix)) <= Len(Directory(frontends[k].prefix))
                   \/ Slashed(frontends[k].prefix)}
  BY DEF Best
<1> HIDE DEF covering
<1> QED
  BY <1>4, <1>5, <1>6

\* There is none if none matches.
LEMMA NoneBest ==
    ASSUME frontends \in Seq(Catalogue), NEW kind, NEW host, NEW path, Absolute(path),
           Hits(frontends, kind, host, path) = {}
    PROVE  Best(kind, host, path) = {}
<1>1. /\ DOMAIN frontends = 1..Len(frontends)
      /\ \A j \in 1..Len(frontends) : frontends[j] \in Catalogue
  BY LenProperties
<1>2. ASSUME NEW j \in Best(kind, host, path) PROVE FALSE
  <2> DEFINE f == frontends[j]
  <2>1. j \in 1..Len(frontends) /\ f.kind = kind /\ Covers(f, host, path)
    BY <1>1 DEF Best
  <2>2. /\ f.prefix \in Text /\ MountOf(f).prefix = f.prefix
        /\ path \in Text /\ path # <<>> /\ path[1] = "/"
    BY <1>1, <2>1, MountsOf DEF Absolute
  <2>3. PathMatches(MountOf(f), path) <=> IsPrefix(Directory(f.prefix), Split(path))
    BY <2>2, CoversIsMatch
  <2>4. j \in Hits(frontends, kind, host, path)
    BY <2>1, <2>2, <2>3 DEF Hits, Concerns, Covers
  <2> QED
    BY <2>4
<1> QED
  BY <1>2

\* What is configured, in the matchers.
ListedInv ==
    /\ frontends \in Seq(Catalogue)
    /\ Lists(pathPrefix, frontends, "path", request.host)
    /\ \A h \in Hosts : Lists(hostname[h], frontends, "hostname", h)
    /\ \E pos : Follows(regexps, frontends, pos)

\* What an application gets keeps what it is relative to, and whether that is a
\* directory.
Relative ==
    ~(mount.strip /\ Slashed(mount.prefix)) =>
        /\ Absolute(urlPath)
        /\ Segments(request.path) = IF mount.strip
                                    THEN Segments(mount.prefix) \o Segments(urlPath)
                                    ELSE Segments(urlPath)
        /\ EndsInSlash(urlPath) <=> EndsInSlash(request.path) \/ Segments(urlPath) = <<>>

\* Until it is stripped, the path is the one that was asked for, and it matches what
\* it was resolved to.
RoutedInv ==
    /\ request.path \in Paths
    /\ pc # "served" => ListedInv
    /\ pc \notin {"replied", "served"} => reply = "none"
    /\ pc \in {"config", "resolve", "scheme", "filter", "strip"} => urlPath = request.path
    /\ pc \in {"scheme", "filter", "strip"} => PathMatches(mount, request.path)
    /\ pc = "backend" \/ reply = "backend" => Relative

\* The frontends that are to get a request, as in MostSpecificWins.
Winners(host, path) ==
    IF Best("path", host, path) # {} THEN Best("path", host, path)
    ELSE IF Best("hostname", host, path) # {} THEN Best("hostname", host, path)
    ELSE Best("regexp", host, path)

\* So a request is resolved to the best of the frontends that match.
LEMMA ResolvesBest ==
    ASSUME MountsInv, ListedInv, NEW path, Absolute(path)
    PROVE  LET m == ResolveMount(request.host, path)
               winners == Winners(request.host, path)
           IN /\ m = NoMount => winners = {}
              /\ m # NoMount => \E i \in winners : m = MountOf(frontends[i])
              /\ m # NoMount => PathMatches(m, path)
<1> DEFINE host == request.host
           hits(kind) == Hits(frontends, kind, host, path)
           global == FirstMatch(pathPrefix, path)
           exact == FirstMatch(hostname[host], path)
           pattern == FirstRegexp(host, path)
           m == ResolveMount(host, path)
           Fits(kind, x) ==
               /\ x = NoMount => Best(kind, host, path) = {}
               /\ x # NoMount => \E i \in Best(kind, host, path) :
                                     x = MountOf(frontends[i]) /\ PathMatches(x, path)
<1>1. /\ frontends \in Seq(Catalogue) /\ host \in Hosts
      /\ pathPrefix \in Seq(Mounts) /\ hostname[host] \in Seq(Mounts)
      /\ regexps \in Seq([hosts : SUBSET Hosts, mount : Mounts])
  BY DEF MountsInv, ListedInv
<1>2. ASSUME NEW kind, NEW x,
             x = NoMount => hits(kind) = {},
             x # NoMount => \E i \in hits(kind) :
                /\ x = MountOf(frontends[i])
                /\ \A j \in hits(kind) :
                      IF kind = "regexp" THEN i <= j
                      ELSE Len(frontends[j].prefix) <= Len(frontends[i].prefix)
      PROVE  Fits(kind, x)
  <2>1. CASE x = NoMount
    <3>1. Best(kind, host, path) = {}
      BY <1>1, <1>2, <2>1, NoneBest
    <3> QED
      BY <2>1, <3>1
  <2>2. CASE x # NoMount
    <3>1. PICK i \in hits(kind) :
                /\ x = MountOf(frontends[i])
                /\ \A j \in hits(kind) :
                      IF kind = "regexp" THEN i <= j
                      ELSE Len(frontends[j].prefix) <= Len(frontends[i].prefix)
      BY <1>2, <2>2
    <3>2. i \in Best(kind, host, path)
      BY <1>1, <3>1, BestHits
    <3>3. PathMatches(x, path)
      BY <3>1 DEF Hits
    <3> QED
      BY <2>2, <3>1, <3>2, <3>3
  <2> QED
    BY <2>1, <2>2
<1>3. Fits("path", global)
  <2>1. /\ global = NoMount => hits("path") = {}
        /\ global # NoMount => \E i \in hits("path") :
              /\ global = MountOf(frontends[i])
              /\ \A j \in hits("path") : Len(frontends[j].prefix) <= Len(frontends[i].prefix)
    BY <1>1, FirstOfLists DEF ListedInv
  <2> HIDE DEF global, hits, Fits
  <2> QED
    BY <1>2, <2>1
<1>4. Fits("hostname", exact)
  <2>1. /\ exact = NoMount => hits("hostname") = {}
        /\ exact # NoMount => \E i \in hits("hostname") :
              /\ exact = MountOf(frontends[i])
              /\ \A j \in hits("hostname") : Len(frontends[j].prefix) <= Len(frontends[i].prefix)
    BY <1>1, FirstOfLists DEF ListedInv
  <2> HIDE DEF exact, hits, Fits
  <2> QED
    BY <1>2, <2>1
<1>5. Fits("regexp", pattern)
  <2>1. PICK pos : Follows(regexps, frontends, pos)
    BY DEF ListedInv
  <2>2. /\ pattern = NoMount => hits("regexp") = {}
        /\ pattern # NoMount => \E i \in hits("regexp") :
              /\ pattern = MountOf(frontends[i])
              /\ \A j \in hits("regexp") : i <= j
    BY <1>1, <2>1, FirstOfPatterns
  <2> HIDE DEF pattern, hits, Fits
  <2> QED
    BY <1>2, <2>2
<1>6. m = IF global # NoMount THEN global ELSE IF exact # NoMount THEN exact ELSE pattern
  BY DEF ResolveMount
<1> HIDE DEF m, global, exact, pattern, host
<1>7. CASE global # NoMount
  BY <1>3, <1>6, <1>7 DEF Winners, m, host
<1>8. CASE global = NoMount /\ exact # NoMount
  BY <1>3, <1>4, <1>6, <1>8 DEF Winners, m, host
<1>9. CASE global = NoMount /\ exact = NoMount
  BY <1>3, <1>4, <1>5, <1>6, <1>9 DEF Winners, m, host
<1> QED
  BY <1>7, <1>8, <1>9

-----------------------------------------------------------------------------
(* Operators                                                               *)

\* What an address is allowed is allowed by the first rule about it: the rules for
\* every application come first, and the others name applications.
LEMMA RulesGuard ==
    ASSUME NEW addr, NEW app, IpAllowed(addr, app, Rules)
    PROVE  \/ AllowAll = <<>> /\ AllowOnly = <<>>
           \/ \E i \in DOMAIN AllowAll : addr \in AllowAll[i]
           \/ \E i \in DOMAIN AllowOnly :
                 /\ addr \in AllowOnly[i].prefix
                 /\ app \in AllowOnly[i].apps
                 /\ \A j \in 1..(i - 1) : addr \notin AllowOnly[j].prefix
<1> DEFINE n == Len(AllowAll)
           m == Len(AllowOnly)
           about == {i \in DOMAIN Rules : addr \in Rules[i].prefix}
<1>1. /\ n \in Nat /\ DOMAIN AllowAll = 1..n
      /\ m \in Nat /\ DOMAIN AllowOnly = 1..m
  BY RoutingAssumption
<1>2. /\ DOMAIN Rules = 1..(n + m)
      /\ \A i \in 1..n : Rules[i] = [prefix |-> AllowAll[i], apps |-> {}]
      /\ \A i \in (n + 1)..(n + m) : Rules[i] = AllowOnly[i - n]
  <2> DEFINE first == [i \in DOMAIN AllowAll |-> [prefix |-> AllowAll[i], apps |-> {}]]
             R == [prefix : SUBSET Addresses, apps : SUBSET STRING]
  <2>1. \A i \in 1..n : AllowAll[i] \in SUBSET Addresses
    BY <1>1, RoutingAssumption
  <2>2. first \in Seq(R) /\ Len(first) = n
    BY <1>1, <2>1
  <2>3. AllowOnly \in Seq(R)
    BY RoutingAssumption
  <2> QED
    BY <1>1, <2>2, <2>3 DEF Rules
<1>3. CASE Rules = <<>>
  BY <1>1, <1>2, <1>3, RoutingAssumption
<1>4. CASE about # {} /\ AllowsApp(Rules[Min(about)], app)
  <2>1. about \in SUBSET Nat
    BY <1>1, <1>2
  <2>2. Min(about) \in about /\ \A j \in about : Min(about) <= j
    BY <1>4, <2>1, Least
  <2> DEFINE i == Min(about)
  <2>3. /\ i \in 1..(n + m) /\ addr \in Rules[i].prefix
        /\ \A k \in DOMAIN Rules : addr \in Rules[k].prefix => i <= k
    BY <1>2, <2>2
  <2> HIDE DEF i
  <2>4. CASE i \in 1..n
    <3>1. Rules[i] = [prefix |-> AllowAll[i], apps |-> {}] /\ i \in DOMAIN AllowAll
      BY <1>1, <1>2, <2>4
    <3>2. Rules[i].prefix = AllowAll[i]
      BY <3>1
    <3> QED
      BY <2>3, <3>1, <3>2
  <2>5. CASE i \in (n + 1)..(n + m)
    <3>1. i - n \in DOMAIN AllowOnly /\ Rules[i] = AllowOnly[i - n]
      BY <1>1, <1>2, <2>5
    <3>2. addr \in AllowOnly[i - n].prefix
      BY <2>3, <3>1
    <3>3. app \in AllowOnly[i - n].apps
      BY <1>4, <3>1, RoutingAssumption DEF AllowsApp, i
    <3>4. ASSUME NEW j \in 1..((i - n) - 1) PROVE addr \notin AllowOnly[j].prefix
      <4> HIDE DEF n, m
      <4>1. n \in Nat /\ m \in Nat
        BY <1>1
      <4>2. j + n \in (n + 1)..(n + m) /\ ~(i <= j + n) /\ (j + n) - n = j
        BY <2>5, <4>1
      <4>3. Rules[j + n] = AllowOnly[(j + n) - n] /\ j + n \in 1..(n + m)
        BY <1>2, <4>1, <4>2
      <4>4. j + n \in DOMAIN Rules /\ Rules[j + n] = AllowOnly[j]
        BY <1>2, <4>2, <4>3, Zenon
      <4>5. addr \notin Rules[j + n].prefix
        BY <2>3, <4>2, <4>4
      <4> QED
        BY <4>4, <4>5
    <3> QED
      BY <3>1, <3>2, <3>3, <3>4
  <2> QED
    BY <1>1, <2>3, <2>4, <2>5
<1> QED
  BY <1>3, <1>4 DEF IpAllowed

\* What matches is one of the mounts.
LEMMA FirstMatchIsMount ==
    ASSUME NEW mounts \in Seq(Mounts), NEW path
    PROVE  FirstMatch(mounts, path) \in Mounts \cup {NoMount}
<1> DEFINE hits == {i \in DOMAIN mounts : PathMatches(mounts[i], path)}
<1>1. hits \in SUBSET Nat /\ hits \subseteq DOMAIN mounts
  OBVIOUS
<1>2. hits # {} => Min(hits) \in DOMAIN mounts
  BY <1>1, Least
<1>3. \A i \in DOMAIN mounts : mounts[i] \in Mounts
  OBVIOUS
<1>4. CASE hits = {}
  BY <1>4 DEF FirstMatch
<1>5. CASE hits # {}
  <2>1. mounts[Min(hits)] \in Mounts
    BY <1>2, <1>3, <1>5
  <2> QED
    BY <1>5, <2>1 DEF FirstMatch
<1> QED
  BY <1>4, <1>5

\* What a request resolves to has been configured.
LEMMA ResolvesToMount ==
    ASSUME MountsInv, NEW path
    PROVE  ResolveMount(request.host, path) \in Mounts \cup {NoMount}
<1> DEFINE hits == {i \in DOMAIN regexps : /\ request.host \in regexps[i].hosts
                                           /\ PathMatches(regexps[i].mount, path)}
<1>1. FirstMatch(pathPrefix, path) \in Mounts \cup {NoMount}
  BY FirstMatchIsMount DEF MountsInv
<1>2. FirstMatch(hostname[request.host], path) \in Mounts \cup {NoMount}
  BY FirstMatchIsMount DEF MountsInv
<1>3. FirstRegexp(request.host, path) \in Mounts \cup {NoMount}
  <2>1. hits \in SUBSET Nat /\ hits \subseteq DOMAIN regexps
    BY DEF MountsInv
  <2>2. hits # {} => Min(hits) \in DOMAIN regexps
    BY <2>1, Least
  <2>3. \A i \in DOMAIN regexps : regexps[i] \in [hosts : SUBSET Hosts, mount : Mounts]
    BY ElementOfSeq, LenProperties DEF MountsInv
  <2>4. \A i \in DOMAIN regexps : regexps[i].mount \in Mounts
    BY <2>3
  <2>5. CASE hits = {}
    BY <2>5 DEF FirstRegexp
  <2>6. CASE hits # {}
    <3>1. regexps[Min(hits)].mount \in Mounts
      BY <2>2, <2>4, <2>6
    <3> QED
      BY <2>6, <3>1 DEF FirstRegexp
  <2> QED
    BY <2>5, <2>6
<1> QED
  BY <1>1, <1>2, <1>3 DEF ResolveMount

-----------------------------------------------------------------------------
(* Initial states                                                          *)

\* At first, nothing is configured and no check is passed.
LEMMA InitHolds == Init => MountsInv /\ PassedInv
<1> SUFFICES ASSUME Init PROVE MountsInv /\ PassedInv
  OBVIOUS
<1>1. <<>> \in Seq(Mounts) /\ <<>> \in Seq([hosts : SUBSET Hosts, mount : Mounts])
  BY EmptySeq
<1>2. request.host \in Hosts
  BY DEF Init, Requests
<1>3. hostname \in [Hosts -> Seq(Mounts)]
  BY <1>1 DEF Init
<1>4. MountsInv
  BY <1>1, <1>2, <1>3 DEF Init, MountsInv
<1>5. PassedInv
  BY DEF Init, PassedInv
<1> QED
  BY <1>4, <1>5

-----------------------------------------------------------------------------
(* Routing                                                                 *)

\* A frontend that is added is a mount.
LEMMA AddFrontendKeepsMounts ==
    ASSUME MountsInv, NEW f \in Catalogue, AddFrontend(f)
    PROVE  MountsInv'
<1> DEFINE m == MountOf(f)
<1>1. m \in Mounts
  BY DEF Mounts
<1>2. UNCHANGED <<pc, request, mount, reply>>
  BY DEF AddFrontend
<1>3. /\ pathPrefix' \in Seq(Mounts)
      /\ hostname' \in [Hosts -> Seq(Mounts)]
      /\ regexps' \in Seq([hosts : SUBSET Hosts, mount : Mounts])
  <2>1. CASE f.kind = "hostname"
    <3>0. PICK h \in f.hosts : \E s \in Sorted(hostname[h], m) :
                                   hostname' = [hostname EXCEPT ![h] = s]
      BY <2>1 DEF AddFrontend
    <3>1. PICK s \in Sorted(hostname[h], m) : hostname' = [hostname EXCEPT ![h] = s]
      BY <3>0
    <3>2. h \in Hosts /\ hostname[h] \in Seq(Mounts)
      BY RoutingAssumption DEF MountsInv
    <3>3. s \in Seq(Mounts)
      BY <1>1, <3>2, SortedMounts
    <3>4. hostname' \in [Hosts -> Seq(Mounts)]
      BY <3>1, <3>3 DEF MountsInv
    <3> QED
      BY <2>1, <3>4 DEF AddFrontend, MountsInv
  <2>2. CASE f.kind = "regexp"
    <3> DEFINE r == [hosts |-> f.hosts, mount |-> m]
               R == [hosts : SUBSET Hosts, mount : Mounts]
    <3>1. r \in R
      BY <1>1, RoutingAssumption
    <3>2. regexps \in Seq(R)
      BY DEF MountsInv
    <3>3. Append(regexps, r) \in Seq(R)
      BY <3>1, <3>2, AppendProperties
    <3>4. regexps' = Append(regexps, r) /\ UNCHANGED <<pathPrefix, hostname>>
      BY <2>2 DEF AddFrontend
    <3> QED
      BY <3>3, <3>4 DEF MountsInv
  <2>3. CASE f.kind = "path"
    <3>1. pathPrefix' \in Sorted(pathPrefix, m) /\ UNCHANGED <<hostname, regexps>>
      BY <2>3 DEF AddFrontend
    <3>2. pathPrefix' \in Seq(Mounts)
      BY <1>1, <3>1, SortedMounts DEF MountsInv
    <3> QED
      BY <3>1, <3>2 DEF MountsInv
  <2> QED
    BY <2>1, <2>2, <2>3, RoutingAssumption
<1> QED
  BY <1>2, <1>3 DEF MountsInv

\* No step of a request makes a mount.
LEMMA NextKeepsMounts ==
    ASSUME MountsInv, Next
    PROVE  MountsInv'
<1>1. ASSUME NEW f \in Catalogue, AddFrontend(f) PROVE MountsInv'
  BY <1>1, AddFrontendKeepsMounts
<1>2. CASE Load
  BY <1>2 DEF Load, Answer, MountsInv, configVars
<1>3. CASE Resolve
  <2>1. mount' \in Mounts \cup {NoMount}
    BY <1>3, ResolvesToMount DEF Resolve
  <2>2. mount' # NoMount => mount' \in Mounts
    BY <2>1
  <2>3. UNCHANGED <<pathPrefix, hostname, regexps, request>>
    BY <1>3 DEF Resolve, configVars
  <2>4. CASE mount' = NoMount
    <3>1. pc' = "replied" /\ reply' = "not found"
      BY <1>3, <2>4 DEF Resolve, Answer
    <3> QED
      BY <2>3, <3>1 DEF MountsInv
  <2>5. CASE mount' # NoMount
    <3>1. pc' = "scheme" /\ reply' = reply /\ pc = "resolve"
      BY <1>3, <2>5 DEF Resolve
    <3> QED
      BY <2>2, <2>3, <2>5, <3>1 DEF MountsInv
  <2> QED
    BY <2>4, <2>5
<1>4. CASE CheckScheme
  BY <1>4 DEF CheckScheme, Answer, MountsInv, configVars
<1>5. CASE Filter
  BY <1>5 DEF Filter, Answer, MountsInv, configVars
<1>6. CASE StripPrefix
  BY <1>6 DEF StripPrefix, Answer, MountsInv, configVars
<1>7. CASE Backend
  BY <1>7 DEF Backend, Answer, MountsInv, configVars
<1> QED
  BY <1>1, <1>2, <1>3, <1>4, <1>5, <1>6, <1>7 DEF Next

\* The checks stay passed: after them, neither the request nor its mount changes.
LEMMA NextKeepsPassed ==
    ASSUME MountsInv, PassedInv, Next
    PROVE  PassedInv'
<1>1. ASSUME NEW f \in Catalogue, AddFrontend(f) PROVE PassedInv'
  BY <1>1 DEF AddFrontend, PassedInv
<1>2. CASE Load
  BY <1>2 DEF Load, Answer, PassedInv, configVars
<1>3. CASE Resolve
  BY <1>3 DEF Resolve, Answer, PassedInv, MountsInv, configVars
<1>4. CASE CheckScheme
  BY <1>4 DEF CheckScheme, Answer, PassedInv, MountsInv, configVars
<1>5. CASE Filter
  BY <1>5 DEF Filter, Answer, PassedInv, configVars
<1>6. CASE StripPrefix
  BY <1>6 DEF StripPrefix, Answer, PassedInv, configVars
<1>7. CASE Backend
  BY <1>7 DEF Backend, Answer, PassedInv, configVars
<1> QED
  BY <1>1, <1>2, <1>3, <1>4, <1>5, <1>6, <1>7 DEF Next

\* Nothing is asked before the backend is entered, so routing asks nothing.
LEMMA NextKeepsChain ==
    ASSUME ChainInv, AuthorizedOnly, Next, UNCHANGED backendVars
    PROVE  ChainInv' /\ AuthorizedOnly'
<1>1. pc # "served" /\ pc' # "served"
  BY DEF Next, AddFrontend, Load, Resolve, CheckScheme, Filter, StripPrefix, Backend, Answer
<1>2. at = "routing" /\ asked = NotAsked
  BY <1>1 DEF ChainInv
<1>3. at' = "routing" /\ asked' = NotAsked
  BY <1>2 DEF backendVars
<1> QED
  BY <1>1, <1>3 DEF ChainInv, AuthorizedOnly, NotAsked, NoAuth

-----------------------------------------------------------------------------
(* The backend                                                             *)

\* What the assumption says of the chain of the mount that serves.
LEMMA ChainOfMount ==
    ASSUME mount \in Mounts
    PROVE  LET b == BackendOf[mount.app] IN
           /\ b # <<>> /\ b \in Seq(ToSet(b)) /\ Len(b) \in Nat \ {0}
           /\ DOMAIN b = 1..Len(b)
           /\ \A i \in 1..Len(b) : b[i].kind \in Auths <=> i # Len(b)
<1> DEFINE b == BackendOf[mount.app]
<1>1. PICK f \in Catalogue : mount = MountOf(f)
  BY DEF Mounts
<1>2. mount.app = f.app
  BY <1>1 DEF MountOf
<1>3. mount.app \in DOMAIN BackendOf
  BY <1>2, BackendAssumption
<1>4. b # <<>> /\ b \in Seq(ToSet(b))
  BY <1>3, BackendAssumption
<1>5. Len(b) \in Nat \ {0} /\ DOMAIN b = 1..Len(b)
  BY <1>4, LenProperties, EmptySeq
<1>6. \A i \in 1..Len(b) : b[i].kind \in Auths <=> i # Len(b)
  BY <1>3, <1>5, BackendAssumption
<1> QED
  BY <1>4, <1>5, <1>6

\* In a handler: what serves now is the one after the k that have let through, and
\* one that does not guard is the last.
LEMMA HeadIs ==
    ASSUME mount \in Mounts, chain \in Seq(ToSet(BackendOf[mount.app])),
           NEW k \in 0..(Len(BackendOf[mount.app]) - 1), Through(k)
    PROVE  /\ chain # <<>>
           /\ Head(chain) = BackendOf[mount.app][k + 1]
           /\ Head(chain).kind \in Auths <=> k + 1 # Len(BackendOf[mount.app])
<1> DEFINE b == BackendOf[mount.app]
<1>1. Len(b) \in Nat \ {0} /\ \A i \in 1..Len(b) : b[i].kind \in Auths <=> i # Len(b)
  BY ChainOfMount
<1>2. Len(chain) = Len(b) - k /\ \A i \in 1..Len(chain) : chain[i] = b[i + k]
  BY DEF Through
<1>3. Len(chain) >= 1 /\ chain # <<>> /\ Head(chain) = chain[1]
  BY <1>1, <1>2, EmptySeq, HeadTailProperties
<1>4. chain[1] = b[1 + k] /\ k + 1 \in 1..Len(b) /\ 1 + k = k + 1
  BY <1>1, <1>2, <1>3
<1> QED
  BY <1>1, <1>3, <1>4

\* A guard that lets a request through takes one handler off the chain.
LEMMA PassGuard ==
    ASSUME mount \in Mounts, mount' = mount, client' = client,
           chain \in Seq(ToSet(BackendOf[mount.app])),
           NEW k \in 0..(Len(BackendOf[mount.app]) - 1), Through(k),
           Head(chain).kind \in Auths,
           chain' = Tail(chain),
           IF Head(chain).kind = "auth_v0"
           THEN Authorize(auth, Head(chain).token) /\ auth' = NoAuth
           ELSE auth' = auth
    PROVE  /\ chain' \in Seq(ToSet(BackendOf[mount.app]))
           /\ k + 1 \in 0..(Len(BackendOf[mount.app]) - 1)
           /\ Through(k + 1)'
<1> DEFINE b == BackendOf[mount.app]
           passed(n) == {i \in 1..n : b[i].kind = "auth_v0"}
<1>1. chain # <<>> /\ Head(chain) = b[k + 1] /\ k + 1 # Len(b)
  BY HeadIs
<1>2. Len(b) \in Nat \ {0} /\ k \in Nat
  <2>1. Len(b) \in Nat \ {0}
    BY ChainOfMount
  <2> QED
    BY <2>1
<1>3. chain' \in Seq(ToSet(b)) /\ Len(chain') = Len(b) - (k + 1)
  BY <1>1, <1>2, HeadTailProperties DEF Through
<1>4. \A i \in 1..Len(chain') : chain'[i] = b[i + (k + 1)]
  <2>1. ASSUME NEW i \in 1..Len(chain') PROVE chain'[i] = b[i + (k + 1)]
    <3>1. chain'[i] = chain[i + 1]
      BY <1>1, <1>3, HeadTailProperties
    <3>2. i + 1 \in 1..Len(chain)
      BY <1>2, <1>3 DEF Through
    <3>3. chain[i + 1] = b[(i + 1) + k]
      BY <3>2 DEF Through
    <3>4. (i + 1) + k = i + (k + 1)
      BY <1>2, <1>3
    <3> QED
      BY <3>1, <3>3, <3>4
  <2> QED
    BY <2>1
<1>5. /\ \A i \in passed(k + 1) : Authorize(client.auth, b[i].token)
      /\ auth' = IF passed(k + 1) = {} THEN client.auth ELSE NoAuth
  <2>1. 1..(k + 1) = (1..k) \cup {k + 1}
    BY <1>2
  <2>2. CASE b[k + 1].kind = "auth_v0"
    <3>1. Authorize(auth, b[k + 1].token) /\ auth' = NoAuth
      BY <1>1, <2>2
    <3>2. auth = client.auth
      BY <3>1 DEF Authorize, Through
    <3>3. passed(k + 1) = passed(k) \cup {k + 1}
      BY <2>1, <2>2
    <3> QED
      BY <3>1, <3>2, <3>3 DEF Through
  <2>3. CASE b[k + 1].kind # "auth_v0"
    <3>1. auth' = auth
      BY <1>1, <2>3
    <3>2. passed(k + 1) = passed(k)
      BY <2>1, <2>3
    <3> QED
      BY <3>1, <3>2 DEF Through
  <2> QED
    BY <2>2, <2>3
<1>6. Through(k + 1)'
  BY <1>3, <1>4, <1>5 DEF Through
<1>7. k + 1 \in 0..(Len(b) - 1)
  BY <1>1, <1>2
<1> QED
  BY <1>3, <1>6, <1>7

\* An upstream is asked by the last handler only, when all guards have let the
\* request through.
LEMMA AskedByLeaf ==
    ASSUME mount \in Mounts, chain \in Seq(ToSet(BackendOf[mount.app])),
           NEW k \in 0..(Len(BackendOf[mount.app]) - 1), Through(k),
           Head(chain).kind \notin Auths,
           mount' = mount, client' = client,
           asked'.auth = IF Head(chain).kind = "reverse_proxy" /\ Head(chain).forced # NoAuth
                         THEN Head(chain).forced ELSE auth
    PROVE  AuthorizedOnly'
<1> DEFINE b == BackendOf[mount.app]
           passed == {i \in 1..k : b[i].kind = "auth_v0"}
<1>1. Head(chain) = b[k + 1] /\ k + 1 = Len(b)
  BY HeadIs
<1>2. Len(b) \in Nat \ {0} /\ DOMAIN b = 1..Len(b)
  BY ChainOfMount
<1>2a. k \in Nat /\ \A i \in Int : i \in 1..k <=> (i \in 1..Len(b) /\ i # Len(b))
  <2>1. Len(b) \in Nat \ {0}
    BY <1>2
  <2>2. k \in Nat
    BY <2>1
  <2>3. k + 1 = Len(b)
    BY <1>1
  <2> HIDE DEF b
  <2> QED
    BY <2>2, <2>3
<1>3. b[Len(b)].kind # "auth_v0"
  BY <1>1 DEF Auths
<1>4. SUFFICES ASSUME Guards # {}
               PROVE  /\ client.auth # NoAuth
                      /\ \A h \in Guards :
                            \/ client.auth.secret = h.token /\ GivesToken(client.auth)
                            \/ h.token = NoToken /\ ~GivesToken(client.auth)
                      /\ asked'.auth = IF Leaf.kind = "reverse_proxy" THEN Leaf.forced ELSE NoAuth
  BY DEF AuthorizedOnly, Guards, Handlers, Leaf
<1>5. \A h \in Guards : \E i \in passed : h = b[i]
  <2>1. ASSUME NEW h \in Guards PROVE \E i \in passed : h = b[i]
    <3>1. PICK i \in 1..Len(b) : h = b[i] /\ h.kind = "auth_v0"
      BY <1>2 DEF Guards, Handlers
    <3>2. i # Len(b)
      BY <1>3, <3>1
    <3>3. i \in 1..k
      BY <1>2a, <3>2
    <3> QED
      BY <3>1, <3>3
  <2> QED
    BY <2>1
<1>6. passed # {}
  BY <1>4, <1>5
<1>7. auth = NoAuth
  BY <1>6 DEF Through
<1>8. \A i \in passed : /\ client.auth # NoAuth
                        /\ \/ client.auth.secret = b[i].token /\ GivesToken(client.auth)
                           \/ b[i].token = NoToken /\ ~GivesToken(client.auth)
  <2>1. \A i \in passed : Authorize(client.auth, b[i].token)
    BY DEF Through
  <2> QED
    BY <2>1 DEF Authorize, GivenToken
<1>9. Leaf = Head(chain)
  BY <1>1 DEF Leaf, Last
<1>10. asked'.auth = IF Leaf.kind = "reverse_proxy" THEN Leaf.forced ELSE NoAuth
  BY <1>7, <1>9
<1> QED
  BY <1>5, <1>6, <1>8, <1>10

\* A step of the backend that asks nothing new leaves what was asked.
LEMMA NothingAsked ==
    ASSUME AuthorizedOnly, mount' = mount, client' = client, asked' = asked
    PROVE  AuthorizedOnly'
BY DEF AuthorizedOnly, Guards, Handlers, Leaf

\* Entering the backend: nothing has been let through yet.
LEMMA EnterKeeps ==
    ASSUME IInv, Enter
    PROVE  IInv'
<1>1. /\ at = "routing" /\ reply = "backend" /\ asked = NotAsked /\ mount \in Mounts
      /\ UNCHANGED <<request, mount, reply, asked>>
      /\ pc' = "served" /\ at' = "handler"
      /\ chain' = BackendOf[mount.app] /\ auth' = client'.auth
  BY DEF Enter, IInv, ChainInv, MountsInv
<1>2. MountsInv'
  <2>1. <<>> \in Seq(Mounts) /\ <<>> \in Seq([hosts : SUBSET Hosts, mount : Mounts])
    BY EmptySeq
  <2>2. pathPrefix' = <<>> /\ regexps' = <<>> /\ hostname' = [h \in Hosts |-> <<>>]
    BY DEF Enter
  <2>3. hostname' \in [Hosts -> Seq(Mounts)]
    BY <2>1, <2>2
  <2> QED
    BY <1>1, <2>1, <2>2, <2>3 DEF IInv, MountsInv
<1>3. PassedInv'
  BY <1>1 DEF IInv, PassedInv
<1>4. ChainInv'
  <2> DEFINE b == BackendOf[mount.app]
  <2>1. b \in Seq(ToSet(b)) /\ Len(b) \in Nat \ {0}
    BY <1>1, ChainOfMount
  <2>2. Through(0)'
    <3>1. {i \in 1..0 : b[i].kind = "auth_v0"} = {}
      OBVIOUS
    <3>2. \A i \in 1..Len(b) : i + 0 = i
      BY <2>1
    <3>3. Len(b) - 0 = Len(b)
      BY <2>1
    <3> QED
      BY <1>1, <3>1, <3>2, <3>3 DEF Through
  <2>3. 0 \in 0..(Len(b) - 1)
    BY <2>1
  <2> QED
    BY <1>1, <2>1, <2>2, <2>3 DEF ChainInv
<1>5. AuthorizedOnly'
  BY <1>1 DEF AuthorizedOnly
<1> QED
  BY <1>2, <1>3, <1>4, <1>5 DEF IInv

\* The steps of a backend do not route.
LEMMA ServingKeepsRouting ==
    ASSUME MountsInv, PassedInv, UNCHANGED vars
    PROVE  MountsInv' /\ PassedInv'
BY DEF MountsInv, PassedInv, vars, Rules, IpAllowed, AllowsApp

\* So neither do they change who has been let through, when the chain stays.
LEMMA ServingKeepsChain ==
    ASSUME ChainInv, at # "routing", at' # "routing",
           UNCHANGED <<vars, chain, client, auth>>
    PROVE  ChainInv'
BY DEF ChainInv, Through, vars

\* Every step of the backend of a mount keeps the invariant.
LEMMA ServeKeeps ==
    ASSUME IInv, ServeHTTP
    PROVE  IInv'
<1>1. CASE Enter
  BY <1>1, EnterKeeps
<1>2. CASE ~Enter
  <2>1. at # "routing" /\ at' # "routing" /\ UNCHANGED <<vars, client>>
    BY <1>2, ZenonT(30)
    DEF ServeHTTP, AuthV0, AuthSso, Redirect, NoVersion, AskOrigin, OriginAnswers,
       ServePage, ProxyFails, LambdaRefuses, Invoke, InvokeFails, FunctionAnswers, LookUp,
       ManifestFails, NotInManifest, InManifest, ServeFile, FileFails, Handler, Proxies,
       Respond, Abort, ProxyResponse
  <2>2. mount \in Mounts /\ chain \in Seq(ToSet(BackendOf[mount.app])) /\ mount' = mount
    BY <2>1 DEF IInv, ChainInv, MountsInv, vars
  <2>3. PICK k \in 0..(Len(BackendOf[mount.app]) - 1) : Through(k)
    BY <2>1 DEF IInv, ChainInv
  <2>4. MountsInv' /\ PassedInv'
    BY <2>1, ServingKeepsRouting DEF IInv
  <2>5. CASE UNCHANGED <<chain, auth, asked>>
    BY <2>1, <2>2, <2>4, <2>5, ServingKeepsChain, NothingAsked DEF IInv
  <2>6. CASE AuthV0 \/ AuthSso
    <3>1. asked' = asked /\ Head(chain).kind \in Auths
      BY <2>6 DEF AuthV0, AuthSso, Handler, Auths
    <3>2. CASE UNCHANGED <<chain, auth>>
      BY <2>5, <3>1, <3>2
    <3>3. CASE ~(UNCHANGED <<chain, auth>>)
      <4>1. chain' = Tail(chain)
        BY <2>6, <3>3 DEF AuthV0, AuthSso
      <4>2. IF Head(chain).kind = "auth_v0"
            THEN Authorize(auth, Head(chain).token) /\ auth' = NoAuth
            ELSE auth' = auth
        <5>1. CASE AuthV0
          <6>1. Authorize(auth, Head(chain).token)
            BY <3>3, <5>1 DEF AuthV0
          <6>2. auth' = NoAuth /\ Head(chain).kind = "auth_v0"
            BY <5>1, <6>1 DEF AuthV0, Handler
          <6> QED
            BY <6>1, <6>2
        <5>2. CASE AuthSso
          <6>1. auth' = auth /\ Head(chain).kind = "auth_sso"
            BY <5>2 DEF AuthSso, Handler
          <6> QED
            BY <6>1
        <5> QED
          BY <2>6, <5>1, <5>2
      <4>3. /\ chain' \in Seq(ToSet(BackendOf[mount.app]))
            /\ k + 1 \in 0..(Len(BackendOf[mount.app]) - 1)
            /\ Through(k + 1)'
        BY <2>1, <2>2, <2>3, <3>1, <4>1, <4>2, PassGuard
      <4>4. pc' = "served"
        BY <2>1 DEF IInv, ChainInv, vars
      <4>5. ChainInv'
        BY <2>1, <2>2, <4>3, <4>4 DEF ChainInv
      <4> QED
        BY <2>1, <2>2, <2>4, <3>1, <4>5, NothingAsked DEF IInv
    <3> QED
      BY <3>2, <3>3
  <2>7. CASE AskOrigin \/ Invoke \/ LookUp
    <3>1. UNCHANGED <<chain, auth>>
      BY <2>7 DEF AskOrigin, Invoke, LookUp
    <3>2. Head(chain).kind \notin Auths
      BY <2>7 DEF AskOrigin, Invoke, LookUp, Handler, Proxies, Auths
    <3>3. asked'.auth = IF Head(chain).kind = "reverse_proxy" /\ Head(chain).forced # NoAuth
                        THEN Head(chain).forced ELSE auth
      <4>1. CASE AskOrigin
        BY <4>1 DEF AskOrigin, Handler, Proxies, Options
      <4>2. CASE Invoke \/ LookUp
        BY <4>2 DEF Invoke, LookUp, Handler
      <4> QED
        BY <2>7, <4>1, <4>2
    <3>4. AuthorizedOnly'
      BY <2>1, <2>2, <2>3, <3>2, <3>3, AskedByLeaf
    <3>5. ChainInv'
      BY <2>1, <3>1, ServingKeepsChain DEF IInv
    <3> QED
      BY <2>4, <3>4, <3>5 DEF IInv
  <2>8. CASE \/ Redirect \/ NoVersion \/ OriginAnswers \/ ServePage \/ ProxyFails
             \/ LambdaRefuses \/ InvokeFails \/ FunctionAnswers
             \/ ManifestFails \/ NotInManifest \/ InManifest \/ ServeFile \/ FileFails
    <3>1. UNCHANGED <<chain, auth, asked>>
      BY <2>8, ZenonT(30)
      DEF Redirect, NoVersion, OriginAnswers, ServePage, ProxyFails, LambdaRefuses,
         InvokeFails, FunctionAnswers, ManifestFails, NotInManifest, InManifest, ServeFile,
         FileFails
    <3> QED
      BY <2>5, <3>1
  <2> QED
    BY <1>2, <2>6, <2>7, <2>8 DEF ServeHTTP
<1> QED
  BY <1>1, <1>2

-----------------------------------------------------------------------------
(* The answer                                                              *)

\* A backend that is none of the guards is the last one.
LEMMA LeafServes ==
    ASSUME IInv, at # "routing", Head(chain).kind \notin Auths
    PROVE  Head(chain) = Leaf
<1>1. mount \in Mounts /\ chain \in Seq(ToSet(BackendOf[mount.app]))
  BY DEF IInv, ChainInv, MountsInv
<1>2. PICK k \in 0..(Len(BackendOf[mount.app]) - 1) : Through(k)
  BY DEF IInv, ChainInv
<1> QED
  BY <1>1, <1>2, HeadIs DEF Leaf, Last

\* What is answered as a success by a step of the backend was one; and the backend
\* is where it can be.
LEMMA ServeKeepsSuccess ==
    ASSUME IInv, PlaceInv, SuccessIsTrue, ServeHTTP
    PROVE  PlaceInv' /\ SuccessIsTrue'
<1>1. CASE Enter
  <2>1. at = "routing" /\ at' = "handler" /\ answer' = answer /\ up' = up
    BY <1>1 DEF Enter
  <2>2. answer'.status = 0
    BY <2>1 DEF PlaceInv, NoAnswer
  <2> QED
    BY <2>1, <2>2 DEF PlaceInv, SuccessIsTrue
<1>2. CASE ~Enter
  <2>1. at # "routing" /\ Leaf' = Leaf
    BY <1>2, ZenonT(30)
    DEF ServeHTTP, AuthV0, AuthSso, Redirect, NoVersion, AskOrigin, OriginAnswers,
       ServePage, ProxyFails, LambdaRefuses, Invoke, InvokeFails, FunctionAnswers, LookUp,
       ManifestFails, NotInManifest, InManifest, ServeFile, FileFails, Handler, Proxies, vars,
       Leaf
  <2>2. \A kind : Handler(kind) /\ kind \notin Auths => Leaf.kind = kind
    BY <2>1, LeafServes DEF Handler
  <2>3. CASE \/ AuthV0 \/ AuthSso \/ Redirect \/ NoVersion \/ ProxyFails \/ LambdaRefuses
             \/ InvokeFails \/ ManifestFails \/ NotInManifest
    <3>1. /\ up' = up
          /\ \/ at' = at /\ answer' = answer
             \/ at' = "done" /\ answer'.status # 200
      BY <2>3 DEF AuthV0, AuthSso, Redirect, NoVersion, ProxyFails, LambdaRefuses, InvokeFails,
         ManifestFails, NotInManifest, Respond
    <3> QED
      BY <2>1, <3>1, ZenonT(30) DEF PlaceInv, SuccessIsTrue
  <2>4. CASE AskOrigin \/ Invoke \/ LookUp
    <3>1. /\ at = "handler" /\ answer' = answer /\ up' = up
          /\ at' \in {"origin", "function", "manifest"}
          /\ at' = "function" => Handler("aws_lambda")
          /\ at' = "manifest" => Handler("turbocharger")
      BY <2>4 DEF AskOrigin, Invoke, LookUp, Handler, Proxies
    <3>2. /\ at' = "function" => Leaf.kind = "aws_lambda"
          /\ at' = "manifest" => Leaf.kind = "turbocharger"
      BY <2>2, <3>1 DEF Auths
    <3>3. answer'.status = 0
      BY <3>1 DEF PlaceInv, NoAnswer
    <3> QED
      BY <2>1, <3>1, <3>2, <3>3 DEF PlaceInv, SuccessIsTrue
  <2>5. CASE OriginAnswers
    <3>1. PICK status \in {200, 403, 404} :
              /\ up' = [status |-> status, body |-> "upstream"]
              /\ IF GetsPage(Head(chain), status)
                 THEN at' = "page" /\ UNCHANGED answer
                 ELSE Respond(status, "upstream")
      BY <2>5 DEF OriginAnswers
    <3>2. CASE GetsPage(Head(chain), status)
      <4>1. status # 200 /\ at' = "page" /\ answer' = answer /\ at = "origin"
        BY <2>5, <3>1, <3>2 DEF OriginAnswers, GetsPage
      <4>2. answer'.status = 0
        BY <4>1 DEF PlaceInv, NoAnswer
      <4> QED
        BY <3>1, <4>1, <4>2 DEF PlaceInv, SuccessIsTrue
    <3>3. CASE ~GetsPage(Head(chain), status)
      <4>1. /\ answer' = [status |-> status, body |-> "upstream", whole |-> TRUE]
            /\ at' = "done"
        BY <3>1, <3>3 DEF Respond
      <4> QED
        BY <3>1, <4>1 DEF PlaceInv, SuccessIsTrue
    <3> QED
      BY <3>2, <3>3
  <2>6. CASE ServePage
    <3>1. PICK whole \in BOOLEAN :
              answer' = [status |-> up.status, body |-> "page", whole |-> whole]
      BY <2>6 DEF ServePage
    <3>2. up.status # 200 /\ at' = "done" /\ up' = up
      BY <2>6 DEF ServePage, PlaceInv
    <3> QED
      BY <3>1, <3>2 DEF PlaceInv, SuccessIsTrue
  <2>7. CASE FunctionAnswers
    <3>1. Leaf.kind = "aws_lambda" /\ answer = NoAnswer /\ at' = "done"
      BY <2>7 DEF FunctionAnswers, PlaceInv, Respond, ProxyResponse, Abort
    <3>2. PICK status, body :
              /\ up' = [status |-> status, body |-> body]
              /\ IF status # 0 THEN ProxyResponse(status, body)
                 ELSE IF Head(chain).v2 THEN Abort
                 ELSE Respond(502, "error")
      BY <2>7 DEF FunctionAnswers
    <3>3. CASE status # 0
      <4>1. answer' = [status |-> status, whole |-> TRUE,
                       body |-> IF body = "broken base64" THEN "error" ELSE body]
        BY <3>2, <3>3 DEF ProxyResponse, Respond
      <4> QED
        BY <2>1, <3>1, <3>2, <4>1 DEF PlaceInv, SuccessIsTrue
    <3>4. CASE status = 0
      <4>1. answer'.status # 200
        BY <3>1, <3>2, <3>4 DEF Respond, Abort, NoAnswer
      <4> QED
        BY <3>1, <3>2, <4>1 DEF PlaceInv, SuccessIsTrue
    <3> QED
      BY <3>3, <3>4
  <2>8. CASE InManifest
    <3>1. at = "manifest" /\ at' \in {"manifest", "done"}
          /\ \/ at' = "manifest" /\ answer' = answer
             \/ at' = "done" /\ answer'.status = 304
      BY <2>8 DEF InManifest, Respond
    <3>2. up' = [status |-> up'.status, body |-> up'.body]
      BY <2>8 DEF InManifest
    <3>3. answer'.status # 200
      BY <3>1 DEF PlaceInv, NoAnswer
    <3> QED
      BY <2>1, <3>1, <3>2, <3>3 DEF PlaceInv, SuccessIsTrue
  <2>9. CASE ServeFile
    <3>1. /\ at' = "done" /\ up' = up /\ Leaf.kind = "turbocharger"
          /\ answer' = [status |-> up.status, body |-> up.body, whole |-> TRUE]
          /\ up = [status |-> up.status, body |-> up.body]
      BY <2>9 DEF ServeFile, Respond, PlaceInv
    <3> QED
      BY <3>1 DEF PlaceInv, SuccessIsTrue
  <2>10. CASE FileFails
    <3>1. /\ at' = "done" /\ up' = up /\ Leaf.kind = "turbocharger"
          /\ up = [status |-> up.status, body |-> up.body]
      BY <2>10 DEF FileFails, PlaceInv
    <3>2. CASE answer' = [status |-> 200, body |-> "none", whole |-> TRUE]
      BY <2>1, <3>1, <3>2 DEF PlaceInv, SuccessIsTrue
    <3>3. CASE answer' = [status |-> up.status, body |-> up.body, whole |-> FALSE]
      BY <2>1, <3>1, <3>3 DEF PlaceInv, SuccessIsTrue
    <3> QED
      BY <2>10, <3>2, <3>3 DEF FileFails
  <2> QED
    BY <1>2, <2>3, <2>4, <2>5, <2>6, <2>7, <2>8, <2>9, <2>10 DEF ServeHTTP
<1> QED
  BY <1>1, <1>2

-----------------------------------------------------------------------------
(* What is resolved, and what is left of the path                          *)

\* A frontend that is added is in the lists that it concerns, and only in those.
LEMMA AddFrontendKeepsListed ==
    ASSUME MountsInv, ListedInv, NEW f \in Catalogue, AddFrontend(f)
    PROVE  ListedInv'
<1> DEFINE gs == Append(frontends, f)
           m == MountOf(f)
           R == [hosts : SUBSET Hosts, mount : Mounts]
<1>1. /\ frontends \in Seq(Catalogue)
      /\ Lists(pathPrefix, frontends, "path", request.host)
      /\ \A h \in Hosts : Lists(hostname[h], frontends, "hostname", h)
  BY DEF ListedInv
<1>2. /\ pathPrefix \in Seq(Mounts) /\ \A h \in Hosts : hostname[h] \in Seq(Mounts)
      /\ hostname \in [Hosts -> Seq(Mounts)] /\ regexps \in Seq(R)
  BY DEF MountsInv
<1>3. PICK pos : Follows(regexps, frontends, pos)
  BY DEF ListedInv
<1>4. frontends' = gs /\ request' = request
  BY DEF AddFrontend
<1>5. gs \in Seq(Catalogue)
  BY <1>1, AppendProperties
<1>6. \A kind, host : Concerns(f, kind, host) => f.kind = kind
  BY DEF Concerns
<1>7. /\ Lists(pathPrefix', gs, "path", request.host)
      /\ \A h \in Hosts : Lists(hostname'[h], gs, "hostname", h)
      /\ \E new : Follows(regexps', gs, new)
  <2>1. CASE f.kind = "hostname"
    <3>1. PICK h \in f.hosts : \E s \in Sorted(hostname[h], m) :
                                   hostname' = [hostname EXCEPT ![h] = s]
      BY <2>1 DEF AddFrontend
    <3>2. PICK s \in Sorted(hostname[h], m) : hostname' = [hostname EXCEPT ![h] = s]
      BY <3>1
    <3>3. pathPrefix' = pathPrefix /\ regexps' = regexps
      BY <2>1 DEF AddFrontend
    <3>4. h \in Hosts /\ f.hosts = {h}
      BY <2>1, RoutingAssumption
    <3>5. ASSUME NEW g \in Hosts PROVE Lists(hostname'[g], gs, "hostname", g)
      <4>1. CASE g = h
        <5>1. Concerns(f, "hostname", h)
          BY <2>1, <3>4 DEF Concerns
        <5>2. Lists(s, gs, "hostname", h)
          BY <1>1, <1>2, <3>2, <3>4, <5>1, SortedLists
        <5>3. hostname'[h] = s
          BY <1>2, <3>2, <3>4
        <5> QED
          BY <4>1, <5>2, <5>3
      <4>2. CASE g # h
        <5>1. ~Concerns(f, "hostname", g)
          BY <2>1, <3>4, <4>2 DEF Concerns
        <5>2. Lists(hostname[g], gs, "hostname", g)
          BY <1>1, <1>2, <5>1, SameLists
        <5>3. hostname'[g] = hostname[g]
          BY <1>2, <3>2, <4>2
        <5> QED
          BY <5>2, <5>3
      <4> QED
        BY <4>1, <4>2
    <3>6. Lists(pathPrefix, gs, "path", request.host)
      BY <1>1, <1>2, <1>6, <2>1, SameLists
    <3>7. Follows(regexps, gs, pos)
      BY <1>1, <1>3, <2>1, SameFollows
    <3> QED
      BY <3>3, <3>5, <3>6, <3>7
  <2>2. CASE f.kind = "regexp"
    <3> DEFINE r == [hosts |-> f.hosts, mount |-> m]
    <3>1. regexps' = Append(regexps, r) /\ pathPrefix' = pathPrefix /\ hostname' = hostname
      BY <2>2 DEF AddFrontend
    <3>2. r \in R
      BY RoutingAssumption DEF Mounts
    <3>3. \E new : Follows(Append(regexps, r), gs, new)
      BY <1>1, <1>2, <1>3, <2>2, <3>2, AppendFollows
    <3>4. Lists(pathPrefix, gs, "path", request.host)
      BY <1>1, <1>2, <1>6, <2>2, SameLists
    <3>5. \A h \in Hosts : Lists(hostname[h], gs, "hostname", h)
      BY <1>1, <1>2, <1>6, <2>2, SameLists
    <3> QED
      BY <3>1, <3>3, <3>4, <3>5
  <2>3. CASE f.kind = "path"
    <3>1. pathPrefix' \in Sorted(pathPrefix, m) /\ hostname' = hostname /\ regexps' = regexps
      BY <2>3 DEF AddFrontend
    <3>2. Concerns(f, "path", request.host)
      BY <2>3 DEF Concerns
    <3>3. Lists(pathPrefix', gs, "path", request.host)
      BY <1>1, <1>2, <3>1, <3>2, SortedLists
    <3>4. \A h \in Hosts : Lists(hostname[h], gs, "hostname", h)
      BY <1>1, <1>2, <1>6, <2>3, SameLists
    <3>5. Follows(regexps, gs, pos)
      BY <1>1, <1>3, <2>3, SameFollows
    <3> QED
      BY <3>1, <3>3, <3>4, <3>5
  <2> QED
    BY <2>1, <2>2, <2>3, RoutingAssumption
<1> QED
  BY <1>4, <1>5, <1>7 DEF ListedInv

\* The paths of requests are absolute.
LEMMA PathsAreAbsolute ==
    \A path \in Paths : Absolute(path)
BY RoutingAssumption DEF Absolute, Text, Chars

\* What is configured stays so, and so does who gets a request.
LEMMA SameConfig ==
    ASSUME UNCHANGED <<configVars, request>>
    PROVE  /\ ListedInv => ListedInv'
           /\ Winners(request.host, request.path)' = Winners(request.host, request.path)
BY DEF configVars, ListedInv, Winners, Best, Lists, Follows, Covers

\* Once a request is resolved, it stays with the frontend that it goes to.
LEMMA WinnerStays ==
    ASSUME MostSpecificWins, pc \notin {"config", "resolve", "served"}, reply # "not found",
           UNCHANGED <<configVars, request, mount>>
    PROVE  MostSpecificWins'
<1> SUFFICES ASSUME request.host \notin Malformed PROVE MostSpecificWins'
  BY DEF MostSpecificWins
<1>1. \E i \in Winners(request.host, request.path) : mount = MountOf(frontends[i])
  BY DEF MostSpecificWins, Winners
<1>2. Winners(request.host, request.path)' = Winners(request.host, request.path)
  BY SameConfig
<1>3. \E i \in Winners(request.host, request.path)' : mount' = MountOf(frontends'[i])
  BY <1>1, <1>2 DEF configVars
<1> QED
  BY <1>3 DEF MostSpecificWins, Winners

\* resolveMount finds the most specific frontend, and one that the path matches.
LEMMA ResolveKeeps ==
    ASSUME MountsInv, RoutedInv, Resolve
    PROVE  RoutedInv' /\ MostSpecificWins' /\ RemainderIsKept'
<1> DEFINE m == ResolveMount(request.host, request.path)
           W == Winners(request.host, request.path)
<1>1. /\ request.path \in Paths /\ ListedInv /\ reply = "none" /\ urlPath = request.path
      /\ Absolute(request.path)
  BY PathsAreAbsolute DEF Resolve, RoutedInv
<1>2. /\ m = NoMount => W = {}
      /\ m # NoMount => \E i \in W : m = MountOf(frontends[i])
      /\ m # NoMount => PathMatches(m, request.path)
  BY <1>1, ResolvesBest
<1>3. mount' = m /\ UNCHANGED <<configVars, request, urlPath>>
  BY <1>1 DEF Resolve
<1>4. ListedInv' /\ W' = W
  BY <1>1, <1>3, SameConfig
<1>5. /\ m = NoMount => pc' = "replied" /\ reply' = "not found"
      /\ m # NoMount => pc' = "scheme" /\ reply' = reply
  BY <1>3 DEF Resolve, Answer
<1> HIDE DEF m, W
<1>6. RoutedInv'
  BY <1>1, <1>2, <1>3, <1>4, <1>5 DEF RoutedInv
<1>7. MostSpecificWins'
  <2>1. IF W' = {} THEN reply' = "not found" ELSE \E i \in W' : mount' = MountOf(frontends'[i])
    BY <1>2, <1>3, <1>4, <1>5 DEF configVars
  <2> QED
    BY <2>1 DEF MostSpecificWins, W, Winners
<1>8. RemainderIsKept'
  BY <1>1, <1>5 DEF RemainderIsKept
<1> QED
  BY <1>6, <1>7, <1>8

\* What is stripped off a path leaves the rest of its segments.
LEMMA StripKeeps ==
    ASSUME MountsInv, RoutedInv, MostSpecificWins, StripPrefix
    PROVE  RoutedInv' /\ MostSpecificWins' /\ RemainderIsKept'
<1> DEFINE path == request.path
           n == Len(mount.prefix)
           s == Stripped(path, n)
<1>1. /\ path \in Paths /\ Absolute(path) /\ ListedInv /\ reply = "none" /\ urlPath = path
      /\ PathMatches(mount, path) /\ mount \in Mounts /\ mount.prefix \in Text
      /\ pc = "strip"
  BY PathsAreAbsolute, MountsOf DEF StripPrefix, RoutedInv, MountsInv
<1>2. UNCHANGED <<configVars, request, mount>>
  BY DEF StripPrefix
<1>3. ListedInv' /\ MostSpecificWins'
  BY <1>1, <1>2, SameConfig, WinnerStays
<1>4. CASE mount.strip /\ n > Len(path)
  <2>1. pc' = "replied" /\ reply' = "panic" /\ urlPath' = urlPath
    BY <1>1, <1>4 DEF StripPrefix, Answer
  <2>2. ~Slashed(mount.prefix) => mount.prefix[n] = "/" /\ path = TrimRight(mount.prefix)
    BY <1>1, <1>4, Strips
  <2>3. RemainderIsKept'
    BY <1>2, <1>4, <2>1, <2>2 DEF RemainderIsKept
  <2>4. RoutedInv'
    BY <1>1, <1>2, <1>3, <2>1 DEF RoutedInv
  <2> QED
    BY <1>3, <2>3, <2>4
<1>5. CASE ~(mount.strip /\ n > Len(path))
  <2>1. /\ pc' = "backend" /\ reply' = reply
        /\ urlPath' = IF mount.strip THEN s ELSE path
    BY <1>1, <1>5 DEF StripPrefix, Stripped
  <2>2. Relative'
    <3>1. CASE ~mount.strip
      <4>1. Segments(path) = <<>> => EndsInSlash(path)
        BY <1>1, SegmentsProperties DEF Absolute, EndsInSlash, Last
      <4>2. urlPath' = path /\ mount' = mount /\ request' = request
        BY <1>2, <2>1, <3>1
      <4> QED
        BY <1>1, <3>1, <4>1, <4>2 DEF Relative
    <3>2. CASE mount.strip /\ Slashed(mount.prefix)
      BY <1>2, <3>2 DEF Relative
    <3>3. CASE mount.strip /\ ~Slashed(mount.prefix)
      <4>1. /\ Absolute(s)
            /\ Segments(path) = Segments(mount.prefix) \o Segments(s)
            /\ EndsInSlash(s) <=> EndsInSlash(path) \/ Segments(s) = <<>>
        BY <1>1, <1>5, <3>3, Strips
      <4>2. urlPath' = s /\ mount' = mount /\ request' = request
        BY <1>2, <2>1, <3>3
      <4> HIDE DEF s
      <4> QED
        BY <3>3, <4>1, <4>2 DEF Relative
    <3> QED
      BY <3>1, <3>2, <3>3
  <2>3. RoutedInv'
    BY <1>1, <1>2, <1>3, <2>1, <2>2 DEF RoutedInv
  <2>4. RemainderIsKept'
    BY <1>1, <2>1 DEF RemainderIsKept
  <2> QED
    BY <1>3, <2>3, <2>4
<1> QED
  BY <1>4, <1>5

\* So do the other steps, which only pass the request on.
LEMMA NextKeepsRouted ==
    ASSUME MountsInv, RoutedInv, MostSpecificWins, RemainderIsKept, Next
    PROVE  RoutedInv' /\ MostSpecificWins' /\ RemainderIsKept'
<1>1. ASSUME NEW f \in Catalogue, AddFrontend(f)
      PROVE  RoutedInv' /\ MostSpecificWins' /\ RemainderIsKept'
  <2>1. pc = "config" /\ UNCHANGED <<pc, request, mount, urlPath, reply>>
    BY <1>1 DEF AddFrontend
  <2>2. ListedInv'
    BY <1>1, <2>1, AddFrontendKeepsListed DEF RoutedInv
  <2>3. reply = "none"
    BY <2>1 DEF RoutedInv
  <2> QED
    BY <2>1, <2>2, <2>3 DEF RoutedInv, MostSpecificWins, RemainderIsKept
<1>2. CASE Load
  <2>1. /\ pc = "config" /\ UNCHANGED <<configVars, request, mount, urlPath>>
        /\ \/ pc' = "resolve" /\ reply' = reply
           \/ pc' = "replied" /\ reply' = "bad request" /\ request.host \in Malformed
    BY <1>2 DEF Load, Answer
  <2>2. ListedInv'
    BY <2>1, SameConfig DEF RoutedInv
  <2>3. reply = "none"
    BY <2>1 DEF RoutedInv
  <2> QED
    BY <2>1, <2>2, <2>3 DEF RoutedInv, MostSpecificWins, RemainderIsKept
<1>3. CASE Resolve
  BY <1>3, ResolveKeeps
<1>4. CASE CheckScheme \/ Filter
  <2>1. /\ pc \in {"scheme", "filter"} /\ UNCHANGED <<configVars, request, mount, urlPath>>
        /\ \/ pc' \in {"filter", "strip"} /\ reply' = reply
           \/ pc' = "replied" /\ reply' \in {"redirect", "forbidden"}
    BY <1>4 DEF CheckScheme, Filter, Answer
  <2>2. ListedInv' /\ reply = "none"
    BY <2>1, SameConfig DEF RoutedInv
  <2>3. MostSpecificWins'
    BY <2>1, <2>2, WinnerStays
  <2>4. RoutedInv'
    BY <2>1, <2>2 DEF RoutedInv
  <2>5. RemainderIsKept'
    BY <2>1, <2>2 DEF RemainderIsKept
  <2> QED
    BY <2>3, <2>4, <2>5
<1>5. CASE StripPrefix
  BY <1>5, StripKeeps
<1>6. CASE Backend
  <2>1. /\ pc = "backend" /\ pc' = "replied" /\ reply' = "backend"
        /\ UNCHANGED <<configVars, request, mount, urlPath>>
    BY <1>6 DEF Backend, Answer
  <2>2. ListedInv' /\ reply = "none" /\ Relative
    BY <2>1, SameConfig DEF RoutedInv
  <2>3. MostSpecificWins'
    BY <2>1, <2>2, WinnerStays
  <2>4. Relative'
    BY <2>1, <2>2 DEF Relative
  <2>5. RoutedInv'
    BY <2>1, <2>2, <2>4 DEF RoutedInv
  <2>6. RemainderIsKept'
    BY <2>1, <2>4 DEF RemainderIsKept, Relative, Absolute
  <2> QED
    BY <2>3, <2>5, <2>6
<1> QED
  BY <1>1, <1>2, <1>3, <1>4, <1>5, <1>6 DEF Next

\* A step of the backend leaves what the request was resolved to, and its path.
LEMMA ServingKeepsRouted ==
    ASSUME RoutedInv, MostSpecificWins, RemainderIsKept, ServeHTTP \/ UNCHANGED allVars
    PROVE  RoutedInv' /\ MostSpecificWins' /\ RemainderIsKept'
<1>1. CASE UNCHANGED vars
  <2>1. UNCHANGED <<configVars, request>> /\ UNCHANGED <<pc, mount, urlPath, reply>>
    BY <1>1 DEF vars, configVars
  <2>2. RoutedInv'
    BY <2>1, SameConfig DEF RoutedInv, Relative
  <2>3. MostSpecificWins'
    <3>1. Winners(request.host, request.path)' = Winners(request.host, request.path)
      BY <2>1, SameConfig
    <3>2. frontends' = frontends
      BY <2>1 DEF configVars
    <3> QED
      BY <2>1, <3>1, <3>2 DEF MostSpecificWins, Winners
  <2> QED
    BY <2>1, <2>2, <2>3 DEF RemainderIsKept
<1>2. CASE Enter
  <2>1. reply = "backend" /\ pc' = "served" /\ UNCHANGED <<request, mount, urlPath, reply>>
    BY <1>2 DEF Enter
  <2>2. RoutedInv'
    BY <2>1 DEF RoutedInv, Relative
  <2> QED
    BY <2>1, <2>2 DEF MostSpecificWins, RemainderIsKept
<1>3. CASE ServeHTTP /\ ~Enter
  <2>1. UNCHANGED vars
    BY <1>3, ZenonT(30)
    DEF ServeHTTP, AuthV0, AuthSso, Redirect, NoVersion, AskOrigin, OriginAnswers,
       ServePage, ProxyFails, LambdaRefuses, Invoke, InvokeFails, FunctionAnswers, LookUp,
       ManifestFails, NotInManifest, InManifest, ServeFile, FileFails
  <2> QED
    BY <1>1, <2>1
<1> QED
  BY <1>1, <1>2, <1>3 DEF allVars

\* Where every request starts, nothing is configured.
LEMMA RoutedAtFirst ==
    Init => RoutedInv /\ MostSpecificWins /\ RemainderIsKept
<1> SUFFICES ASSUME Init PROVE RoutedInv /\ MostSpecificWins /\ RemainderIsKept
  OBVIOUS
<1>1. /\ frontends = <<>> /\ pathPrefix = <<>> /\ regexps = <<>> /\ pc = "config"
      /\ hostname = [h \in Hosts |-> <<>>] /\ reply = "none" /\ urlPath = request.path
      /\ request.path \in Paths
  BY DEF Init, Requests
<1>2. DOMAIN frontends = {} /\ DOMAIN pathPrefix = {} /\ DOMAIN regexps = {}
  BY <1>1
<1>3. \A kind, host : Lists(<<>>, <<>>, kind, host)
  BY DEF Lists
<1>4. Follows(regexps, frontends, <<>>)
  BY <1>1, <1>2 DEF Follows
<1>5. ListedInv
  BY <1>1, <1>3, <1>4, EmptySeq DEF ListedInv
<1> QED
  BY <1>1, <1>5 DEF RoutedInv, MostSpecificWins, RemainderIsKept

-----------------------------------------------------------------------------
(* What the upstream is asked                                              *)

\* What AskedRelative compares: the rest of the segments, and whether they name a
\* directory.
Rest ==
    LET below == IF mount.strip THEN Len(Segments(mount.prefix)) ELSE 0
    IN SubSeq(Segments(request.path), below + 1, Len(Segments(request.path)))

\* What an application gets is the rest.
LEMMA RestOfPath ==
    ASSUME mount \in Mounts, Absolute(request.path), Relative,
           ~(mount.strip /\ Slashed(mount.prefix))
    PROVE  /\ Absolute(urlPath)
           /\ Rest = Segments(urlPath)
           /\ EndsInSlash(urlPath) <=> EndsInSlash(request.path) \/ Rest = <<>>
<1> DEFINE s == Segments(mount.prefix)
           t == Segments(urlPath)
           w == Segments(request.path)
<1>1. /\ Absolute(urlPath)
      /\ EndsInSlash(urlPath) <=> EndsInSlash(request.path) \/ t = <<>>
      /\ mount.strip => w = s \o t
      /\ ~mount.strip => w = t
  BY DEF Relative
<1>2. s \in Seq(Text) /\ t \in Seq(Text) /\ w \in Seq(Text)
  BY <1>1, MountsOf, SegmentsProperties DEF Absolute
<1> HIDE DEF s, t, w
<1>3. CASE mount.strip
  <2>1. Rest = SubSeq(w, Len(s) + 1, Len(w))
    BY <1>3 DEF Rest, s, w
  <2>2. SubSeq(w, Len(s) + 1, Len(w)) = t
    BY <1>1, <1>2, <1>3, AfterPrefix
  <2>3. Rest = t
    BY <2>1, <2>2
  <2> QED
    BY <1>1, <2>3 DEF t
<1>4. CASE ~mount.strip
  <2>1. Rest = SubSeq(w, 0 + 1, Len(w))
    BY <1>4 DEF Rest, w
  <2>2. Len(w) \in Nat /\ 0 \in 0..Len(w) /\ 0 + 1 = 1
    BY <1>2
  <2>3. SubSeq(w, 0 + 1, Len(w)) = w
    BY <1>2, <2>2, SubSeqFull
  <2>4. Rest = t
    BY <1>1, <1>4, <2>1, <2>3
  <2> QED
    BY <1>1, <2>4 DEF t
<1> QED
  BY <1>3, <1>4

\* Whether the backend adds an index document, and the paths of its origins.
Indexed == \/ Leaf.kind \in {"s3_static_website", "turbocharger"}
           \/ Leaf.kind = "reverse_proxy" /\ Leaf.index

Bases == CASE Leaf.kind = "reverse_proxy" -> {o.path : o \in Leaf.origins}
           [] Leaf.kind = "s3_static_website" -> {S3Origin.path}
           [] OTHER -> {<<>>}

\* Nothing but a place below an origin is asked for.
AsksRest ==
    \E b \in Bases :
        Segments(asked.path) =
            Segments(b) \o Rest
               \o (IF (EndsInSlash(request.path) \/ Rest = <<>>) /\ Indexed THEN <<Index>> ELSE <<>>)

LEMMA AsksRestSuffices ==
    (asked # NotAsked /\ ~(mount.strip /\ Slashed(mount.prefix)) => AsksRest) <=> AskedRelative
BY DEF AskedRelative, AsksRest, Rest, Indexed, Bases

\* A path that is built from an origin's, the rest and the index document is one.
LEMMA AskedIs ==
    ASSUME mount \in Mounts, Absolute(request.path), Relative,
           ~(mount.strip /\ Slashed(mount.prefix)),
           NEW base \in Text, NEW indexed \in BOOLEAN, base \in Bases, indexed <=> Indexed,
           asked'.path = base \o (IF indexed THEN WithIndex(urlPath) ELSE urlPath),
           UNCHANGED <<mount, request>>
    PROVE  AsksRest'
<1> DEFINE directory == EndsInSlash(request.path) \/ Rest = <<>>
           more == IF directory /\ Indexed THEN <<Index>> ELSE <<>>
<1>1. Absolute(urlPath) /\ Rest = Segments(urlPath) /\ (EndsInSlash(urlPath) <=> directory)
  BY RestOfPath
<1>2. Segments(asked'.path) =
         Segments(base) \o Segments(urlPath)
            \o (IF EndsInSlash(urlPath) /\ indexed THEN <<Index>> ELSE <<>>)
  BY <1>1, AskedPath
<1>3. Segments(asked'.path) = Segments(base) \o Rest \o more
  BY <1>1, <1>2
<1>4. Rest' = Rest /\ more' = more /\ Bases' = Bases
  BY DEF Rest, Indexed, Bases, Leaf
<1> HIDE DEF more
<1>5. \E b \in Bases' : Segments(asked'.path) = Segments(b) \o Rest' \o more'
  BY <1>3, <1>4
<1> QED
  BY <1>5 DEF AsksRest, more

\* What is served is what routing hands to the backend, and the upstream is asked for
\* the rest.
RestInv ==
    /\ at # "routing" => reply = "backend"
    /\ asked # NotAsked /\ ~(mount.strip /\ Slashed(mount.prefix)) => AsksRest

\* The paths of the origins are texts.
LEMMA OriginPaths ==
    ASSUME mount \in Mounts
    PROVE  /\ Leaf.kind = "reverse_proxy" => \A o \in Leaf.origins : o.path \in Text
           /\ S3Origin.path \in Text
<1> DEFINE b == BackendOf[mount.app]
<1>1. PICK f \in Catalogue : mount.app = f.app
  BY DEF Mounts, MountOf
<1>2. b = BackendOf[mount.app] /\ mount.app \in DOMAIN BackendOf
  BY <1>1, BackendAssumption
<1>3. Len(b) \in DOMAIN b /\ Leaf = b[Len(b)]
  <2>1. Len(b) \in Nat \ {0} /\ DOMAIN b = 1..Len(b)
    BY ChainOfMount
  <2>2. Leaf = b[Len(b)]
    BY DEF Leaf, Last
  <2> HIDE DEF b
  <2> QED
    BY <2>1, <2>2
<1>4. \A s : s \in Seq(STRING) => s \in Text
  BY DEF Text, Chars
<1> HIDE DEF b
<1>5. b[Len(b)].kind = "reverse_proxy" => \A o \in b[Len(b)].origins : o.path \in Seq(STRING)
  BY <1>2, <1>3, BackendAssumption DEF b
<1> QED
  BY <1>3, <1>4, <1>5, BackendAssumption

\* Every question to an upstream is about a place below one of its origins.
LEMMA AskKeepsRest ==
    ASSUME IInv, RoutedInv, RestInv, AskOrigin \/ Invoke \/ LookUp
    PROVE  RestInv'
<1>1. at # "routing" /\ reply = "backend" /\ UNCHANGED vars
  BY DEF AskOrigin, Invoke, LookUp, Handler, Proxies, RestInv
<1>2. mount \in Mounts /\ Absolute(request.path) /\ Relative
  BY <1>1, PathsAreAbsolute DEF IInv, MountsInv, RoutedInv
<1>3. UNCHANGED <<mount, request, reply>>
  BY <1>1 DEF vars
<1>4. SUFFICES ASSUME ~(mount.strip /\ Slashed(mount.prefix)) PROVE AsksRest'
  BY <1>1, <1>3 DEF RestInv
<1>5. <<>> \in Text
  BY Slash
<1>6. CASE AskOrigin
  <2>1. Head(chain).kind \in {"reverse_proxy", "s3_static_website"} /\ Head(chain) = Leaf
    BY <1>1, <1>6, LeafServes DEF AskOrigin, Proxies, Handler, Auths
  <2>2. PICK origin \in Options(Head(chain)).origins :
           asked' = [host |-> origin.host,
                     path |-> OriginPath(origin, IF Options(Head(chain)).index
                                                 THEN WithIndex(urlPath) ELSE urlPath),
                     auth |-> IF Options(Head(chain)).forced # NoAuth
                              THEN Options(Head(chain)).forced ELSE auth,
                     query |-> client.query /\ ~Options(Head(chain)).removeQuery]
    BY <1>6 DEF AskOrigin
  <2>3. origin.path \in Text /\ origin.path \in Bases
    BY <1>2, <2>1, <2>2, OriginPaths DEF Options, Bases
  <2> DEFINE indexed == IF Options(Leaf).index THEN TRUE ELSE FALSE
  <2>4. indexed \in BOOLEAN /\ (indexed <=> Indexed)
    BY <2>1 DEF Options, Indexed
  <2>5. asked'.path = origin.path \o (IF indexed THEN WithIndex(urlPath) ELSE urlPath)
    BY <2>1, <2>2 DEF OriginPath
  <2> HIDE DEF indexed
  <2> QED
    BY <1>2, <1>3, <1>4, <2>3, <2>4, <2>5, AskedIs
<1>7. CASE Invoke
  <2>1. Leaf.kind = "aws_lambda" /\ asked'.path = urlPath
    BY <1>1, <1>7, LeafServes DEF Invoke, Handler, Auths
  <2>2. ~Indexed /\ <<>> \in Bases
    BY <2>1 DEF Indexed, Bases
  <2>3. <<>> \o urlPath = urlPath
    BY <1>2, <1>4, ConcatEmptySeq DEF Relative, Absolute, Text
  <2>4. asked'.path = <<>> \o (IF FALSE THEN WithIndex(urlPath) ELSE urlPath)
    BY <2>1, <2>3
  <2> QED
    BY <1>2, <1>3, <1>4, <1>5, <2>2, <2>4, AskedIs
<1>8. CASE LookUp
  <2>1. Leaf.kind = "turbocharger" /\ asked'.path = WithIndex(urlPath)
    BY <1>1, <1>8, LeafServes DEF LookUp, Handler, Auths
  <2>2. Indexed /\ <<>> \in Bases
    BY <2>1 DEF Indexed, Bases
  <2>3. WithIndex(urlPath) \in Text
    <3>1. urlPath \in Seq(Chars) /\ Index \in Seq(Chars)
      BY <1>2, <1>4, IndexSegments DEF Relative, Absolute, Text
    <3>2. (urlPath \o Index) \in Seq(Chars)
      BY <3>1, ConcatProperties
    <3> QED
      BY <3>1, <3>2 DEF WithIndex, Text
  <2>4. <<>> \o WithIndex(urlPath) = WithIndex(urlPath)
    BY <2>3, ConcatEmptySeq DEF Text
  <2>5. asked'.path = <<>> \o (IF TRUE THEN WithIndex(urlPath) ELSE urlPath)
    BY <2>1, <2>4
  <2> QED
    BY <1>2, <1>3, <1>4, <1>5, <2>2, <2>5, AskedIs
<1> QED
  BY <1>6, <1>7, <1>8

\* No other step asks anything.
LEMMA StepKeepsRest ==
    ASSUME IInv, RoutedInv, RestInv, [Route \/ ServeHTTP]_allVars
    PROVE  RestInv'
<1>1. CASE Route
  BY <1>1 DEF Route, backendVars, RestInv, IInv, ChainInv, Next, AddFrontend, Load, Resolve,
     CheckScheme, Filter, StripPrefix, Backend
<1>2. CASE AskOrigin \/ Invoke \/ LookUp
  BY <1>2, AskKeepsRest
<1>3. CASE (ServeHTTP \/ UNCHANGED allVars) /\ ~(AskOrigin \/ Invoke \/ LookUp)
  <2>1. UNCHANGED <<mount, request, reply, asked>>
    BY <1>3, ZenonT(30)
    DEF ServeHTTP, Enter, AuthV0, AuthSso, Redirect, NoVersion, OriginAnswers, ServePage,
       ProxyFails, LambdaRefuses, InvokeFails, FunctionAnswers, ManifestFails, NotInManifest,
       InManifest, ServeFile, FileFails, allVars, backendVars, vars
  <2>2. at' # "routing" => at # "routing" \/ reply = "backend"
    BY <1>3, ZenonT(30)
    DEF ServeHTTP, Enter, AuthV0, AuthSso, Redirect, NoVersion, OriginAnswers, ServePage,
       ProxyFails, LambdaRefuses, InvokeFails, FunctionAnswers, ManifestFails, NotInManifest,
       InManifest, ServeFile, FileFails, allVars, backendVars, Handler
  <2>3. AsksRest' <=> AsksRest
    BY <2>1 DEF AsksRest, Bases, Indexed, Rest, Leaf
  <2> QED
    BY <2>1, <2>2, <2>3 DEF RestInv
<1> QED
  BY <1>1, <1>2, <1>3 DEF ServeHTTP

-----------------------------------------------------------------------------
(* Theorems                                                                *)

\* The inductive invariant of a request: what is configured are mounts, its checks
\* stay passed, the chain is what has yet to let it through.
THEOREM Invariant == BackendSpec => []IInv
<1>1. BackendInit => IInv
  <2> SUFFICES ASSUME BackendInit PROVE IInv
    OBVIOUS
  <2>1. MountsInv /\ PassedInv
    BY InitHolds DEF BackendInit
  <2>2. ChainInv /\ AuthorizedOnly
    BY DEF BackendInit, Init, ChainInv, AuthorizedOnly
  <2> QED
    BY <2>1, <2>2 DEF IInv
<1>2. IInv /\ [Route \/ ServeHTTP]_allVars => IInv'
  <2> SUFFICES ASSUME IInv, [Route \/ ServeHTTP]_allVars PROVE IInv'
    OBVIOUS
  <2>1. CASE Route
    <3>1. MountsInv' /\ PassedInv'
      BY <2>1, NextKeepsMounts, NextKeepsPassed DEF Route, IInv
    <3>2. ChainInv' /\ AuthorizedOnly'
      BY <2>1, NextKeepsChain DEF Route, IInv
    <3> QED
      BY <3>1, <3>2 DEF IInv
  <2>2. CASE ServeHTTP
    BY <2>2, ServeKeeps
  <2>3. CASE UNCHANGED allVars
    <3>1. UNCHANGED <<vars, at, chain, client, auth, asked>>
      BY <2>3 DEF allVars, backendVars
    <3>2. MountsInv' /\ PassedInv'
      BY <3>1, ServingKeepsRouting DEF IInv
    <3>3. mount' = mount
      BY <3>1 DEF vars
    <3>4. AuthorizedOnly'
      BY <3>1, <3>3, NothingAsked DEF IInv
    <3>5. ChainInv'
      BY <3>1 DEF IInv, ChainInv, Through, vars
    <3> QED
      BY <3>2, <3>4, <3>5 DEF IInv
  <2> QED
    BY <2>1, <2>2, <2>3
<1> QED
  BY <1>1, <1>2, PTL DEF BackendSpec

\* No backend sees a request in the clear, or from an address, that its frontend or
\* the rules file does not allow, whatever frontends, rules and addresses there are
\* (serve.go:140-151, ipfilter.go:31-67).
THEOREM GuardedBackends == BackendSpec => []BackendGuarded
<1>1. IInv => BackendGuarded
  BY RulesGuard DEF IInv, PassedInv, BackendGuarded
<1> QED
  BY <1>1, Invariant, PTL

\* Whatever tokens guards are configured with, and however they are nested, their
\* upstream is asked by those clients only that the property names, and does not see
\* the client's header (authv0.go:29-74, backendfactory.go:67-105).
THEOREM AuthorizedUpstreams == BackendSpec => []AuthorizedOnly
<1>1. IInv => AuthorizedOnly
  BY DEF IInv
<1> QED
  BY <1>1, Invariant, PTL

\* What the client is told is a success was one, with the upstream's body, but for
\* the three cases that the property names, whatever the backends, clients and
\* manifests are (reverseproxy.go, lambdabackend.go:60-156, manifesthandler.go:66-304).
THEOREM TrueSuccess == BackendSpec => []SuccessIsTrue
<1>1. BackendInit => PlaceInv /\ SuccessIsTrue
  BY DEF BackendInit, PlaceInv, SuccessIsTrue, NoAnswer, Nil
<1>2. /\ PlaceInv /\ SuccessIsTrue /\ IInv /\ [Route \/ ServeHTTP]_allVars
      => PlaceInv' /\ SuccessIsTrue'
  <2> SUFFICES ASSUME PlaceInv, SuccessIsTrue, IInv, [Route \/ ServeHTTP]_allVars
               PROVE  PlaceInv' /\ SuccessIsTrue'
    OBVIOUS
  <2>1. CASE Route
    <3>1. UNCHANGED <<at, answer, up>>
      BY <2>1 DEF Route, backendVars
    <3>2. at = "routing"
      BY <2>1 DEF Route, IInv, ChainInv, Next, AddFrontend, Load, Resolve, CheckScheme, Filter,
         StripPrefix, Backend
    <3>3. answer'.status = 0
      BY <3>1, <3>2 DEF PlaceInv, NoAnswer
    <3> QED
      BY <3>1, <3>2, <3>3 DEF PlaceInv, SuccessIsTrue
  <2>2. CASE ServeHTTP
    BY <2>2, ServeKeepsSuccess
  <2>3. CASE UNCHANGED allVars
    BY <2>3, ZenonT(30) DEF allVars, backendVars, vars, PlaceInv, SuccessIsTrue, Leaf
  <2> QED
    BY <2>1, <2>2, <2>3
<1> QED
  BY <1>1, <1>2, Invariant, PTL DEF BackendSpec

\* The parts of the invariant about what a request is resolved to hold together.
LEMMA Routed == BackendSpec => [](RoutedInv /\ MostSpecificWins /\ RemainderIsKept)
<1> DEFINE Inv == RoutedInv /\ MostSpecificWins /\ RemainderIsKept
<1>1. BackendInit => Inv
  BY RoutedAtFirst DEF BackendInit
<1>2. Inv /\ IInv /\ [Route \/ ServeHTTP]_allVars => Inv'
  <2> SUFFICES ASSUME Inv, IInv, [Route \/ ServeHTTP]_allVars PROVE Inv'
    OBVIOUS
  <2>1. CASE Route
    BY <2>1, NextKeepsRouted DEF Route, IInv
  <2>2. CASE ServeHTTP \/ UNCHANGED allVars
    BY <2>2, ServingKeepsRouted
  <2> QED
    BY <2>1, <2>2
<1> QED
  BY <1>1, <1>2, Invariant, PTL DEF BackendSpec

\* A request goes to the most specific of the frontends that cover it, whatever
\* prefixes, hosts and paths there are and in whatever order the frontends were
\* configured (mountresolver.go:29-35, 120-165).
THEOREM MostSpecific == BackendSpec => []MostSpecificWins
<1>1. RoutedInv /\ MostSpecificWins /\ RemainderIsKept => MostSpecificWins
  OBVIOUS
<1> QED
  BY <1>1, Routed, PTL

\* Prefix and remainder make up the path that was asked for, and only one case is out
\* of bounds (serve.go:153-163).
THEOREM Remainder == BackendSpec => []RemainderIsKept
<1>1. RoutedInv /\ MostSpecificWins /\ RemainderIsKept => RemainderIsKept
  OBVIOUS
<1> QED
  BY <1>1, Routed, PTL

\* From the listener to the upstream, the path keeps its meaning, whatever the
\* prefixes of frontends and the paths of origins are (serve.go:153-163,
\* reverseproxy.go:78-98, turbochargerbackend/backend.go:25-27).
THEOREM RelativeUpstreams == BackendSpec => []AskedRelative
<1>1. BackendInit => RestInv
  BY DEF BackendInit, RestInv
<1>2. RestInv /\ IInv /\ RoutedInv /\ [Route \/ ServeHTTP]_allVars => RestInv'
  BY StepKeepsRest
<1>3. RestInv => AskedRelative
  BY AsksRestSuffices DEF RestInv
<1>4. RoutedInv /\ MostSpecificWins /\ RemainderIsKept => RoutedInv
  OBVIOUS
<1> QED
  BY <1>1, <1>2, <1>3, <1>4, Invariant, Routed, PTL DEF BackendSpec
=============================================================================
