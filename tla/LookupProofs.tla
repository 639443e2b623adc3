---------------------------- MODULE LookupProofs ----------------------------
(***************************************************************************)
(* What a lookup asks and what it waits for, for any number of nodes, any  *)
(* distances and suggestions, and any capacity and number of calls.        *)
(***************************************************************************)
EXTENDS Lookup, FiniteSetTheorems, TLAPS

Candidate == [pinged : 0..3, sent : BOOLEAN]

\* The list c of candidates of a task with the calls fl in flight, to which ans have
\* answered: pinged counts what was asked, a candidate that waits to be asked has not
\* answered and may be asked again, and one that was asked is in flight or was misled.
GoodList(c, fl, ans, ask) ==
    /\ \A i \in DOMAIN c :
          /\ c[i] \in Candidate /\ ask[i] = c[i].pinged
          /\ c[i].sent \/ (c[i].pinged < 3 /\ i \notin ans)
          /\ c[i].sent => i \in fl \/ (kind = "value" /\ i \in ans \cap Impostors)
    /\ \A i \in fl : i \in DOMAIN c /\ c[i].sent /\ i \notin ans

\* What was ever a candidate is remembered, so nothing else was asked or has answered.
Remembered(c, ids, ans, ask) ==
    /\ DOMAIN c \subseteq ids /\ ids \subseteq Ids /\ ans \subseteq ids
    /\ ask \in [Ids -> 0..3]
    /\ \A i \in Ids \ ids : ask[i] = 0

\* The inductive invariant.
IInv ==
    /\ kind \in {"node", "value"}
    /\ state \in {"QUEUED", "RUNNING", "FINISHED", "CANCELED"}
    /\ state \in {"QUEUED", "RUNNING"} =>
          /\ GoodList(candidates, inFlight, answered, asked)
          /\ Remembered(candidates, dedupIds, answered, asked)
          /\ Cardinality(inFlight) <= MAX_CONCURRENT_TASK_REQUESTS
    /\ state = "QUEUED" => inFlight = {}
    /\ WaitsForAnswer

-----------------------------------------------------------------------------
(* The order in which candidates are asked. *)

\* How many elements of S stand before i.
Rank(c, S, i) == Cardinality({j \in S : Before(c, j, i)})

Ranked(c, S) == S \subseteq Ids /\ IsFiniteSet(S) /\ \A i \in S : c[i].pinged \in Nat

\* candidateOrder is a strict order without ties, so no two candidates have one rank.
LEMMA RanksDiffer ==
    ASSUME NEW c, NEW S, Ranked(c, S)
    PROVE  /\ \A i \in S : Rank(c, S, i) \in 0..(Cardinality(S) - 1)
           /\ \A i, j \in S : i # j => Rank(c, S, i) # Rank(c, S, j)
<1> DEFINE B(i) == {j \in S : Before(c, j, i)}
<1>a. /\ S \subseteq Ids /\ IsFiniteSet(S)
      /\ \A i \in S : c[i].pinged \in Nat /\ Dist[i] \in Nat
      /\ \A i, j \in S : Dist[i] = Dist[j] => i = j
  <2>1. \A i \in Ids : Dist[i] \in Nat BY LookupAssumption, Zenon
  <2>2. \A i, j \in Ids : Dist[i] = Dist[j] => i = j BY LookupAssumption, Zenon
  <2> QED BY <2>1, <2>2, Zenon DEF Ranked
<1>b. Cardinality(S) \in Nat BY <1>a, FS_CardinalityType, Zenon
<1>1. \A i \in S : ~ Before(c, i, i) BY <1>a DEF Before
<1>2. \A i, j, k \in S : Before(c, i, j) /\ Before(c, j, k) => Before(c, i, k)
  BY <1>a DEF Before
<1>3. \A i, j \in S : i = j \/ Before(c, i, j) \/ Before(c, j, i)
  BY <1>a DEF Before
<1>4. \A i \in S : B(i) \in SUBSET S /\ i \notin B(i) BY <1>1, Zenon
<1>5. ASSUME NEW i \in S
      PROVE  IsFiniteSet(B(i)) /\ Cardinality(B(i)) \in Nat /\ Cardinality(B(i)) < Cardinality(S)
  <2>1. IsFiniteSet(B(i)) /\ Cardinality(B(i)) <= Cardinality(S)
        /\ (Cardinality(S) = Cardinality(B(i)) => S = B(i))
    BY <1>a, <1>4, FS_Subset, Zenon
  <2>2. Cardinality(B(i)) \in Nat BY <2>1, FS_CardinalityType, Zenon
  <2>3. S # B(i) BY <1>4, Zenon
  <2> QED BY <1>b, <2>1, <2>2, <2>3
<1>6. ASSUME NEW i \in S, NEW j \in S, Before(c, i, j)
      PROVE  Cardinality(B(i)) # Cardinality(B(j))
  <2>1. B(i) \in SUBSET B(j) BY <1>2, <1>6, Zenon
  <2>2. i \in B(j) /\ i \notin B(i) BY <1>4, <1>6, Zenon
  <2>3. IsFiniteSet(B(j)) BY <1>5, Zenon
  <2>4. Cardinality(B(j)) = Cardinality(B(i)) => B(j) = B(i) BY <2>1, <2>3, FS_Subset, Zenon
  <2> QED BY <2>2, <2>4, Zenon
<1>7. \A i \in S : Rank(c, S, i) = Cardinality(B(i)) BY Zenon DEF Rank
<1> HIDE DEF B
<1>8. \A i \in S : Rank(c, S, i) \in 0..(Cardinality(S) - 1) BY <1>b, <1>5, <1>7
<1>9. \A i, j \in S : i # j => Rank(c, S, i) # Rank(c, S, j) BY <1>3, <1>6, <1>7, Zenon
<1> QED BY <1>8, <1>9, Zenon

\* The first k of a set are at most k.
LEMMA FirstBounded ==
    ASSUME NEW c, NEW S, Ranked(c, S), NEW k \in Nat
    PROVE  First(c, S, k) \subseteq S /\ IsFiniteSet(First(c, S, k)) /\ Cardinality(First(c, S, k)) <= k
<1> DEFINE F == First(c, S, k)
           T == 0..(k - 1)
           f == [i \in F |-> Rank(c, S, i)]
<1>1. F \subseteq S /\ \A i \in F : Rank(c, S, i) < k BY Zenon DEF First, Rank
<1>a. Cardinality(S) \in Nat BY FS_CardinalityType, Zenon DEF Ranked
<1>2. \A i \in F : Rank(c, S, i) \in Nat BY <1>1, <1>a, RanksDiffer
<1>3. f \in [F -> T] BY <1>1, <1>2
<1>4. \A i, j \in F : f[i] = f[j] => i = j BY <1>1, RanksDiffer, Zenon
<1>5. f \in Injection(F, T) BY <1>3, <1>4, Zenon DEF Injection, IsInjective
<1>6. IsFiniteSet(T) /\ Cardinality(T) = k
  <2>1. IsFiniteSet(T) /\ Cardinality(T) = IF 0 > k - 1 THEN 0 ELSE (k - 1) - 0 + 1
    BY FS_Interval
  <2> QED BY <2>1
<1>7. IsFiniteSet(F) /\ Cardinality(F) <= Cardinality(T) BY <1>5, <1>6, FS_Injection
<1> QED BY <1>1, <1>6, <1>7, Zenon

\* If there is a candidate there is a first one.
LEMMA FirstExists ==
    ASSUME NEW c, NEW S, Ranked(c, S), S # {}, NEW k \in Nat \ {0}
    PROVE  First(c, S, k) # {}
<1> DEFINE n == Cardinality(S)
           T == 0..(n - 1)
           f == [i \in S |-> Rank(c, S, i)]
<1>1. n \in Nat /\ n # 0
  <2>1. IsFiniteSet(S) BY Zenon DEF Ranked
  <2>2. n \in Nat /\ (n = 0 <=> S = {}) BY <2>1, FS_CardinalityType, FS_EmptySet, Zenon
  <2> QED BY <2>2, Zenon
<1>2. f \in [S -> T] BY RanksDiffer, Zenon
<1>3. \A i, j \in S : f[i] = f[j] => i = j BY RanksDiffer, Zenon
<1>4. f \in Injection(S, T) BY <1>2, <1>3, Zenon DEF Injection, IsInjective
<1>5. IsFiniteSet(T) /\ Cardinality(T) = n
  <2>1. IsFiniteSet(T) /\ Cardinality(T) = IF 0 > n - 1 THEN 0 ELSE (n - 1) - 0 + 1
    <3>1. 0 \in Int /\ n - 1 \in Int BY <1>1
    <3> HIDE DEF n
    <3> QED BY ONLY <3>1, FS_Interval, Zenon
  <2> QED BY <1>1, <2>1
<1>6. f \in Surjection(S, T) BY <1>4, <1>5, FS_Injection, Zenon
<1>7. 0 \in T BY <1>1
<1>8. PICK i \in S : f[i] = 0 BY <1>6, <1>7, Zenon DEF Surjection
<1>9. Rank(c, S, i) < k BY <1>8
<1> QED BY <1>9, Zenon DEF First, Rank

-----------------------------------------------------------------------------
(* The list of candidates. *)

\* What update() asks: candidates it may ask, no more than may be in flight, and at least
\* one if nothing is in flight and there is one.
LEMMA ToAskBounded ==
    ASSUME NEW c, NEW fl, IsFiniteSet(fl), DOMAIN c \subseteq Ids,
           \A i \in DOMAIN c : c[i] \in Candidate,
           Cardinality(fl) <= MAX_CONCURRENT_TASK_REQUESTS
    PROVE  /\ ToAsk(c, fl) \subseteq Eligible(c)
           /\ IsFiniteSet(fl \cup ToAsk(c, fl))
           /\ Cardinality(fl \cup ToAsk(c, fl)) <= MAX_CONCURRENT_TASK_REQUESTS
           /\ fl = {} /\ Eligible(c) # {} => ToAsk(c, fl) # {}
<1> DEFINE m == MAX_CONCURRENT_TASK_REQUESTS
           E == Eligible(c)
           k == m - Cardinality(fl)
           A == ToAsk(c, fl)
<1>1. m \in Nat \ {0} /\ Cardinality(fl) \in Nat BY FS_CardinalityType, LookupAssumption, Zenon
<1>2. Ranked(c, E)
  <2>1. E \subseteq Ids /\ \A i \in E : c[i].pinged \in Nat BY DEF Eligible, Candidate
  <2>2. IsFiniteSet(E) BY <2>1, FS_Subset, LookupAssumption, Zenon
  <2> QED BY <2>1, <2>2, Zenon DEF Ranked
<1>3. CASE Cardinality(fl) < m
  <2>1. A = First(c, E, k) /\ k \in Nat \ {0} BY <1>1, <1>3 DEF ToAsk
  <2>2. A \subseteq E /\ IsFiniteSet(A) /\ Cardinality(A) <= k BY <1>2, <2>1, FirstBounded, Zenon
  <2>3. Cardinality(A) \in Nat BY <2>2, FS_CardinalityType, Zenon
  <2>4. /\ IsFiniteSet(fl \cup A)
        /\ Cardinality(fl \cup A) = Cardinality(fl) + Cardinality(A) - Cardinality(fl \cap A)
    BY <2>2, FS_Union, Zenon
  <2>5. Cardinality(fl \cap A) \in Nat
    <3>1. IsFiniteSet(fl \cap A) BY FS_Subset, Zenon
    <3> QED BY <3>1, FS_CardinalityType, Zenon
  <2>6. E # {} => A # {} BY <1>2, <2>1, FirstExists, Zenon
  <2>7. Cardinality(fl \cup A) <= m BY <1>1, <2>2, <2>3, <2>4, <2>5
  <2> QED BY <2>2, <2>4, <2>6, <2>7, Zenon
<1>4. CASE ~ Cardinality(fl) < m
  <2>1. A = {} BY <1>4, Zenon DEF ToAsk
  <2>2. fl # {} BY <1>1, <1>4, FS_EmptySet
  <2>3. fl \cup A = fl BY <2>1, Zenon
  <2> QED BY <2>1, <2>2, <2>3, Zenon
<1> QED BY <1>3, <1>4, Zenon

\* Task::serializedUpdate keeps a good list good, asks nobody who has answered or was
\* asked three times, and leaves the task running only with a call in flight, unless
\* somebody misled it.
LEMMA UpdateKeeps ==
    ASSUME NEW c, NEW fl, NEW cl, NEW n, NEW ids, NEW ans,
           GoodList(c, fl, ans, asked), Remembered(c, ids, ans, asked),
           Cardinality(fl) <= MAX_CONCURRENT_TASK_REQUESTS,
           serializedUpdate(c, fl, cl, n)
    PROVE  /\ GoodList(candidates', inFlight', ans, asked')
           /\ Remembered(candidates', ids, ans, asked')
           /\ Cardinality(inFlight') <= MAX_CONCURRENT_TASK_REQUESTS
           /\ state' \in {"RUNNING", "FINISHED"}
           /\ state' = "RUNNING" =>
                 inFlight' # {} \/ (kind = "value" /\ ans \cap Impostors # {})
           /\ \A i \in Ids : asked'[i] # asked[i] => asked[i] < 3 /\ i \notin ans
<1> DEFINE go == IF Done(c, fl, cl, n) THEN {} ELSE ToAsk(c, fl)
           new(i) == IF i \in go THEN [pinged |-> c[i].pinged + 1, sent |-> TRUE] ELSE c[i]
           c2 == [i \in DOMAIN c |-> new(i)]
<1>1. /\ candidates' = c2 /\ inFlight' = fl \cup go
      /\ asked' = [i \in Ids |-> asked[i] + (IF i \in go THEN 1 ELSE 0)]
      /\ state' = IF Done(c2, fl \cup go, cl, n) THEN "FINISHED" ELSE "RUNNING"
  BY Zenon DEF serializedUpdate
<1>2. /\ DOMAIN c \subseteq ids /\ ids \subseteq Ids /\ asked \in [Ids -> 0..3] /\ ans \subseteq ids
      /\ \A i \in Ids \ ids : asked[i] = 0
  BY Zenon DEF Remembered
<1>3. /\ \A i \in DOMAIN c : c[i] \in Candidate /\ asked[i] = c[i].pinged
      /\ \A i \in DOMAIN c : c[i].sent \/ (c[i].pinged < 3 /\ i \notin ans)
      /\ \A i \in DOMAIN c : c[i].sent => i \in fl \/ (kind = "value" /\ i \in ans \cap Impostors)
      /\ \A i \in fl : i \in DOMAIN c /\ c[i].sent /\ i \notin ans
  BY Zenon DEF GoodList
<1>4. IsFiniteSet(fl)
  <2>1. fl \subseteq Ids BY <1>2, <1>3, Zenon
  <2> QED BY <2>1, FS_Subset, LookupAssumption, Zenon
<1>5. /\ go \subseteq Eligible(c)
      /\ Cardinality(fl \cup go) <= MAX_CONCURRENT_TASK_REQUESTS
      /\ fl = {} /\ Eligible(c) # {} /\ ~ Done(c, fl, cl, n) => go # {}
  <2>1. /\ ToAsk(c, fl) \subseteq Eligible(c)
        /\ Cardinality(fl \cup ToAsk(c, fl)) <= MAX_CONCURRENT_TASK_REQUESTS
        /\ fl = {} /\ Eligible(c) # {} => ToAsk(c, fl) # {}
    BY <1>2, <1>3, <1>4, ToAskBounded, Zenon
  <2>2. Cardinality(fl \cup {}) <= MAX_CONCURRENT_TASK_REQUESTS
    <3>1. fl \cup {} = fl BY Zenon
    <3> QED BY <3>1, Zenon
  <2> QED BY <2>1, <2>2, Zenon
<1>6. \A i \in go : i \in DOMAIN c /\ ~ c[i].sent /\ c[i].pinged < 3 /\ i \notin ans
                    /\ i \in Ids /\ asked[i] = c[i].pinged /\ c[i].pinged \in 0..3
  BY <1>2, <1>3, <1>5, Zenon DEF Eligible, Candidate
<1> HIDE DEF go
<1>7. \A i \in DOMAIN c : c2[i] = new(i) BY Zenon
<1>8. \A i \in go : c2[i] \in Candidate /\ c2[i].sent /\ c2[i].pinged = asked'[i]
  BY <1>1, <1>2, <1>6 DEF Candidate
<1>9. \A i \in DOMAIN c \ go : c2[i] = c[i] /\ asked'[i] = asked[i]
  BY <1>1, <1>2
<1>10. DOMAIN c2 = DOMAIN c BY Zenon
<1> HIDE DEF c2
<1>11. GoodList(c2, fl \cup go, ans, asked')
  <2>1. ASSUME NEW i \in DOMAIN c2
        PROVE  /\ c2[i] \in Candidate /\ asked'[i] = c2[i].pinged
               /\ c2[i].sent \/ (c2[i].pinged < 3 /\ i \notin ans)
               /\ c2[i].sent => i \in fl \cup go \/ (kind = "value" /\ i \in ans \cap Impostors)
    <3>1. CASE i \in go BY <1>8, <3>1, Zenon
    <3>2. CASE i \notin go BY <1>3, <1>9, <1>10, <3>2, Zenon
    <3> QED BY <3>1, <3>2, Zenon
  <2>2. ASSUME NEW i \in fl \cup go PROVE i \in DOMAIN c2 /\ c2[i].sent /\ i \notin ans
    <3>1. CASE i \in go BY <1>6, <1>8, <1>10, <3>1, Zenon
    <3>2. CASE i \notin go BY <1>3, <1>9, <1>10, <2>2, <3>2, Zenon
    <3> QED BY <3>1, <3>2, Zenon
  <2> QED BY <2>1, <2>2, Zenon DEF GoodList
<1>12. asked' \in [Ids -> 0..3]
  <2>1. ASSUME NEW i \in Ids PROVE asked[i] + (IF i \in go THEN 1 ELSE 0) \in 0..3
    BY <1>2, <1>6, <2>1
  <2> QED BY <1>1, <2>1, Zenon
<1>13. Remembered(c2, ids, ans, asked')
  <2>1. \A i \in Ids \ ids : asked'[i] = 0 BY <1>1, <1>2, <1>6
  <2> QED BY <1>2, <1>10, <1>12, <2>1, Zenon DEF Remembered
<1>14. ASSUME state' = "RUNNING", fl \cup go = {}
       PROVE  kind = "value" /\ ans \cap Impostors # {}
  <2>1. ~ Done(c2, {}, cl, n) BY <1>1, <1>14, Zenon
  <2>2. ~ Done(c, {}, cl, n) BY <1>10, <2>1, Zenon DEF Done
  <2>3. fl = {} /\ go = {} BY <1>14, Zenon
  <2>4. Eligible(c) = {} BY <1>5, <2>2, <2>3, Zenon
  <2>5. DOMAIN c # {} BY <2>2, Zenon DEF Done
  <2>6. PICK i \in DOMAIN c : TRUE BY <2>5, Zenon
  <2>7. c[i].sent BY <1>3, <2>4, Zenon DEF Eligible, Candidate
  <2> QED BY <1>3, <2>3, <2>7, Zenon
<1>15. \A i \in Ids : asked'[i] # asked[i] => asked[i] < 3 /\ i \notin ans
  BY <1>1, <1>2, <1>6
<1> QED BY <1>1, <1>5, <1>11, <1>13, <1>14, <1>15, Zenon

\* ClosestCandidates::truncate throws out none that waits for its answer.
LEMMA TrimKeeps ==
    ASSUME NEW c, NEW fl, NEW ans, NEW ask, GoodList(c, fl, ans, ask)
    PROVE  GoodList(Trim(c), fl, ans, ask) /\ DOMAIN Trim(c) \subseteq DOMAIN c
<1> DEFINE waiting == {i \in DOMAIN c : ~ c[i].sent}
           keep == (DOMAIN c \ waiting) \cup First(c, waiting, CANDIDATES)
           t == [i \in keep |-> c[i]]
<1>1. CASE Trim(c) = c BY <1>1, Zenon
<1>2. CASE Trim(c) = t
  <2>1. keep \subseteq DOMAIN c BY Zenon DEF First
  <2>2. DOMAIN t = keep /\ \A i \in keep : t[i] = c[i] BY Zenon
  <2>3. \A i \in DOMAIN c : c[i].sent => i \in keep BY Zenon
  <2> HIDE DEF keep, t
  <2>4. GoodList(t, fl, ans, ask) BY <2>1, <2>2, <2>3, Zenon DEF GoodList
  <2> QED BY <1>2, <2>1, <2>2, <2>4, Zenon
<1>3. Trim(c) = c \/ Trim(c) = t BY Zenon DEF Trim
<1> QED BY <1>1, <1>2, <1>3, Zenon

\* LookupTask::addCandidates adds only nodes that were never candidates before.
LEMMA AddKeeps ==
    ASSUME NEW c, NEW fl, NEW cl, NEW S \in SUBSET Ids, NEW ans,
           GoodList(c, fl, ans, asked), Remembered(c, dedupIds, ans, asked),
           NEW a \in addCandidates(c, cl, S)
    PROVE  GoodList(a.list, fl, ans, asked) /\ Remembered(a.list, a.ids, ans, asked)
<1>1. PICK T \in Kept(S \ cl) :
         a = [list |-> IF S \subseteq cl THEN c ELSE Trim(Merge(c, T)),
              ids |-> dedupIds \cup (S \ cl),
              addrs |-> dedupAddrs \cup {AddrOf[i] : i \in T}]
  BY Zenon DEF addCandidates
<1>2. T \subseteq S \ cl /\ T \cap dedupIds = {} BY Zenon DEF Kept, Fresh
<1>3. /\ a.list = IF S \subseteq cl THEN c ELSE Trim(Merge(c, T))
      /\ a.ids = dedupIds \cup (S \ cl)
  BY <1>1, Zenon
<1>4. /\ DOMAIN c \subseteq dedupIds /\ dedupIds \subseteq Ids /\ ans \subseteq dedupIds
      /\ asked \in [Ids -> 0..3] /\ \A i \in Ids \ dedupIds : asked[i] = 0
  BY Zenon DEF Remembered
<1> DEFINE m == Merge(c, T)
<1>5. /\ DOMAIN m = DOMAIN c \cup T
      /\ \A i \in DOMAIN c : m[i] = c[i]
      /\ \A i \in T : m[i] = [pinged |-> 0, sent |-> FALSE]
  BY <1>2, <1>4, Zenon DEF Merge
<1> HIDE DEF m
<1>6. \A i \in T : asked[i] = 0 /\ i \notin ans BY <1>2, <1>4, Zenon
<1>7. GoodList(m, fl, ans, asked)
  <2>1. ASSUME NEW i \in DOMAIN m
        PROVE  /\ m[i] \in Candidate /\ asked[i] = m[i].pinged
               /\ m[i].sent \/ (m[i].pinged < 3 /\ i \notin ans)
               /\ m[i].sent => i \in fl \/ (kind = "value" /\ i \in ans \cap Impostors)
    <3>1. CASE i \in DOMAIN c BY <1>5, <3>1, Zenon DEF GoodList
    <3>2. CASE i \in T
      <4>1. m[i] = [pinged |-> 0, sent |-> FALSE] BY <1>5, <3>2, Zenon
      <4>2. m[i] \in Candidate BY <4>1 DEF Candidate
      <4>3. m[i].pinged = 0 /\ ~ m[i].sent BY <4>1
      <4> QED BY <1>6, <3>2, <4>2, <4>3
    <3> QED BY <1>5, <3>1, <3>2, Zenon
  <2>2. \A i \in fl : i \in DOMAIN m /\ m[i].sent /\ i \notin ans BY <1>5, Zenon DEF GoodList
  <2> QED BY <2>1, <2>2, Zenon DEF GoodList
<1>8. GoodList(Trim(m), fl, ans, asked) /\ DOMAIN Trim(m) \subseteq DOMAIN m
  BY <1>7, TrimKeeps, Zenon
<1>9. GoodList(a.list, fl, ans, asked) BY <1>3, <1>8, Zenon DEF m
<1>10. DOMAIN a.list \subseteq DOMAIN c \cup T BY <1>3, <1>5, <1>8, Zenon DEF m
<1>11. Remembered(a.list, a.ids, ans, asked)
  BY <1>2, <1>3, <1>4, <1>10, Zenon DEF Remembered
<1> QED BY <1>9, <1>11, Zenon

\* A call that ends leaves room for another.
LEMMA CallsLeave ==
    ASSUME NEW fl, NEW i, fl \subseteq Ids, Cardinality(fl) <= MAX_CONCURRENT_TASK_REQUESTS
    PROVE  Cardinality(fl \ {i}) <= MAX_CONCURRENT_TASK_REQUESTS
<1>1. IsFiniteSet(fl) BY FS_Subset, LookupAssumption, Zenon
<1>2. IsFiniteSet(fl \ {i}) /\ Cardinality(fl \ {i}) <= Cardinality(fl)
  BY <1>1, FS_Subset, Zenon
<1>3. Cardinality(fl) \in Nat /\ Cardinality(fl \ {i}) \in Nat BY <1>1, <1>2, FS_CardinalityType, Zenon
<1> QED BY <1>2, <1>3, LookupAssumption

\* ClosestCandidates::remove of a candidate whose call has ended, answered or not.
LEMMA RemoveKeeps ==
    ASSUME NEW c, NEW fl, NEW ids, NEW ans, NEW ans2, NEW ask, NEW i \in fl,
           GoodList(c, fl, ans, ask), Remembered(c, ids, ans, ask),
           ans \subseteq ans2, ans2 \subseteq ans \cup {i}
    PROVE  /\ GoodList(Remove(c, i), fl \ {i}, ans2, ask)
           /\ Remembered(Remove(c, i), ids, ans2, ask)
<1> DEFINE r == Remove(c, i)
<1>1. DOMAIN r = DOMAIN c \ {i} /\ \A j \in DOMAIN r : r[j] = c[j] BY Zenon DEF Remove
<1> HIDE DEF r
<1>2. GoodList(r, fl \ {i}, ans2, ask) BY <1>1, Zenon DEF GoodList
<1>3. i \in DOMAIN c BY Zenon DEF GoodList
<1>4. Remembered(r, ids, ans2, ask) BY <1>1, <1>3, Zenon DEF Remembered
<1> QED BY <1>2, <1>4, Zenon DEF r

-----------------------------------------------------------------------------
(* The steps. *)

\* What a step of AskedSparingly says.
Sparing == \A i \in Ids : asked'[i] # asked[i] => asked[i] < 3 /\ i \notin answered

\* An operation that ends in serializedUpdate, for the list that it leaves.
LEMMA UpdateStep ==
    ASSUME IInv, NEW c, NEW fl, NEW cl, NEW n,
           GoodList(c, fl, answered', asked), Remembered(c, dedupIds', answered', asked),
           Cardinality(fl) <= MAX_CONCURRENT_TASK_REQUESTS,
           serializedUpdate(c, fl, cl, n), kind' = kind, answered \subseteq answered'
    PROVE  IInv' /\ Sparing
<1>1. /\ GoodList(candidates', inFlight', answered', asked')
      /\ Remembered(candidates', dedupIds', answered', asked')
      /\ Cardinality(inFlight') <= MAX_CONCURRENT_TASK_REQUESTS
      /\ state' \in {"RUNNING", "FINISHED"}
      /\ state' = "RUNNING" =>
            inFlight' # {} \/ (kind = "value" /\ answered' \cap Impostors # {})
      /\ \A i \in Ids : asked'[i] # asked[i] => asked[i] < 3 /\ i \notin answered'
  BY UpdateKeeps, Zenon
<1>2. GoodList(candidates, inFlight, answered, asked)' BY <1>1, Zenon DEF GoodList
<1>3. Remembered(candidates, dedupIds, answered, asked)' BY <1>1, Zenon DEF Remembered
<1>4. inFlight' \subseteq DOMAIN candidates' BY <1>1, Zenon DEF GoodList
<1>5. WaitsForAnswer' BY <1>1, <1>4, Zenon DEF WaitsForAnswer, Misled
<1>6. kind' \in {"node", "value"} BY Zenon DEF IInv
<1>7. IInv' BY <1>1, <1>2, <1>3, <1>5, <1>6, Zenon DEF IInv
<1> QED BY <1>1, <1>7, Zenon DEF Sparing

\* The call of a running task that ends belongs to a good candidate.
LEMMA EndsGood ==
    ASSUME IInv, NEW i, Ends(i)
    PROVE  /\ GoodList(candidates, inFlight, answered, asked)
           /\ Remembered(candidates, dedupIds, answered, asked)
           /\ Cardinality(inFlight) <= MAX_CONCURRENT_TASK_REQUESTS
           /\ Cardinality(inFlight \ {i}) <= MAX_CONCURRENT_TASK_REQUESTS
           /\ i \in inFlight /\ i \in DOMAIN candidates /\ i \in dedupIds /\ i \notin answered
<1>1. /\ GoodList(candidates, inFlight, answered, asked)
      /\ Remembered(candidates, dedupIds, answered, asked)
      /\ Cardinality(inFlight) <= MAX_CONCURRENT_TASK_REQUESTS /\ i \in inFlight
  BY Zenon DEF IInv, Ends
<1>2. inFlight \subseteq DOMAIN candidates /\ i \notin answered BY <1>1, Zenon DEF GoodList
<1>3. DOMAIN candidates \subseteq dedupIds /\ dedupIds \subseteq Ids BY <1>1, Zenon DEF Remembered
<1>4. Cardinality(inFlight \ {i}) <= MAX_CONCURRENT_TASK_REQUESTS
  BY <1>1, <1>2, <1>3, CallsLeave, Zenon
<1> QED BY <1>1, <1>2, <1>3, <1>4, Zenon

\* prepare() fills the empty list of a queued task.
LEMMA startStep == ASSUME IInv, start, kind' = kind PROVE IInv' /\ Sparing
<1>1. PICK a \in addCandidates(candidates, closest, Start) :
         /\ dedupIds' = a.ids
         /\ serializedUpdate(a.list, inFlight, closest, attempts)
  BY Zenon DEF start
<1>2. /\ GoodList(candidates, inFlight, answered, asked)
      /\ Remembered(candidates, dedupIds, answered, asked)
      /\ Cardinality(inFlight) <= MAX_CONCURRENT_TASK_REQUESTS
  BY Zenon DEF IInv, start
<1>3. Start \in SUBSET Ids BY LookupAssumption, Zenon
<1>4. GoodList(a.list, inFlight, answered, asked) /\ Remembered(a.list, a.ids, answered, asked)
  BY <1>2, <1>3, AddKeeps, Zenon
<1>5. answered' = answered BY Zenon DEF start
<1> QED BY <1>1, <1>2, <1>4, <1>5, UpdateStep, Zenon

\* The candidate leaves the list, the nodes of its answer may enter it.
LEMMA callResponsedStep ==
    ASSUME IInv, NEW i \in Ids, NEW S \in Suggestions, callResponsed(i, S), kind' = kind
    PROVE  IInv' /\ Sparing
<1> DEFINE r == Remove(candidates, i)
           rest == inFlight \ {i}
<1>1. Ends(i) /\ answered' = answered \cup {i} BY Zenon DEF callResponsed
<1>2. PICK n \in ClosestAdd(i) : \E a \in addCandidates(r, n.closest, S) :
         dedupIds' = a.ids /\ serializedUpdate(a.list, rest, n.closest, n.attempts)
  BY Zenon DEF callResponsed
<1>3. PICK a \in addCandidates(r, n.closest, S) :
         dedupIds' = a.ids /\ serializedUpdate(a.list, rest, n.closest, n.attempts)
  BY <1>2, Zenon
<1>4. GoodList(r, rest, answered', asked) /\ Remembered(r, dedupIds, answered', asked)
  BY <1>1, EndsGood, RemoveKeeps, Zenon
<1>5. Cardinality(rest) <= MAX_CONCURRENT_TASK_REQUESTS BY <1>1, EndsGood, Zenon
<1>6. S \in SUBSET Ids BY LookupAssumption, Zenon
<1> HIDE DEF r, rest
<1>7. GoodList(a.list, rest, answered', asked) /\ Remembered(a.list, a.ids, answered', asked)
  BY <1>3, <1>4, <1>6, AddKeeps, Zenon
<1>8. answered \subseteq answered' BY <1>1, Zenon
<1> QED BY <1>3, <1>5, <1>7, <1>8, UpdateStep, Zenon

\* A node lookup drops the candidate, a value lookup keeps it for ever.
LEMMA callMismatchedStep ==
    ASSUME IInv, NEW i \in Ids, callMismatched(i), kind' = kind
    PROVE  IInv' /\ Sparing
<1> DEFINE r == Remove(candidates, i)
           rest == inFlight \ {i}
<1>1. /\ Ends(i) /\ i \in Impostors /\ answered' = answered \cup {i} /\ dedupIds' = dedupIds
      /\ answered \subseteq answered'
  BY Zenon DEF callMismatched
<1>2. Cardinality(rest) <= MAX_CONCURRENT_TASK_REQUESTS BY <1>1, EndsGood, Zenon
<1>3. CASE kind = "node"
  <2>1. PICK n \in ClosestAdd(i) : serializedUpdate(r, rest, n.closest, n.attempts)
    BY <1>3, Zenon DEF callMismatched
  <2>2. GoodList(r, rest, answered', asked) /\ Remembered(r, dedupIds', answered', asked)
    BY <1>1, EndsGood, RemoveKeeps, Zenon
  <2> HIDE DEF r, rest
  <2> QED BY <1>1, <1>2, <2>1, <2>2, UpdateStep, Zenon
<1>4. CASE kind # "node"
  <2>1. serializedUpdate(candidates, rest, closest, attempts) BY <1>4, Zenon DEF callMismatched
  <2>2. GoodList(candidates, rest, answered', asked)
    <3>1. kind = "value" BY <1>4, Zenon DEF IInv
    <3> QED BY <1>1, <3>1, EndsGood, Zenon DEF GoodList
  <2>3. Remembered(candidates, dedupIds', answered', asked)
    BY <1>1, EndsGood, Zenon DEF Remembered
  <2> HIDE DEF rest
  <2> QED BY <1>1, <1>2, <2>1, <2>2, <2>3, UpdateStep, Zenon
<1> QED BY <1>3, <1>4, Zenon

\* An error drops the candidate.
LEMMA callErrorStep ==
    ASSUME IInv, NEW i \in Ids, callError(i), kind' = kind
    PROVE  IInv' /\ Sparing
<1> DEFINE r == Remove(candidates, i)
           rest == inFlight \ {i}
<1>1. /\ Ends(i) /\ answered' = answered /\ dedupIds' = dedupIds
      /\ serializedUpdate(r, rest, closest, attempts)
  BY Zenon DEF callError
<1>2. Cardinality(rest) <= MAX_CONCURRENT_TASK_REQUESTS BY <1>1, EndsGood, Zenon
<1>3. GoodList(r, rest, answered', asked) /\ Remembered(r, dedupIds', answered', asked)
  BY <1>1, EndsGood, RemoveKeeps, Zenon
<1> HIDE DEF r, rest
<1> QED BY <1>1, <1>2, <1>3, UpdateStep, Zenon

\* A candidate that timed out may be asked again unless it was asked three times.
LEMMA callTimeoutStep ==
    ASSUME IInv, NEW i \in Ids, callTimeout(i), kind' = kind
    PROVE  IInv' /\ Sparing
<1> DEFINE rest == inFlight \ {i}
<1>1. Ends(i) /\ answered' = answered /\ dedupIds' = dedupIds BY Zenon DEF callTimeout
<1>2. Cardinality(rest) <= MAX_CONCURRENT_TASK_REQUESTS BY <1>1, EndsGood, Zenon
<1>3. CASE candidates[i].pinged >= 3
  <2> DEFINE r == Remove(candidates, i)
  <2>1. serializedUpdate(r, rest, closest, attempts) BY <1>3, Zenon DEF callTimeout
  <2>2. GoodList(r, rest, answered', asked) /\ Remembered(r, dedupIds', answered', asked)
    BY <1>1, EndsGood, RemoveKeeps, Zenon
  <2> HIDE DEF r, rest
  <2> QED BY <1>1, <1>2, <2>1, <2>2, UpdateStep, Zenon
<1>4. CASE ~ candidates[i].pinged >= 3
  <2> DEFINE r == [candidates EXCEPT ![i].sent = FALSE]
  <2>1. serializedUpdate(r, rest, closest, attempts) BY <1>4, Zenon DEF callTimeout
  <2>2. i \in DOMAIN candidates /\ candidates[i] \in Candidate BY <1>1, EndsGood, Zenon DEF GoodList
  <2>3. /\ DOMAIN r = DOMAIN candidates
        /\ r[i] = [candidates[i] EXCEPT !.sent = FALSE]
        /\ \A j \in DOMAIN candidates \ {i} : r[j] = candidates[j]
    BY <2>2, Zenon
  <2>4. r[i] \in Candidate /\ ~ r[i].sent /\ r[i].pinged = candidates[i].pinged /\ r[i].pinged < 3
    <3>1. candidates[i].pinged \in 0..3 /\ r[i] \in Candidate BY <2>2, <2>3, Zenon DEF Candidate
    <3>2. ~ r[i].sent /\ r[i].pinged = candidates[i].pinged BY <2>2, <2>3, Zenon DEF Candidate
    <3> QED BY <1>4, <3>1, <3>2
  <2> HIDE DEF r
  <2>5. GoodList(r, rest, answered', asked)
    <3>1. ASSUME NEW j \in DOMAIN r
          PROVE  /\ r[j] \in Candidate /\ asked[j] = r[j].pinged
                 /\ r[j].sent \/ (r[j].pinged < 3 /\ j \notin answered')
                 /\ r[j].sent => j \in rest \/ (kind = "value" /\ j \in answered' \cap Impostors)
      <4>1. CASE j = i BY <1>1, <2>2, <2>4, <4>1, EndsGood, Zenon DEF GoodList
      <4>2. CASE j # i BY <1>1, <2>3, <4>2, EndsGood, Zenon DEF GoodList
      <4> QED BY <4>1, <4>2, Zenon
    <3>2. \A j \in rest : j \in DOMAIN r /\ r[j].sent /\ j \notin answered'
      BY <1>1, <2>3, EndsGood, Zenon DEF GoodList
    <3> QED BY <3>1, <3>2, Zenon DEF GoodList
  <2>6. Remembered(r, dedupIds', answered', asked) BY <1>1, <2>3, EndsGood, Zenon DEF Remembered
  <2> HIDE DEF rest
  <2> QED BY <1>1, <1>2, <2>1, <2>5, <2>6, UpdateStep, Zenon
<1> QED BY <1>3, <1>4, Zenon

\* A stalled call stays in flight.
LEMMA callStalledStep ==
    ASSUME IInv, NEW i \in Ids, callStalled(i), kind' = kind
    PROVE  IInv' /\ Sparing
<1>1. /\ Ends(i) /\ answered' = answered /\ dedupIds' = dedupIds
      /\ serializedUpdate(candidates, inFlight, closest, attempts)
  BY Zenon DEF callStalled
<1> QED BY <1>1, EndsGood, UpdateStep, Zenon

-----------------------------------------------------------------------------
\* A queued task has asked nobody.
LEMMA InitIInv == Init => IInv
<1> SUFFICES ASSUME Init PROVE IInv BY Zenon
<1>1. GoodList(candidates, inFlight, answered, asked) BY Zenon DEF Init, GoodList
<1>2. Remembered(candidates, dedupIds, answered, asked) BY DEF Init, Remembered
<1>3. Cardinality(inFlight) <= MAX_CONCURRENT_TASK_REQUESTS
  BY FS_EmptySet, LookupAssumption DEF Init
<1> QED BY <1>1, <1>2, <1>3, Zenon DEF Init, IInv, WaitsForAnswer

\* Every step keeps the invariant and asks sparingly.
LEMMA NextIInv == IInv /\ [Next]_vars => IInv' /\ (Sparing \/ UNCHANGED vars)
<1> SUFFICES ASSUME IInv, [Next]_vars PROVE IInv' /\ (Sparing \/ UNCHANGED vars) BY Zenon
<1>1. ASSUME start, kind' = kind PROVE IInv' /\ Sparing BY <1>1, startStep, Zenon
<1>2. ASSUME cancel, kind' = kind PROVE IInv' /\ Sparing
  BY <1>2, Zenon DEF cancel, IInv, WaitsForAnswer, Sparing
<1>3. ASSUME NEW i \in Ids, CallEnds(i), kind' = kind PROVE IInv' /\ Sparing
  <2>1. ASSUME NEW S \in Suggestions, callResponsed(i, S) PROVE IInv' /\ Sparing
    BY <1>3, <2>1, callResponsedStep, Zenon
  <2>2. CASE callMismatched(i) BY <1>3, <2>2, callMismatchedStep, Zenon
  <2>3. CASE callFound(i) BY <1>3, <2>3, Zenon DEF callFound, IInv, WaitsForAnswer, Sparing
  <2>4. CASE callError(i) BY <1>3, <2>4, callErrorStep, Zenon
  <2>5. CASE callTimeout(i) BY <1>3, <2>5, callTimeoutStep, Zenon
  <2>6. CASE lateEnd(i) BY <1>3, <2>6, Zenon DEF lateEnd, IInv, WaitsForAnswer, Sparing
  <2> QED BY <1>3, <2>1, <2>2, <2>3, <2>4, <2>5, <2>6, Zenon DEF CallEnds
<1>4. ASSUME NEW i \in Ids, callStalled(i), kind' = kind PROVE IInv' /\ Sparing
  BY <1>4, callStalledStep, Zenon
<1>5. CASE UNCHANGED vars
  BY <1>5, Zenon DEF vars, IInv, GoodList, Remembered, WaitsForAnswer, Misled
<1> QED BY <1>1, <1>2, <1>3, <1>4, <1>5, Zenon DEF Next

\* The inductive invariant holds throughout a lookup.
LEMMA AlwaysIInv == Spec => []IInv
BY InitIInv, NextIInv, PTL DEF Spec

\* A running lookup never stands still: it waits for the answer of a candidate, and for
\* no more than are allowed, unless a value lookup was answered under another id
\* (task.cc:120-147, lookup_task.cc:57-87, closest_candidates.cc:124).
THEOREM AlwaysWaits == Spec => []WaitsForAnswer
<1>1. IInv => WaitsForAnswer BY Zenon DEF IInv
<1> QED BY <1>1, AlwaysIInv, PTL

\* No node is asked a fourth time, or again once it has answered, whatever other nodes
\* suggest (closest_candidates.cc:99-139, candidate_node.h:69-80).
THEOREM AlwaysSparing == Spec => AskedSparingly
<1>1. IInv /\ [Next]_vars =>
        [\A i \in Ids : asked'[i] # asked[i] => asked[i] < 3 /\ i \notin answered]_vars
  BY NextIInv, Zenon DEF Sparing
<1> QED BY <1>1, AlwaysIInv, PTL DEF Spec, AskedSparingly
=============================================================================
