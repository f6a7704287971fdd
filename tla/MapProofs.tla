----------------------------- MODULE MapProofs -----------------------------
(***************************************************************************)
(* Proofs about the two maps of libdata_structure.                         *)
(*                                                                         *)
(* HashMap: it implements a map of its nodes, for any nodes, keys, hash    *)
(* function and number of buckets.                                         *)
(* RbTree: it is a balanced search tree, for any number of keys.           *)
(***************************************************************************)
EXTENDS HashMap, RbTree, SequenceFacts, FiniteSetTheorems, TLAPS

(* What the proofs use of the assumptions on the constants of the hash map.    *)
LEMMA MapBounds ==
    /\ IsFiniteSet(MapNode)
    /\ BucketSize \in Nat \ {0} /\ Bucket \subseteq Nat
    /\ \A k \in MapKey : /\ BucketOf[k] \in Bucket /\ k # Null
                         /\ k \in BeginsWith[k] /\ BeginsWith[k] \subseteq MapKey
    /\ \A n \in MapNode : n # Null
  BY MapAssumption DEF MapAssumption, Bucket

(* An order of the entries, with the bucket of each: the buckets ascend, first *)
(* has the first entry of each bucket, and an entry is linked to the next one  *)
(* if they are in the same bucket.                                           *)
LeadsBucket(E, c, fi, b) ==
    \/ fi[b] = Null /\ \A i \in 1..Len(E) : c[i] # b
    \/ \E i \in 1..Len(E) : fi[b] = E[i] /\ c[i] = b /\ \A j \in 1..(i - 1) : c[j] # b

IsChained(E, c, fi, nx) ==
    /\ E \in Seq(MapNode) /\ Distinct(E)
    /\ c \in [1..Len(E) -> Bucket]
    /\ \A i, j \in 1..Len(E) : i <= j => c[i] <= c[j]
    /\ fi \in [Bucket -> MapNode \cup {Null}]
    /\ nx \in [MapNode -> MapNode \cup {Null}]
    /\ \A b \in Bucket : LeadsBucket(E, c, fi, b)
    /\ \A i \in 1..Len(E) :
          nx[E[i]] = IF i < Len(E) /\ c[i + 1] = c[i] THEN E[i + 1] ELSE Null

(* The keys are those of the entries, and go to their buckets.                *)
IsKeyed(E, c, K) ==
    /\ K \in [MapNode -> MapKey \cup {Null}]
    /\ \A n \in MapNode : K[n] # Null <=> n \in Elements(E)
    /\ \A i \in 1..Len(E) : K[E[i]] \in MapKey /\ BucketOf[K[E[i]]] = c[i]

BeginsAt(E, c, pos) ==
    IF E = << >> THEN pos.node = Null ELSE pos = Pos(E[1], c[1])

InsertersInv ==
    /\ inserting \in [Inserter -> MapKey \cup {Null}]
    /\ \A t \in Inserter : inserting[t] # Null => pair = inserting[t]

MapInvOf(E, c) ==
    /\ IsChained(E, c, first, hnext)
    /\ IsKeyed(E, c, key_of)
    /\ BeginsAt(E, c, map_begin)
    /\ node_count = Len(E)
    /\ InsertersInv

MapInv == \E E, c : MapInvOf(E, c)

-----------------------------------------------------------------------------
(* Where the buckets from b on begin.                                        *)
LEMMA CutAt ==
    ASSUME NEW N \in Nat, NEW c \in [1..N -> Nat], NEW b \in Nat,
           \A i, j \in 1..N : i <= j => c[i] <= c[j]
    PROVE  \E p \in 0..N : \A i \in 1..N : i <= p <=> c[i] < b
<1>1. PICK D : D = {i \in 1..N : c[i] >= b}
  OBVIOUS
<1>2. CASE D = {}
  <2>1. \A i \in 1..N : i <= N /\ c[i] < b
    <3>1. ASSUME NEW i \in 1..N PROVE i <= N /\ c[i] < b
      <4>1. i \notin D /\ c[i] \in Nat
        BY <1>2
      <4>2. QED
        BY <1>1, <4>1
    <3>2. QED
      BY <3>1
  <2>2. N \in 0..N
    OBVIOUS
  <2>3. QED
    BY <2>1, <2>2
<1>3. CASE D # {}
  <2>1. PICK q \in D : \A i \in D : q <= i
    <3>1. D \in SUBSET Nat
      BY <1>1
    <3>2. QED
      BY <1>3, <3>1, LeastNatural
  <2>2. q \in 1..N /\ c[q] >= b /\ q - 1 \in 0..N
    BY <1>1, <2>1
  <2>3. ASSUME NEW i \in 1..N PROVE i <= q - 1 <=> c[i] < b
    <3>1. c[i] \in Nat /\ c[q] \in Nat
      BY <2>2
    <3>2. i >= q => c[q] <= c[i]
      BY <2>2
    <3>3. i < q => i \notin D
      BY <2>1, <2>2
    <3>4. i \notin D => c[i] < b
      BY <1>1, <3>1
    <3>5. QED
      BY <2>2, <3>1, <3>2, <3>3, <3>4
  <2>4. QED
    BY <2>2, <2>3
<1>4. QED
  BY <1>2, <1>3

(* Two walks of the same steps from the same place are the same.              *)
WalkAlike(N, f, g) ==
    /\ f = [k \in 0..N |-> f[k]] /\ g = [k \in 0..N |-> g[k]] /\ f[0] = g[0]
    /\ \A k \in 1..N : f[k - 1] = g[k - 1] => f[k] = g[k]

LEMMA SameWalk ==
    ASSUME NEW N \in Nat, NEW f, NEW g, WalkAlike(N, f, g)
    PROVE  f = g
<1> USE DEF WalkAlike
<1>1. PICK D : D = {k \in 0..N : f[k] # g[k]}
  OBVIOUS
<1>2. CASE D = {}
  <2>1. \A k \in 0..N : f[k] = g[k]
    BY <1>1, <1>2
  <2>2. QED
    BY <2>1
<1>3. CASE D # {}
  <2>1. D \in SUBSET Nat
    BY <1>1
  <2>2. PICK k \in D : \A j \in D : k <= j
    BY <1>3, <2>1, LeastNatural
  <2>3. k \in 0..N /\ f[k] # g[k] /\ k # 0
    BY <1>1, <2>2
  <2>4. k \in 1..N /\ k - 1 \in 0..N /\ ~(k <= k - 1)
    BY <2>3
  <2>5. k - 1 \notin D
    BY <2>2, <2>4
  <2>6. f[k - 1] = g[k - 1]
    BY <1>1, <2>4, <2>5
  <2>7. QED
    BY <2>3, <2>4, <2>6
<1>4. QED
  BY <1>2, <1>3

(* The nodes of a sequence without repetitions are no more than there are.     *)
LEMMA EntriesFit ==
    ASSUME NEW E \in Seq(MapNode), Distinct(E)
    PROVE  Cardinality(MapNode) \in Nat /\ Len(E) <= Cardinality(MapNode)
<1>1. IsFiniteSet(MapNode)
  BY MapBounds
<1>2. Len(E) \in Nat /\ DOMAIN E = 1..Len(E) /\ E \in [1..Len(E) -> MapNode]
  BY LenProperties
<1>3. E \in Injection(1..Len(E), MapNode)
  BY <1>2 DEF Distinct, Injection, IsInjective
<1>4. Cardinality(1..Len(E)) <= Cardinality(MapNode)
  BY <1>1, <1>3, FS_Injection
<1>5. Cardinality(1..Len(E)) = Len(E)
  <2>1. 1 \in Int /\ Len(E) \in Int
    BY <1>2
  <2>2. Cardinality(1..Len(E)) = IF 1 > Len(E) THEN 0 ELSE Len(E) - 1 + 1
    BY <2>1, FS_Interval
  <2>3. QED
    BY <1>2, <2>2
<1>6. Cardinality(MapNode) \in Nat
  BY <1>1, FS_CardinalityType
<1>7. QED
  BY <1>4, <1>5, <1>6

(* The first M of the steps of a walk that goes through M places, and then     *)
(* stays at none.                                                            *)
LEMMA WalkedPlaces ==
    ASSUME NEW N \in Nat, NEW M \in 0..N
    PROVE  0..(M - 1) \subseteq 0..N /\ Cardinality(0..(M - 1)) = M
<1>1. Cardinality(0..(M - 1)) = IF 0 > M - 1 THEN 0 ELSE (M - 1) - 0 + 1
  BY FS_Interval
<1>2. QED
  BY <1>1

-----------------------------------------------------------------------------
(* What an order of the entries says in terms of numbers.                     *)
LEMMA ChainFacts ==
    ASSUME NEW E, NEW c, NEW fi, NEW nx, IsChained(E, c, fi, nx)
    PROVE  /\ Len(E) \in Nat /\ DOMAIN E = 1..Len(E) /\ E \in [1..Len(E) -> MapNode]
           /\ c \in [1..Len(E) -> Nat]
           /\ \A i \in 1..Len(E) : E[i] \in MapNode /\ E[i] # Null /\ c[i] \in Bucket /\ c[i] \in Nat
           /\ (E = << >> <=> Len(E) = 0)
<1>1. E \in Seq(MapNode) /\ c \in [1..Len(E) -> Bucket]
  BY DEF IsChained
<1>2. Len(E) \in Nat /\ DOMAIN E = 1..Len(E) /\ E \in [1..Len(E) -> MapNode]
      /\ (E = << >> <=> Len(E) = 0)
  BY <1>1, LenProperties, EmptySeq
<1>3. \A i \in 1..Len(E) : E[i] \in MapNode /\ E[i] # Null
  BY <1>1, <1>2, MapBounds
<1>4. \A i \in 1..Len(E) : c[i] \in Bucket /\ c[i] \in Nat
  BY <1>1, MapBounds
<1>5. c \in [1..Len(E) -> Nat]
  BY <1>1, <1>4
<1>6. QED
  BY <1>2, <1>3, <1>4, <1>5

(* Where a bucket's entries lie, and which of them first has.                 *)
LEMMA BucketSpan ==
    ASSUME NEW E, NEW c, NEW fi, NEW nx, IsChained(E, c, fi, nx), NEW b \in Bucket
    PROVE  \E p, q \in 0..Len(E) :
              /\ p <= q
              /\ \A i \in 1..Len(E) : i <= p <=> c[i] < b
              /\ \A i \in 1..Len(E) : c[i] = b <=> p < i /\ i <= q
              /\ fi[b] = IF p < q THEN E[p + 1] ELSE Null
<1>1. PICK N \in Nat : N = Len(E) /\ c \in [1..N -> Nat]
  BY ChainFacts
<1>2. \A i, j \in 1..N : i <= j => c[i] <= c[j]
  BY <1>1 DEF IsChained
<1>3. b \in Nat /\ b + 1 \in Nat
  BY MapBounds
<1>4. PICK p \in 0..N : \A i \in 1..N : i <= p <=> c[i] < b
  BY <1>1, <1>2, <1>3, CutAt
<1>5. PICK q \in 0..N : \A i \in 1..N : i <= q <=> c[i] < b + 1
  BY <1>1, <1>2, <1>3, CutAt
<1>6. \A i \in 1..N : c[i] \in Nat
  BY <1>1
<1>7. \A i \in 1..N : c[i] = b <=> p < i /\ i <= q
  BY <1>3, <1>4, <1>5, <1>6
<1>8. p <= q
  <2>1. SUFFICES ASSUME p > q PROVE FALSE
    OBVIOUS
  <2>2. p \in 1..N
    BY <2>1
  <2>3. c[p] < b /\ ~(c[p] < b + 1) /\ c[p] \in Nat
    BY <1>4, <1>5, <1>6, <2>1, <2>2
  <2>4. QED
    BY <1>3, <2>3
<1>9. fi[b] = IF p < q THEN E[p + 1] ELSE Null
  <2>1. LeadsBucket(E, c, fi, b)
    BY DEF IsChained
  <2>2. CASE fi[b] = Null /\ \A i \in 1..N : c[i] # b
    <3>1. ~(p < q)
      <4>1. SUFFICES ASSUME p < q PROVE FALSE
        OBVIOUS
      <4>2. q \in 1..N
        BY <4>1
      <4>3. QED
        BY <1>7, <2>2, <4>1, <4>2
    <3>2. QED
      BY <2>2, <3>1
  <2>3. CASE \E i \in 1..N : fi[b] = E[i] /\ c[i] = b /\ \A j \in 1..(i - 1) : c[j] # b
    <3>1. PICK i \in 1..N : fi[b] = E[i] /\ c[i] = b /\ \A j \in 1..(i - 1) : c[j] # b
      BY <2>3
    <3>2. p < i /\ i <= q
      BY <1>7, <3>1
    <3>3. i = p + 1
      <4>1. SUFFICES ASSUME i # p + 1 PROVE FALSE
        OBVIOUS
      <4>2. p + 1 \in 1..(i - 1) /\ p + 1 \in 1..N /\ p + 1 <= q
        BY <3>2, <4>1
      <4>3. QED
        BY <1>7, <3>1, <4>2
    <3>4. QED
      BY <3>1, <3>2, <3>3
  <2>4. QED
    BY <1>1, <2>1, <2>2, <2>3 DEF LeadsBucket
<1>10. QED
  BY <1>1, <1>4, <1>7, <1>8, <1>9

-----------------------------------------------------------------------------
(* The position of the i-th entry, and the one after the last.                *)
PosOf(E, c, i) == IF i \in 1..Len(E) THEN Pos(E[i], c[i]) ELSE Pos(Null, BucketSize - 1)

(* hash_map_pos_next goes from an entry to the next one.                      *)
LEMMA NextPos ==
    ASSUME NEW E, NEW c, IsChained(E, c, first, hnext), NEW i \in 1..Len(E)
    PROVE  PosNext(PosOf(E, c, i)) = PosOf(E, c, i + 1)
<1>1. PICK N \in Nat : N = Len(E) /\ i \in 1..N
  BY ChainFacts
<1>2. \A j \in 1..N : E[j] \in MapNode /\ E[j] # Null /\ c[j] \in Bucket /\ c[j] \in Nat
  BY <1>1, ChainFacts
<1>3. PICK n, b : n = E[i] /\ b = c[i]
  OBVIOUS
<1>4. n # Null /\ b \in Bucket /\ b \in Nat
  BY <1>1, <1>2, <1>3
<1>5. PosOf(E, c, i) = Pos(n, b)
  BY <1>1, <1>3 DEF PosOf
<1>6. hnext[n] = IF i < N /\ c[i + 1] = b THEN E[i + 1] ELSE Null
  BY <1>1, <1>3 DEF IsChained
<1>7. \A j, k \in 1..N : j <= k => c[j] <= c[k]
  BY <1>1 DEF IsChained
<1>8. PICK A : A = {a \in Bucket : a > b /\ first[a] # Null}
  OBVIOUS
<1>9. PosNext(Pos(n, b)) =
        IF hnext[n] # Null THEN Pos(hnext[n], b)
        ELSE IF A = {} THEN Pos(Null, BucketSize - 1)
        ELSE LET a == CHOOSE a \in A : \A e \in A : a <= e IN Pos(first[a], a)
  <2>1. Pos(n, b).node = n /\ Pos(n, b).bucket = b
    BY DEF Pos
  <2>2. A = {a \in Bucket : a > Pos(n, b).bucket /\ first[a] # Null}
    BY <1>8, <2>1
  <2>3. QED
    BY <2>1, <2>2 DEF PosNext
<1>10. CASE i < N /\ c[i + 1] = b
  <2>1. i + 1 \in 1..N
    BY <1>1, <1>10
  <2>2. hnext[n] = E[i + 1] /\ E[i + 1] # Null
    BY <1>2, <1>6, <1>10, <2>1
  <2>3. PosOf(E, c, i + 1) = Pos(E[i + 1], b)
    BY <1>1, <1>10, <2>1 DEF PosOf
  <2>4. QED
    BY <1>5, <1>9, <2>2, <2>3
(* The first entry of the next bucket that has one is the next entry.         *)
<1>11. CASE i < N /\ c[i + 1] # b
  <2>1. i + 1 \in 1..N /\ i \in 1..N
    BY <1>1, <1>11
  <2>2. PICK d : d = c[i + 1]
    OBVIOUS
  <2>3. d \in Bucket /\ d \in Nat /\ d > b
    <3>1. d \in Bucket /\ d \in Nat
      BY <1>2, <2>1, <2>2
    <3>2. c[i] <= c[i + 1]
      BY <1>1, <1>7, <2>1
    <3>3. QED
      BY <1>3, <1>4, <1>11, <2>2, <3>1, <3>2
  <2>4. PICK p, q \in 0..Len(E) :
              /\ p <= q
              /\ \A j \in 1..Len(E) : j <= p <=> c[j] < d
              /\ \A j \in 1..Len(E) : c[j] = d <=> p < j /\ j <= q
              /\ first[d] = IF p < q THEN E[p + 1] ELSE Null
    BY SMTT(60), <2>3, BucketSpan
  <2>5. p = i /\ p < q
    <3>1. p < i + 1 /\ i + 1 <= q
      BY <1>1, <2>1, <2>2, <2>4
    <3>2. i <= p
      BY <1>1, <1>3, <2>1, <2>3, <2>4
    <3>3. QED
      BY <1>1, <2>4, <3>1, <3>2
  <2>6. first[d] = E[i + 1] /\ E[i + 1] # Null
    BY <1>2, <2>1, <2>4, <2>5
  <2>7. ASSUME NEW a \in A PROVE d <= a
    <3>1. a \in Bucket /\ a > b /\ first[a] # Null /\ a \in Nat
      BY <1>8, MapBounds
    <3>2. LeadsBucket(E, c, first, a)
      BY <3>1 DEF IsChained
    <3>3. PICK j \in 1..N : c[j] = a
      BY <1>1, <3>1, <3>2 DEF LeadsBucket
    <3>4. ~(j <= i)
      <4>1. j <= i => c[j] <= c[i]
        BY <1>7, <2>1, <3>3
      <4>2. QED
        BY <1>3, <1>4, <3>1, <3>3, <4>1
    <3>5. i + 1 <= j
      BY <1>1, <3>3, <3>4
    <3>6. c[i + 1] <= c[j]
      BY <1>7, <2>1, <3>3, <3>5
    <3>7. QED
      BY <2>2, <3>3, <3>6
  <2>8. d \in A
    BY <1>8, <2>3, <2>6
  <2>9. \A a \in A : a \in Nat
    BY <1>8, MapBounds
  <2>10. (CHOOSE a \in A : \A e \in A : a <= e) = d
    <3>1. \A a \in A : (\A e \in A : a <= e) => a = d
      BY <2>3, <2>7, <2>8, <2>9
    <3>2. QED
      BY <2>7, <2>8, <3>1
  <2>11. hnext[n] = Null /\ A # {}
    BY <1>6, <1>11, <2>8
  <2>12. PosNext(Pos(n, b)) = Pos(first[d], d)
    BY <1>9, <2>10, <2>11
  <2>13. PosOf(E, c, i + 1) = Pos(E[i + 1], d)
    BY <1>1, <2>1, <2>2 DEF PosOf
  <2>14. QED
    BY <1>5, <2>6, <2>12, <2>13
<1>12. CASE ~(i < N)
  <2>1. i = N /\ i + 1 \notin 1..N
    BY <1>1, <1>12
  <2>2. A = {}
    <3>1. SUFFICES ASSUME NEW a \in A PROVE FALSE
      OBVIOUS
    <3>2. a \in Bucket /\ a > b /\ first[a] # Null /\ a \in Nat
      BY <1>8, MapBounds
    <3>3. LeadsBucket(E, c, first, a)
      BY <3>2 DEF IsChained
    <3>4. PICK j \in 1..N : c[j] = a
      BY <1>1, <3>2, <3>3 DEF LeadsBucket
    <3>5. j <= i
      BY <2>1, <3>4
    <3>6. c[j] <= c[i]
      BY <1>1, <1>7, <3>4, <3>5
    <3>7. QED
      BY <1>3, <1>4, <3>2, <3>4, <3>6
  <2>3. hnext[n] = Null
    BY <1>6, <1>12
  <2>4. PosOf(E, c, i + 1) = Pos(Null, BucketSize - 1)
    BY <1>1, <2>1 DEF PosOf
  <2>5. QED
    BY <1>5, <1>9, <2>2, <2>3, <2>4
<1>13. QED
  BY <1>10, <1>11, <1>12

(* Going through the map meets the entries in their order.                    *)
Last == Cardinality(MapNode)

EntriesFrom(f) ==
    f = [k \in 0..Last |->
            IF k = 0 THEN map_begin
            ELSE LET pos == f[k - 1] IN IF pos.node = Null THEN pos ELSE PosNext(pos)]

EntriesVia(w) == [k \in 1..Cardinality({k \in 0..Last : w[k].node # Null}) |-> w[k - 1].node]

(* Where the walk is after k steps: at the end, it stays where it came to.     *)
WalkAt(E, c, k) == IF E = << >> THEN map_begin ELSE PosOf(E, c, k + 1)

LEMMA WalkOfEntries ==
    ASSUME NEW E, NEW c, IsChained(E, c, first, hnext), BeginsAt(E, c, map_begin)
    PROVE  \E g : /\ g = [k \in 0..Last |-> WalkAt(E, c, k)]
                  /\ (CHOOSE f : EntriesFrom(f)) = g
<1>1. PICK N \in Nat : N = Len(E) /\ (E = << >> <=> N = 0)
  BY ChainFacts
<1>2. PICK L \in Nat : L = Last /\ N <= L
  BY <1>1, EntriesFit DEF IsChained, Last
<1>3. PICK g : g = [k \in 0..L |-> WalkAt(E, c, k)]
  OBVIOUS
<1>4. \A i \in 1..N : PosOf(E, c, i).node = E[i] /\ E[i] # Null
  BY <1>1, ChainFacts DEF PosOf, Pos
<1>5. \A i : i \notin 1..N => PosOf(E, c, i) = Pos(Null, BucketSize - 1)
  BY <1>1 DEF PosOf
<1>6. Pos(Null, BucketSize - 1).node = Null
  BY DEF Pos
<1>7. ASSUME NEW k \in 1..L
      PROVE  WalkAt(E, c, k) = LET pos == WalkAt(E, c, k - 1) IN
                               IF pos.node = Null THEN pos ELSE PosNext(pos)
  <2>1. k \in Nat /\ (k - 1) + 1 = k
    OBVIOUS
  <2>2. CASE E = << >>
    BY <2>2 DEF WalkAt, BeginsAt
  <2>3. CASE E # << >>
    <3>1. WalkAt(E, c, k) = PosOf(E, c, k + 1) /\ WalkAt(E, c, k - 1) = PosOf(E, c, k)
      BY <2>1, <2>3 DEF WalkAt
    <3>2. CASE k \in 1..N
      <4>1. PosNext(PosOf(E, c, k)) = PosOf(E, c, k + 1)
        BY <1>1, <3>2, NextPos
      <4>2. PosOf(E, c, k).node # Null
        BY <1>4, <3>2
      <4>3. QED
        BY <3>1, <4>1, <4>2
    <3>3. CASE k \notin 1..N
      <4>1. k + 1 \notin 1..N
        BY <2>1, <3>3
      <4>2. QED
        BY <1>5, <1>6, <3>1, <3>3, <4>1
    <3>4. QED
      BY <3>2, <3>3
  <2>4. QED
    BY <2>2, <2>3
<1>8. WalkAt(E, c, 0) = map_begin
  <2>1. 0 + 1 = 1 /\ (N # 0 => 1 \in 1..N)
    OBVIOUS
  <2>2. E # << >> => PosOf(E, c, 1) = Pos(E[1], c[1])
    BY <1>1, <2>1 DEF PosOf
  <2>3. QED
    BY <2>1, <2>2 DEF WalkAt, BeginsAt
<1>9. /\ g = [k \in 0..L |-> g[k]] /\ g[0] = map_begin
      /\ \A k \in 1..L : g[k] = LET pos == g[k - 1] IN
                                IF pos.node = Null THEN pos ELSE PosNext(pos)
  <2>1. \A k \in 0..L : g[k] = WalkAt(E, c, k)
    BY <1>3
  <2>2. 0 \in 0..L /\ \A k \in 1..L : k \in 0..L /\ k - 1 \in 0..L
    OBVIOUS
  <2>3. ASSUME NEW k \in 1..L
        PROVE  g[k] = LET pos == g[k - 1] IN IF pos.node = Null THEN pos ELSE PosNext(pos)
    <3>1. g[k] = WalkAt(E, c, k) /\ g[k - 1] = WalkAt(E, c, k - 1)
      BY <2>1, <2>2
    <3>2. QED
      BY <1>7, <3>1
  <2>4. QED
    BY <1>3, <1>8, <2>1, <2>2, <2>3
<1>10. EntriesFrom(g)
  <2> DEFINE h(k) == IF k = 0 THEN map_begin
                     ELSE LET pos == g[k - 1] IN IF pos.node = Null THEN pos ELSE PosNext(pos)
  <2>1. \A k \in 0..L : g[k] = h(k)
    <3>1. \A k \in 0..L : k # 0 => k \in 1..L
      OBVIOUS
    <3>2. QED
      BY <1>9, <3>1
  <2>2. g = [k \in 0..L |-> h(k)]
    <3> HIDE DEF h
    <3>1. QED
      BY <1>9, <2>1
  <2>3. QED
    BY <1>2, <2>2 DEF EntriesFrom
<1>11. ASSUME NEW f, EntriesFrom(f) PROVE f = g
  <2> DEFINE h(k) == IF k = 0 THEN map_begin
                     ELSE LET pos == f[k - 1] IN IF pos.node = Null THEN pos ELSE PosNext(pos)
  <2>1. f = [k \in 0..L |-> h(k)]
    BY <1>2, <1>11 DEF EntriesFrom
  <2>2. f = [k \in 0..L |-> f[k]] /\ \A k \in 0..L : f[k] = h(k)
    <3> HIDE DEF h
    <3>1. QED
      BY <2>1
  <2>3. 0 \in 0..L /\ \A k \in 1..L : k \in 0..L /\ k # 0
    OBVIOUS
  <2>4. f[0] = g[0]
    BY <1>9, <2>2, <2>3
  <2>5. \A k \in 1..L : f[k - 1] = g[k - 1] => f[k] = g[k]
    BY <1>9, <2>2, <2>3
  <2> HIDE DEF h
  <2>6. f = [k \in 0..L |-> f[k]]
    BY <2>2
  <2>7. g = [k \in 0..L |-> g[k]]
    BY <1>9
  <2>8. WalkAlike(L, f, g)
    BY <2>4, <2>5, <2>6, <2>7 DEF WalkAlike
  <2>9. QED
    BY <2>8, SameWalk
<1>12. (CHOOSE f : EntriesFrom(f)) = g
  BY <1>10, <1>11
<1>13. QED
  BY <1>2, <1>3, <1>12

LEMMA EntriesIs ==
    ASSUME NEW E, NEW c, IsChained(E, c, first, hnext), BeginsAt(E, c, map_begin)
    PROVE  Entries = E
<1>1. PICK N \in Nat : N = Len(E) /\ (E = << >> <=> N = 0) /\ DOMAIN E = 1..N
                       /\ E \in [1..N -> MapNode]
  BY ChainFacts
<1>2. PICK L \in Nat : L = Last /\ N <= L
  BY <1>1, EntriesFit DEF IsChained, Last
<1>3. PICK g : g = [k \in 0..L |-> WalkAt(E, c, k)] /\ (CHOOSE f : EntriesFrom(f)) = g
  BY <1>2, WalkOfEntries
<1>4. PICK M : M = {k \in 0..L : g[k].node # Null}
  OBVIOUS
<1>5. Entries = [k \in 1..Cardinality(M) |-> g[k - 1].node]
  <2>1. Entries = EntriesVia(CHOOSE f : EntriesFrom(f))
    BY Zenon DEF Entries, EntriesFrom, EntriesVia, Last
  <2>2. Entries = EntriesVia(g)
    BY <1>3, <2>1
  <2>3. QED
    BY <1>2, <1>4, <2>2 DEF EntriesVia
<1>6. ASSUME NEW k \in 0..L
      PROVE  /\ k + 1 \in 1..N => g[k].node = E[k + 1] /\ E[k + 1] # Null
             /\ k + 1 \notin 1..N => g[k].node = Null
  <2>1. g[k] = WalkAt(E, c, k)
    BY <1>3
  <2>2. CASE E = << >>
    BY <1>1, <2>1, <2>2 DEF WalkAt, BeginsAt
  <2>3. CASE E # << >>
    <3>1. g[k] = PosOf(E, c, k + 1)
      BY <2>1, <2>3 DEF WalkAt
    <3>2. \A i \in 1..N : E[i] # Null
      BY <1>1, ChainFacts
    <3>3. QED
      BY <1>1, <3>1, <3>2 DEF PosOf, Pos
  <2>4. QED
    BY <2>2, <2>3
<1>7. M = 0..(N - 1)
  <2>1. \A k \in 0..L : k \in M <=> k + 1 \in 1..N
    BY <1>4, <1>6
  <2>2. \A k \in 0..L : k + 1 \in 1..N <=> k \in 0..(N - 1)
    OBVIOUS
  <2>3. 0..(N - 1) \subseteq 0..L
    BY <1>2
  <2>4. QED
    BY <1>4, <2>1, <2>2, <2>3
<1>8. Cardinality(M) = N
  BY <1>2, <1>7, WalkedPlaces
<1>9. \A k \in 1..N : g[k - 1].node = E[k]
  <2>1. ASSUME NEW k \in 1..N PROVE g[k - 1].node = E[k]
    <3>1. k - 1 \in 0..L /\ (k - 1) + 1 = k
      BY <1>2
    <3>2. QED
      BY <1>6, <3>1
  <2>2. QED
    BY <2>1
<1>10. E = [k \in 1..N |-> E[k]]
  BY <1>1
<1>11. QED
  BY <1>5, <1>8, <1>9, <1>10
-----------------------------------------------------------------------------
(* The chain of a bucket has its entries.                                    *)
ChainFrom(f, n) ==
    f = [k \in 0..Last |->
            IF k = 0 THEN n ELSE LET m == f[k - 1] IN IF m = Null THEN Null ELSE hnext[m]]

ChainVia(w) == [k \in 1..Cardinality({k \in 0..Last : w[k] # Null}) |-> w[k - 1]]

(* The k-th of the entries after p, up to q.                                  *)
AfterTo(E, p, q, k) == IF p + k <= q THEN E[p + k] ELSE Null

(* The entries after p, up to q, are those of bucket b, and its chain.         *)
Spans(E, c, b, p, q) ==
    /\ p <= q
    /\ \A i \in 1..Len(E) : c[i] = b <=> p < i /\ i <= q
    /\ first[b] = IF p < q THEN E[p + 1] ELSE Null

ChainSpans(E, b, p, q) ==
    \E r \in Nat : /\ r = q - p /\ p + r = q
                  /\ Chain(first[b]) = [k \in 1..r |-> E[p + k]]

LEMMA ChainIs ==
    ASSUME NEW E, NEW c, IsChained(E, c, first, hnext), NEW b \in Bucket,
           NEW p \in 0..Len(E), NEW q \in 0..Len(E), Spans(E, c, b, p, q)
    PROVE  ChainSpans(E, b, p, q)
<1> USE DEF Spans, ChainSpans
<1>1. PICK N \in Nat : N = Len(E)
  BY ChainFacts
<1>2. PICK L \in Nat : L = Last /\ N <= L
  BY <1>1, EntriesFit DEF IsChained, Last
<1>3. p \in Nat /\ q \in Nat /\ p <= q /\ q <= N /\ p <= N
  BY <1>1
<1>4. PICK r \in Nat : r = q - p /\ p + r = q /\ r <= L
  BY <1>2, <1>3
<1>5. \A i \in 1..N : E[i] \in MapNode /\ E[i] # Null
  BY <1>1, ChainFacts
<1>6. PICK n : n = first[b]
  OBVIOUS
<1>7. PICK g : g = [k \in 0..L |-> AfterTo(E, p, q, k + 1)]
  OBVIOUS
<1>8. \A k \in 0..L : g[k] = IF k + 1 <= r THEN E[p + (k + 1)] ELSE Null
  <2>1. ASSUME NEW k \in 0..L PROVE g[k] = IF k + 1 <= r THEN E[p + (k + 1)] ELSE Null
    <3>1. k + 1 <= r <=> p + (k + 1) <= q
      BY SMTT(60), <1>3, <1>4
    <3>2. QED
      BY <1>7, <3>1 DEF AfterTo
  <2>2. QED
    BY <2>1
<1>9. g[0] = n
  <2>1. 0 \in 0..L /\ 0 + 1 = 1 /\ (1 <= r <=> p < q)
    BY <1>3, <1>4
  <2>2. QED
    BY <1>6, <1>8, <2>1
<1>10. \A k \in 0..L : k + 1 <= r => p + (k + 1) \in 1..N /\ g[k] # Null
  <2>1. ASSUME NEW k \in 0..L, k + 1 <= r PROVE p + (k + 1) \in 1..N
    BY <1>3, <1>4, <2>1
  <2>2. QED
    BY <1>5, <1>8, <2>1
<1>11. ASSUME NEW k \in 1..L
       PROVE  g[k] = LET m == g[k - 1] IN IF m = Null THEN Null ELSE hnext[m]
  <2>1. k \in 0..L /\ k - 1 \in 0..L /\ (k - 1) + 1 = k
    OBVIOUS
  <2>2. CASE k <= r
    <3>1. PICK i \in 1..N : i = p + k
      BY <1>10, <2>1, <2>2
    <3>2. g[k - 1] = E[i] /\ E[i] # Null
      BY <1>5, <1>8, <2>1, <2>2, <3>1
    <3>3. p < i /\ i <= q /\ c[i] = b
      <4>1. p < i /\ i <= q
        BY <1>3, <1>4, <2>2, <3>1
      <4>2. QED
        BY <1>1, <4>1
    <3>4. hnext[E[i]] = IF i < N /\ c[i + 1] = c[i] THEN E[i + 1] ELSE Null
      BY <1>1 DEF IsChained
    <3>5. p + (k + 1) = i + 1 /\ (k + 1 <= r <=> i + 1 <= q)
      BY SMTT(60), <1>3, <1>4, <3>1
    <3>6. g[k] = IF i + 1 <= q THEN E[i + 1] ELSE Null
      BY <1>8, <2>1, <3>5
    <3>7. i + 1 <= q <=> (i < N /\ c[i + 1] = c[i])
      <4>1. CASE i < N
        <5>1. i + 1 \in 1..N /\ p < i + 1
          BY <1>3, <3>3, <4>1
        <5>2. QED
          BY <1>1, <3>3, <4>1, <5>1
      <4>2. CASE ~(i < N)
        BY <1>3, <3>1, <4>2
      <4>3. QED
        BY <4>1, <4>2
    <3>8. QED
      BY <3>2, <3>4, <3>6, <3>7
  <2>3. CASE ~(k <= r)
    <3>1. ~(k + 1 <= r)
      BY <2>3
    <3>2. QED
      BY <1>8, <2>1, <2>3, <3>1
  <2>4. QED
    BY <2>2, <2>3
<1>12. g = [k \in 0..L |-> g[k]]
  BY <1>7
<1>13. ChainFrom(g, n)
  <2> DEFINE h(k) == IF k = 0 THEN n ELSE LET m == g[k - 1] IN IF m = Null THEN Null ELSE hnext[m]
  <2>1. \A k \in 0..L : g[k] = h(k)
    <3>1. \A k \in 0..L : k # 0 => k \in 1..L
      OBVIOUS
    <3>2. QED
      BY <1>9, <1>11, <3>1
  <2>2. g = [k \in 0..L |-> h(k)]
    <3> HIDE DEF h
    <3>1. QED
      BY <1>12, <2>1
  <2>3. QED
    BY <1>2, <2>2 DEF ChainFrom
<1>14. ASSUME NEW f, ChainFrom(f, n) PROVE f = g
  <2> DEFINE h(k) == IF k = 0 THEN n ELSE LET m == f[k - 1] IN IF m = Null THEN Null ELSE hnext[m]
  <2>1. f = [k \in 0..L |-> h(k)]
    BY <1>2, <1>14 DEF ChainFrom
  <2>2. f = [k \in 0..L |-> f[k]] /\ \A k \in 0..L : f[k] = h(k)
    <3> HIDE DEF h
    <3>1. QED
      BY <2>1
  <2>3. 0 \in 0..L /\ \A k \in 1..L : k \in 0..L /\ k # 0
    OBVIOUS
  <2>4. f[0] = g[0]
    BY <1>9, <2>2, <2>3
  <2>5. \A k \in 1..L : f[k - 1] = g[k - 1] => f[k] = g[k]
    BY <1>11, <2>2, <2>3
  <2> HIDE DEF h
  <2>6. f = [k \in 0..L |-> f[k]]
    BY <2>2
  <2>7. WalkAlike(L, f, g)
    BY <1>12, <2>4, <2>5, <2>6 DEF WalkAlike
  <2>8. QED
    BY <2>7, SameWalk
<1>15. (CHOOSE f : ChainFrom(f, n)) = g
  BY <1>13, <1>14
<1>16. PICK M : M = {k \in 0..L : g[k] # Null}
  OBVIOUS
<1>17. Chain(n) = [k \in 1..Cardinality(M) |-> g[k - 1]]
  <2>1. Chain(n) = ChainVia(CHOOSE f : ChainFrom(f, n))
    BY Zenon DEF Chain, ChainFrom, ChainVia, Last
  <2>2. Chain(n) = ChainVia(g)
    BY <1>15, <2>1
  <2>3. QED
    BY <1>2, <1>16, <2>2 DEF ChainVia
<1>18. M = 0..(r - 1)
  <2>1. \A k \in 0..L : k \in M <=> k + 1 <= r
    BY <1>8, <1>10, <1>16
  <2>2. \A k \in 0..L : k + 1 <= r <=> k \in 0..(r - 1)
    OBVIOUS
  <2>3. 0..(r - 1) \subseteq 0..L
    BY <1>4
  <2>4. QED
    BY <1>16, <2>1, <2>2, <2>3
<1>19. Cardinality(M) = r
  <2>1. r \in 0..L
    BY <1>4
  <2>2. QED
    BY <1>18, <2>1, WalkedPlaces
<1>20. \A k \in 1..r : g[k - 1] = E[p + k]
  <2>1. ASSUME NEW k \in 1..r PROVE g[k - 1] = E[p + k]
    <3>1. k - 1 \in 0..L /\ (k - 1) + 1 = k /\ k <= r
      BY <1>4
    <3>2. QED
      BY <1>8, <3>1
  <2>2. QED
    BY <2>1
<1>21. Chain(n) = [k \in 1..r |-> g[k - 1]]
  BY <1>17, <1>19
<1>22. Chain(n) = [k \in 1..r |-> E[p + k]]
  BY <1>20, <1>21
<1>23. QED
  BY <1>4, <1>6, <1>22

(* What a search returns: nothing, if no entry has the key, or the first entry *)
(* of the bucket that begins with it.                                        *)
Searched(E, k, e) ==
    \/ e = Null /\ \A i \in 1..Len(E) : key_of[E[i]] # k
    \/ \E i \in 1..Len(E) :
          /\ e = E[i]
          /\ \/ key_of[E[i]] = k /\ \A j \in 1..(i - 1) : key_of[E[j]] # k
             \/ key_of[E[i]] \in BeginsWith[k] \ {k}

FirstMatch(chain, S) == IF S = {} THEN Null ELSE chain[CHOOSE j \in S : \A l \in S : j <= l]

LEMMA SearchFinds ==
    ASSUME NEW E, NEW c, IsChained(E, c, first, hnext), IsKeyed(E, c, key_of), NEW k \in MapKey
    PROVE  Searched(E, k, MatchIn(Chain(first[BucketOf[k]]), k))
<1>1. PICK N \in Nat : N = Len(E)
  BY ChainFacts
<1>2. PICK b \in Bucket : b = BucketOf[k]
  BY MapBounds
<1>3. PICK p, q \in 0..Len(E) :
              /\ p <= q
              /\ \A i \in 1..Len(E) : c[i] = b <=> p < i /\ i <= q
              /\ first[b] = IF p < q THEN E[p + 1] ELSE Null
  BY BucketSpan
<1>4. PICK r \in Nat : /\ r = q - p /\ p + r = q
                       /\ Chain(first[b]) = [j \in 1..r |-> E[p + j]]
  <2>1. Spans(E, c, b, p, q)
    BY <1>3 DEF Spans
  <2>2. ChainSpans(E, b, p, q)
    BY <2>1, ChainIs
  <2>3. QED
    BY <2>2 DEF ChainSpans
<1>5. p \in Nat /\ q \in Nat /\ q <= N /\ p <= q
  BY <1>1, <1>3
<1>6. PICK ch : ch = Chain(first[b])
  OBVIOUS
<1>7. DOMAIN ch = 1..r /\ \A j \in 1..r : ch[j] = E[p + j] /\ p + j \in 1..N
  <2>1. \A j \in 1..r : p + j \in 1..N
    BY <1>4, <1>5
  <2>2. QED
    BY <1>4, <1>6, <2>1
<1>8. PICK S : S = {j \in 1..r : key_of[E[p + j]] \in BeginsWith[k]}
  OBVIOUS
<1>9. MatchIn(ch, k) = IF S = {} THEN Null ELSE ch[CHOOSE j \in S : \A l \in S : j <= l]
  <2>1. {j \in DOMAIN ch : key_of[ch[j]] \in BeginsWith[k]} = S
    BY <1>7, <1>8
  <2>2. QED
    <3>1. MatchIn(ch, k) = FirstMatch(ch, {j \in DOMAIN ch : key_of[ch[j]] \in BeginsWith[k]})
      BY Zenon DEF MatchIn, FirstMatch
    <3>2. QED
      BY <2>1, <3>1 DEF FirstMatch
(* An entry with the key is in the bucket.                                   *)
<1>10. ASSUME NEW i \in 1..N, key_of[E[i]] = k
       PROVE  \E j \in S : i = p + j
  <2>1. c[i] = b
    BY <1>1, <1>2, <1>10 DEF IsKeyed
  <2>2. p < i /\ i <= q
    BY <1>1, <1>3, <2>1
  <2>3. PICK j \in 1..r : i = p + j
    <3>1. i - p \in 1..r /\ i = p + (i - p)
      BY <1>4, <1>5, <2>2
    <3>2. QED
      BY <3>1
  <2>4. j \in S
    BY <1>8, <1>10, <2>3, MapBounds
  <2>5. QED
    BY <2>3, <2>4
<1>11. CASE S = {}
  <2>1. \A i \in 1..N : key_of[E[i]] # k
    BY <1>10, <1>11
  <2>2. QED
    BY <1>1, <1>2, <1>6, <1>9, <1>11, <2>1 DEF Searched
<1>12. CASE S # {}
  <2>1. PICK l \in S : \A j \in S : l <= j
    <3>1. S \in SUBSET Nat
      BY <1>8
    <3>2. QED
      BY <1>12, <3>1, LeastNatural
  <2>2. (CHOOSE j \in S : \A m \in S : j <= m) = l
    <3>1. \A j \in S : j \in Nat
      BY <1>8
    <3>2. \A j \in S : (\A m \in S : j <= m) => j = l
      BY <2>1, <3>1
    <3>3. QED
      BY <2>1, <3>2
  <2>3. l \in 1..r /\ key_of[E[p + l]] \in BeginsWith[k]
    BY <1>8, <2>1
  <2>4. PICK i \in 1..N : i = p + l /\ key_of[E[i]] \in BeginsWith[k]
    BY <1>7, <2>3
  <2>5. MatchIn(ch, k) = E[i]
    BY <1>7, <1>9, <1>12, <2>2, <2>3, <2>4
  <2>6. ASSUME NEW j \in 1..(i - 1) PROVE key_of[E[j]] # k
    <3>1. SUFFICES ASSUME key_of[E[j]] = k PROVE FALSE
      OBVIOUS
    <3>2. j \in 1..N
      BY <2>4
    <3>3. PICK m \in S : j = p + m
      BY <1>10, <3>1, <3>2
    <3>4. m \in Nat /\ l \in Nat /\ l <= m
      BY <1>8, <2>1, <3>3
    <3>5. i <= j
      BY <1>5, <2>4, <3>3, <3>4
    <3>6. QED
      BY <3>5
  <2>7. QED
    BY <1>1, <1>2, <1>6, <2>4, <2>5, <2>6 DEF Searched
<1>13. QED
  BY <1>11, <1>12
-----------------------------------------------------------------------------
(* The bucket of each entry after an insertion and after a removal.           *)
WithBucket(c, N, p, b) ==
    [i \in 1..(N + 1) |-> IF i <= p THEN c[i] ELSE IF i = p + 1 THEN b ELSE c[i - 1]]
WithoutBucket(c, N, p) == [i \in 1..(N - 1) |-> IF i < p THEN c[i] ELSE c[i + 1]]

(* A new entry at the head of its bucket's chain.                            *)
LEMMA InsertChained ==
    ASSUME NEW E, NEW c, NEW fi, NEW nx, IsChained(E, c, fi, nx),
           NEW n \in MapNode, n \notin Elements(E), NEW b \in Bucket,
           NEW p \in 0..Len(E), \A i \in 1..Len(E) : i <= p <=> c[i] < b,
           NEW F, IsInserted(F, MapNode, E, p, n)
    PROVE  /\ IsChained(F, WithBucket(c, Len(E), p, b),
                        [fi EXCEPT ![b] = n], [nx EXCEPT ![n] = fi[b]])
           /\ Elements(F) = Elements(E) \cup {n}
<1>1. PICK N \in Nat : N = Len(E) /\ DOMAIN E = 1..N /\ c \in [1..N -> Nat]
  BY ChainFacts
<1>2. \A i \in 1..N : E[i] \in MapNode /\ E[i] # Null /\ c[i] \in Bucket /\ c[i] \in Nat
  BY <1>1, ChainFacts
<1>3. \A i, j \in 1..N : i <= j => c[i] <= c[j]
  BY <1>1 DEF IsChained
<1>4. p \in Nat /\ p <= N /\ b \in Nat /\ \A i \in 1..N : i <= p <=> c[i] < b
  BY <1>1, MapBounds
<1>5. PICK d : d = WithBucket(c, N, p, b)
  OBVIOUS
<1>6. /\ F \in Seq(MapNode) /\ Len(F) = N + 1 /\ DOMAIN F = 1..(N + 1)
      /\ \A i \in 1..(N + 1) :
            F[i] = IF i <= p THEN E[i] ELSE IF i = p + 1 THEN n ELSE E[i - 1]
  <2>1. /\ F \in Seq(MapNode) /\ Len(F) = N + 1
        /\ \A i \in 1..(N + 1) :
              F[i] = IF i <= p THEN E[i] ELSE IF i = p + 1 THEN n ELSE E[i - 1]
    BY <1>1 DEF IsInserted
  <2>2. DOMAIN F = 1..Len(F)
    BY <2>1, LenProperties
  <2>3. QED
    BY <2>1, <2>2
<1>7. \A i \in 1..(N + 1) :
         d[i] = IF i <= p THEN c[i] ELSE IF i = p + 1 THEN b ELSE c[i - 1]
  BY <1>5 DEF WithBucket
<1>8. \A i \in 1..N : E[i] # n
  BY <1>1 DEF Elements
(* Each place of the new order, and what is there.                           *)
<1>9. p + 1 \in 1..(N + 1) /\ F[p + 1] = n /\ d[p + 1] = b
  <2>1. p + 1 \in 1..(N + 1) /\ ~(p + 1 <= p)
    BY <1>4
  <2>2. QED
    BY <1>6, <1>7, <2>1
<1>10. \A i \in 1..N : i <= p => i \in 1..(N + 1) /\ F[i] = E[i] /\ d[i] = c[i]
  BY <1>6, <1>7
<1>11. \A i \in 1..N : i > p => i + 1 \in 1..(N + 1) /\ F[i + 1] = E[i] /\ d[i + 1] = c[i]
  <2>1. ASSUME NEW i \in 1..N, i > p
        PROVE  i + 1 \in 1..(N + 1) /\ F[i + 1] = E[i] /\ d[i + 1] = c[i]
    <3>1. i + 1 \in 1..(N + 1) /\ ~(i + 1 <= p) /\ i + 1 # p + 1 /\ (i + 1) - 1 = i
      BY <1>4, <2>1
    <3>2. QED
      BY <1>6, <1>7, <3>1
  <2>2. QED
    BY <2>1
<1>12. ASSUME NEW i \in 1..(N + 1)
       PROVE  \/ i = p + 1
              \/ i <= p /\ i \in 1..N
              \/ \E h \in 1..N : i = h + 1 /\ h > p
  <2>1. i > p + 1 => i - 1 \in 1..N /\ i = (i - 1) + 1 /\ i - 1 > p
    BY <1>4
  <2>2. i <= p => i \in 1..N
    BY <1>4
  <2>3. QED
    BY <1>4, <2>1, <2>2
<1>13. d \in [1..(N + 1) -> Bucket]
  <2>1. ASSUME NEW i \in 1..(N + 1) PROVE d[i] \in Bucket
    <3>1. CASE i = p + 1
      BY <1>9, <3>1
    <3>2. CASE i <= p /\ i \in 1..N
      BY <1>2, <1>10, <3>2
    <3>3. ASSUME NEW h \in 1..N, i = h + 1, h > p
          PROVE  d[i] \in Bucket
      BY <1>2, <1>11, <3>3
    <3>4. QED
      BY <1>12, <3>1, <3>2, <3>3
  <2>2. d = [i \in 1..(N + 1) |-> d[i]]
    BY <1>5 DEF WithBucket
  <2>3. QED
    BY <2>1, <2>2
<1>14. Distinct(F)
  <2>1. ASSUME NEW i \in 1..(N + 1), NEW j \in 1..(N + 1), F[i] = F[j], i < j PROVE FALSE
    <3>1. CASE i = p + 1
      <4>1. PICK h \in 1..N : j = h + 1 /\ h > p
        BY <1>4, <1>12, <2>1, <3>1
      <4>2. QED
        BY <1>8, <1>9, <1>11, <2>1, <3>1, <4>1
    <3>2. CASE i <= p /\ i \in 1..N
      <4>1. j = p + 1 => FALSE
        BY <1>8, <1>9, <1>10, <2>1, <3>2
      <4>2. ASSUME j <= p, j \in 1..N PROVE FALSE
        <5>1. E[i] = E[j] /\ i # j
          <6>1. F[i] = E[i] /\ F[j] = E[j]
            BY <1>10, <3>2, <4>2
          <6>2. F[i] = F[j] /\ i # j
            BY <2>1
          <6>3. QED
            BY <6>1, <6>2
        <5>2. QED
          BY <1>1, <3>2, <4>2, <5>1 DEF IsChained, Distinct
      <4>3. ASSUME NEW h \in 1..N, j = h + 1, h > p PROVE FALSE
        <5>1. E[i] = E[h] /\ i # h
          BY <1>4, <1>10, <1>11, <2>1, <3>2, <4>3
        <5>2. QED
          BY <1>1, <3>2, <5>1 DEF IsChained, Distinct
      <4>4. QED
        BY <1>12, <4>1, <4>2, <4>3
    <3>3. ASSUME NEW h \in 1..N, i = h + 1, h > p PROVE FALSE
      <4>1. PICK m \in 1..N : j = m + 1 /\ m > p
        BY <1>4, <1>12, <2>1, <3>3
      <4>2. E[h] = E[m] /\ h # m
        BY <1>11, <2>1, <3>3, <4>1
      <4>3. QED
        BY <1>1, <4>2 DEF IsChained, Distinct
    <3>4. QED
      BY <1>12, <3>1, <3>2, <3>3
  <2>2. \A i, j \in 1..(N + 1) : i < j \/ j < i \/ i = j
    OBVIOUS
  <2>3. QED
    BY <1>6, <2>1, <2>2 DEF Distinct
<1>15. ASSUME NEW i \in 1..(N + 1), NEW j \in 1..(N + 1), i <= j
       PROVE  d[i] <= d[j]
  <2>1. CASE i = p + 1
    <3>1. j = p + 1 \/ \E h \in 1..N : j = h + 1 /\ h > p
      BY <1>4, <1>12, <1>15, <2>1
    <3>2. CASE j = p + 1
      BY <1>4, <1>9, <2>1, <3>2
    <3>3. ASSUME NEW h \in 1..N, j = h + 1, h > p PROVE b <= c[h]
      BY <1>2, <1>4, <3>3
    <3>4. QED
      BY <1>9, <1>11, <2>1, <3>1, <3>2, <3>3
  <2>2. CASE i <= p /\ i \in 1..N
    <3>1. d[i] = c[i] /\ c[i] < b /\ c[i] \in Nat
      BY <1>2, <1>4, <1>10, <2>2
    <3>2. CASE j = p + 1
      BY <1>4, <1>9, <3>1, <3>2
    <3>3. CASE j <= p /\ j \in 1..N
      BY <1>3, <1>10, <1>15, <2>2, <3>1, <3>3
    <3>4. ASSUME NEW h \in 1..N, j = h + 1, h > p PROVE c[i] <= d[j]
      <4>1. i <= h
        BY <1>4, <2>2, <3>4
      <4>2. QED
        BY <1>3, <1>11, <2>2, <3>4, <4>1
    <3>5. QED
      BY <1>12, <3>1, <3>2, <3>3, <3>4
  <2>3. ASSUME NEW h \in 1..N, i = h + 1, h > p PROVE d[i] <= d[j]
    <3>1. PICK m \in 1..N : j = m + 1 /\ m > p
      BY <1>4, <1>12, <1>15, <2>3
    <3>2. h <= m
      BY <1>15, <2>3, <3>1
    <3>3. QED
      BY <1>3, <1>11, <2>3, <3>1, <3>2
  <2>4. QED
    BY <1>12, <2>1, <2>2, <2>3
<1>16. PICK fj : fj = [fi EXCEPT ![b] = n]
  OBVIOUS
<1>17. /\ fj \in [Bucket -> MapNode \cup {Null}] /\ fj[b] = n
       /\ \A a \in Bucket : a # b => fj[a] = fi[a]
  BY <1>16 DEF IsChained
<1>18. ASSUME NEW a \in Bucket PROVE LeadsBucket(F, d, fj, a)
  <2>1. CASE a = b
    <3>1. ASSUME NEW j \in 1..((p + 1) - 1) PROVE d[j] # b
      <4>1. j <= p /\ j \in 1..N
        BY <1>4
      <4>2. d[j] = c[j] /\ c[j] < b /\ c[j] \in Nat
        BY <1>2, <1>4, <1>10, <4>1
      <4>3. QED
        BY <1>4, <4>2
    <3>2. QED
      BY <1>6, <1>9, <1>17, <2>1, <3>1 DEF LeadsBucket
  <2>2. CASE a # b
    <3>1. LeadsBucket(E, c, fi, a) /\ fj[a] = fi[a]
      BY <1>17, <2>2 DEF IsChained
    <3>2. CASE fi[a] = Null /\ \A i \in 1..N : c[i] # a
      <4>1. ASSUME NEW i \in 1..(N + 1) PROVE d[i] # a
        <5>1. CASE i = p + 1
          BY <1>9, <2>2, <5>1
        <5>2. CASE i <= p /\ i \in 1..N
          BY <1>10, <3>2, <5>2
        <5>3. ASSUME NEW h \in 1..N, i = h + 1, h > p PROVE d[i] # a
          BY <1>11, <3>2, <5>3
        <5>4. QED
          BY <1>12, <5>1, <5>2, <5>3
      <4>2. QED
        BY <1>6, <3>1, <3>2, <4>1 DEF LeadsBucket
    <3>3. CASE \E i \in 1..N : fi[a] = E[i] /\ c[i] = a /\ \A j \in 1..(i - 1) : c[j] # a
      <4>1. PICK i \in 1..N : fi[a] = E[i] /\ c[i] = a /\ \A j \in 1..(i - 1) : c[j] # a
        BY <3>3
      <4>2. CASE i <= p
        <5>1. ASSUME NEW j \in 1..(i - 1) PROVE d[j] # a
          <6>1. j \in 1..N /\ j <= p
            BY <1>4, <4>2
          <6>2. QED
            BY <1>10, <4>1, <6>1
        <5>2. QED
          BY <1>6, <1>10, <3>1, <4>1, <4>2, <5>1 DEF LeadsBucket
      <4>3. CASE i > p
        <5>1. ASSUME NEW j \in 1..((i + 1) - 1) PROVE d[j] # a
          <6>1. j \in 1..(N + 1) /\ j <= i
            OBVIOUS
          <6>2. CASE j = p + 1
            BY <1>9, <2>2, <6>2
          <6>3. CASE j <= p /\ j \in 1..N
            <7>1. j \in 1..(i - 1)
              BY <1>4, <4>3, <6>3
            <7>2. QED
              BY <1>10, <4>1, <6>3, <7>1
          <6>4. ASSUME NEW h \in 1..N, j = h + 1, h > p PROVE d[j] # a
            <7>1. h \in 1..(i - 1)
              BY <6>1, <6>4
            <7>2. QED
              BY <1>11, <4>1, <6>4, <7>1
          <6>5. QED
            BY <1>12, <6>1, <6>2, <6>3, <6>4
        <5>2. i + 1 \in 1..(N + 1) /\ F[i + 1] = E[i] /\ d[i + 1] = c[i]
          BY <1>11, <4>3
        <5>3. QED
          BY <1>6, <3>1, <4>1, <5>1, <5>2 DEF LeadsBucket
      <4>4. QED
        BY <1>4, <4>2, <4>3
    <3>4. QED
      BY <1>1, <3>1, <3>2, <3>3 DEF LeadsBucket
  <2>3. QED
    BY <2>1, <2>2
<1>19. PICK nn : nn = [nx EXCEPT ![n] = fi[b]]
  OBVIOUS
<1>20. /\ nn \in [MapNode -> MapNode \cup {Null}] /\ nn[n] = fi[b]
       /\ \A m \in MapNode : m # n => nn[m] = nx[m]
  BY <1>19 DEF IsChained
<1>21. \A i \in 1..N : nn[E[i]] = IF i < N /\ c[i + 1] = c[i] THEN E[i + 1] ELSE Null
  <2>1. \A i \in 1..N : nx[E[i]] = IF i < N /\ c[i + 1] = c[i] THEN E[i + 1] ELSE Null
    BY <1>1 DEF IsChained
  <2>2. QED
    BY <1>2, <1>8, <1>20, <2>1
<1>22. fi[b] = IF p < N /\ c[p + 1] = b THEN E[p + 1] ELSE Null
  <2>1. PICK u, q \in 0..Len(E) :
              /\ u <= q
              /\ \A i \in 1..Len(E) : i <= u <=> c[i] < b
              /\ \A i \in 1..Len(E) : c[i] = b <=> u < i /\ i <= q
              /\ fi[b] = IF u < q THEN E[u + 1] ELSE Null
    BY BucketSpan
  <2>2. u = p
    <3>1. u \in Nat /\ u <= N /\ \A i \in 1..N : i <= u <=> i <= p
      BY <1>1, <1>4, <2>1
    <3>2. u > 0 => u \in 1..N /\ u <= p
      BY <3>1
    <3>3. p > 0 => p \in 1..N /\ p <= u
      BY <1>4, <3>1
    <3>4. QED
      BY <1>4, <3>1, <3>2, <3>3
  <2>3. p < q <=> p < N /\ c[p + 1] = b
    <3>1. q \in Nat /\ q <= N
      BY <1>1, <2>1
    <3>2. p < N => p + 1 \in 1..N
      BY <1>4
    <3>3. p < N => (c[p + 1] = b <=> p + 1 <= q)
      BY <1>1, <1>4, <2>1, <2>2, <3>2
    <3>4. QED
      BY <1>4, <3>1, <3>3
  <2>4. QED
    BY <2>1, <2>2, <2>3
<1>23. ASSUME NEW i \in 1..(N + 1)
       PROVE  nn[F[i]] = IF i < N + 1 /\ d[i + 1] = d[i] THEN F[i + 1] ELSE Null
  <2>1. CASE i = p + 1
    <3>1. CASE p < N
      <4>1. p + 1 \in 1..N /\ p + 1 > p /\ (p + 1) + 1 = i + 1 /\ i < N + 1
        BY <1>4, <2>1, <3>1
      <4>2. F[i + 1] = E[p + 1] /\ d[i + 1] = c[p + 1]
        BY <1>11, <4>1
      <4>3. QED
        BY <1>9, <1>20, <1>22, <2>1, <3>1, <4>1, <4>2
    <3>2. CASE ~(p < N)
      <4>1. ~(i < N + 1)
        BY <1>4, <2>1, <3>2
      <4>2. QED
        BY <1>9, <1>20, <1>22, <2>1, <3>2, <4>1
    <3>3. QED
      BY <3>1, <3>2
  <2>2. CASE i <= p /\ i \in 1..N
    <3>1. F[i] = E[i] /\ d[i] = c[i] /\ c[i] < b /\ c[i] \in Nat /\ i < N + 1
      BY <1>2, <1>4, <1>10, <2>2
    <3>2. CASE i < p
      <4>1. i + 1 <= p /\ i + 1 \in 1..N /\ i < N
        BY <1>4, <2>2, <3>2
      <4>2. F[i + 1] = E[i + 1] /\ d[i + 1] = c[i + 1]
        BY <1>10, <4>1
      <4>3. QED
        BY <1>21, <2>2, <3>1, <4>1, <4>2
    <3>3. CASE i = p
      <4>1. d[i + 1] = b /\ d[i] # b
        BY <1>4, <1>9, <3>1, <3>3
      <4>2. ~(i < N /\ c[i + 1] = c[i])
        <5>1. SUFFICES ASSUME i < N, c[i + 1] = c[i] PROVE FALSE
          OBVIOUS
        <5>2. i + 1 \in 1..N /\ ~(i + 1 <= p)
          BY <1>4, <2>2, <3>3, <5>1
        <5>3. ~(c[i + 1] < b)
          BY <1>4, <5>2
        <5>4. QED
          BY <3>1, <5>1, <5>3
      <4>3. QED
        BY <1>21, <2>2, <3>1, <4>1, <4>2
    <3>4. QED
      BY <1>4, <2>2, <3>2, <3>3
  <2>3. ASSUME NEW h \in 1..N, i = h + 1, h > p
        PROVE  nn[F[i]] = IF i < N + 1 /\ d[i + 1] = d[i] THEN F[i + 1] ELSE Null
    <3>1. F[i] = E[h] /\ d[i] = c[h] /\ (i < N + 1 <=> h < N)
      BY <1>11, <2>3
    <3>2. CASE h < N
      <4>1. h + 1 \in 1..N /\ h + 1 > p /\ (h + 1) + 1 = i + 1
        BY <1>4, <2>3, <3>2
      <4>2. F[i + 1] = E[h + 1] /\ d[i + 1] = c[h + 1]
        BY <1>11, <4>1
      <4>3. QED
        BY <1>21, <3>1, <3>2, <4>2
    <3>3. CASE ~(h < N)
      BY <1>21, <3>1, <3>3
    <3>4. QED
      BY <3>2, <3>3
  <2>4. QED
    BY <1>12, <2>1, <2>2, <2>3
<1>24. Elements(F) = Elements(E) \cup {n}
  <2>1. \A i \in 1..(N + 1) : F[i] \in Elements(E) \cup {n}
    <3>1. ASSUME NEW i \in 1..(N + 1) PROVE F[i] \in Elements(E) \cup {n}
      <4>1. \A h \in 1..N : E[h] \in Elements(E)
        BY <1>1 DEF Elements
      <4>2. CASE i = p + 1
        BY <1>9, <4>2
      <4>3. CASE i <= p /\ i \in 1..N
        BY <1>10, <4>1, <4>3
      <4>4. ASSUME NEW h \in 1..N, i = h + 1, h > p
            PROVE  F[i] \in Elements(E) \cup {n}
        BY <1>11, <4>1, <4>4
      <4>5. QED
        BY <1>12, <4>2, <4>3, <4>4
    <3>2. QED
      BY <3>1
  <2>2. \A i \in 1..N : E[i] \in Elements(F)
    <3> SUFFICES ASSUME NEW i \in 1..N PROVE E[i] \in Elements(F)
      OBVIOUS
    <3>1. \A j \in 1..(N + 1) : F[j] \in Elements(F)
      BY <1>6 DEF Elements
    <3>2. CASE i <= p
      <4>1. i \in 1..(N + 1) /\ F[i] = E[i]
        BY <1>4, <1>10, <3>2
      <4>2. QED
        BY <3>1, <4>1
    <3>3. CASE i > p
      <4>1. i + 1 \in 1..(N + 1) /\ F[i + 1] = E[i]
        BY <1>4, <1>11, <3>3
      <4>2. QED
        BY <3>1, <4>1
    <3>4. QED
      BY <1>4, <3>2, <3>3
  <2>3. n \in Elements(F)
    BY <1>6, <1>9 DEF Elements
  <2>4. QED
    BY <1>1, <1>6, <2>1, <2>2, <2>3 DEF Elements
<1>25. IsChained(F, d, fj, nn)
  BY <1>6, <1>13, <1>14, <1>15, <1>17, <1>18, <1>20, <1>23 DEF IsChained
<1>26. QED
  BY <1>1, <1>5, <1>16, <1>19, <1>24, <1>25

(* An entry that leaves its chain.                                           *)
WithoutEntry(nx, n) == [m \in MapNode |-> IF m = n THEN Null ELSE IF nx[m] = n THEN nx[n] ELSE nx[m]]
WithoutFirst(fi, nx, n) == [b \in Bucket |-> IF fi[b] = n THEN nx[n] ELSE fi[b]]

LEMMA RemoveChained ==
    ASSUME NEW E, NEW c, NEW fi, NEW nx, IsChained(E, c, fi, nx),
           NEW p \in 1..Len(E), NEW F, IsRemoved(F, MapNode, E, p)
    PROVE  /\ IsChained(F, WithoutBucket(c, Len(E), p),
                        WithoutFirst(fi, nx, E[p]), WithoutEntry(nx, E[p]))
           /\ Elements(F) = Elements(E) \ {E[p]}
<1>1. PICK N \in Nat : N = Len(E) /\ DOMAIN E = 1..N /\ c \in [1..N -> Nat]
  BY ChainFacts
<1>2. \A i \in 1..N : E[i] \in MapNode /\ E[i] # Null /\ c[i] \in Bucket /\ c[i] \in Nat
  BY <1>1, ChainFacts
<1>3. \A i, j \in 1..N : i <= j => c[i] <= c[j]
  BY <1>1 DEF IsChained
<1>4. p \in 1..N /\ p \in Nat /\ 1 <= p /\ p <= N
  BY <1>1
<1>5. PICK n, b, d : n = E[p] /\ b = c[p] /\ d = WithoutBucket(c, N, p)
  OBVIOUS
<1>6. /\ F \in Seq(MapNode) /\ Len(F) = N - 1 /\ DOMAIN F = 1..(N - 1)
      /\ \A i \in 1..(N - 1) : F[i] = IF i < p THEN E[i] ELSE E[i + 1]
  <2>1. /\ F \in Seq(MapNode) /\ Len(F) = N - 1
        /\ \A i \in 1..(N - 1) : F[i] = IF i < p THEN E[i] ELSE E[i + 1]
    BY <1>1 DEF IsRemoved
  <2>2. DOMAIN F = 1..Len(F)
    BY <2>1, LenProperties
  <2>3. QED
    BY <2>1, <2>2
<1>7. \A i \in 1..(N - 1) : d[i] = IF i < p THEN c[i] ELSE c[i + 1]
  BY <1>5 DEF WithoutBucket
<1>8. \A i, j \in 1..N : E[i] = E[j] => i = j
  BY <1>1 DEF IsChained, Distinct
(* Each place of the new order was a place of the old one, and keeps its order. *)
<1>9. ASSUME NEW i \in 1..(N - 1)
      PROVE  \/ i < p /\ i \in 1..N /\ F[i] = E[i] /\ d[i] = c[i]
             \/ i >= p /\ i + 1 \in 1..N /\ F[i] = E[i + 1] /\ d[i] = c[i + 1]
  <2>1. CASE i < p
    BY <1>6, <1>7, <2>1
  <2>2. CASE ~(i < p)
    <3>1. i >= p /\ i + 1 \in 1..N
      BY <1>4, <2>2
    <3>2. QED
      BY <1>6, <1>7, <2>2, <3>1
  <2>3. QED
    BY <2>1, <2>2
<1>10. ASSUME NEW i \in 1..N, i < p PROVE i \in 1..(N - 1) /\ F[i] = E[i] /\ d[i] = c[i]
  <2>1. i \in 1..(N - 1)
    BY <1>4, <1>10
  <2>2. QED
    BY <1>6, <1>7, <1>10, <2>1
<1>11. ASSUME NEW i \in 1..N, i > p
       PROVE  i - 1 \in 1..(N - 1) /\ F[i - 1] = E[i] /\ d[i - 1] = c[i]
  <2>1. i - 1 \in 1..(N - 1) /\ ~(i - 1 < p) /\ (i - 1) + 1 = i
    BY <1>4, <1>11
  <2>2. QED
    BY <1>6, <1>7, <2>1
<1>12. \A i \in 1..(N - 1) :
          \E h \in 1..N : /\ h # p /\ F[i] = E[h] /\ d[i] = c[h]
                          /\ (h < p => h = i) /\ (h > p => h = i + 1)
  <2>1. ASSUME NEW i \in 1..(N - 1)
        PROVE \E h \in 1..N : /\ h # p /\ F[i] = E[h] /\ d[i] = c[h]
                              /\ (h < p => h = i) /\ (h > p => h = i + 1)
    <3>1. CASE i < p /\ i \in 1..N /\ F[i] = E[i] /\ d[i] = c[i]
      <4>1. i # p /\ ~(i > p)
        BY <1>4, <3>1
      <4>2. QED
        BY <3>1, <4>1
    <3>2. CASE i >= p /\ i + 1 \in 1..N /\ F[i] = E[i + 1] /\ d[i] = c[i + 1]
      <4>1. i + 1 # p /\ ~(i + 1 < p)
        BY <1>4, <3>2
      <4>2. QED
        BY <3>2, <4>1
    <3>3. QED
      BY <1>9, <3>1, <3>2
  <2>2. QED
    BY <2>1
<1>13. d \in [1..(N - 1) -> Bucket]
  <2>1. \A i \in 1..(N - 1) : d[i] \in Bucket
    BY <1>2, <1>12
  <2>2. d = [i \in 1..(N - 1) |-> d[i]]
    BY <1>5 DEF WithoutBucket
  <2>3. QED
    BY <2>1, <2>2
<1>14. Distinct(F)
  <2>1. ASSUME NEW i \in 1..(N - 1), NEW j \in 1..(N - 1), F[i] = F[j] PROVE i = j
    <3>1. PICK h \in 1..N : h # p /\ F[i] = E[h] /\ (h < p => h = i) /\ (h > p => h = i + 1)
      BY <1>12
    <3>2. PICK m \in 1..N : m # p /\ F[j] = E[m] /\ (m < p => m = j) /\ (m > p => m = j + 1)
      BY <1>12
    <3>3. h = m
      BY <1>8, <2>1, <3>1, <3>2
    <3>4. QED
      BY <1>4, <3>1, <3>2, <3>3
  <2>2. QED
    BY <1>6, <2>1 DEF Distinct
<1>15. ASSUME NEW i \in 1..(N - 1), NEW j \in 1..(N - 1), i <= j
       PROVE  d[i] <= d[j]
  <2>1. PICK h \in 1..N : h # p /\ d[i] = c[h] /\ (h < p => h = i) /\ (h > p => h = i + 1)
    BY <1>12
  <2>2. PICK m \in 1..N : m # p /\ d[j] = c[m] /\ (m < p => m = j) /\ (m > p => m = j + 1)
    BY <1>12
  <2>3. h <= m
    BY <1>4, <1>15, <2>1, <2>2
  <2>4. QED
    BY <1>3, <2>1, <2>2, <2>3
<1>16. PICK nn : nn = WithoutEntry(nx, n)
  OBVIOUS
<1>17. \A i \in 1..N : nx[E[i]] = IF i < N /\ c[i + 1] = c[i] THEN E[i + 1] ELSE Null
  BY <1>1 DEF IsChained
<1>18. /\ nn \in [MapNode -> MapNode \cup {Null}] /\ n \in MapNode /\ n # Null
       /\ nx \in [MapNode -> MapNode \cup {Null}]
       /\ \A m \in MapNode : m # n => nn[m] = IF nx[m] = n THEN nx[n] ELSE nx[m]
  <2>1. n \in MapNode /\ n # Null /\ nx \in [MapNode -> MapNode \cup {Null}]
    BY <1>2, <1>4, <1>5 DEF IsChained
  <2>2. QED
    BY <1>16, <2>1 DEF WithoutEntry
<1>19. PICK fj : fj = WithoutFirst(fi, nx, n)
  OBVIOUS
<1>20. /\ fj \in [Bucket -> MapNode \cup {Null}]
       /\ \A a \in Bucket : fj[a] = IF fi[a] = n THEN nx[n] ELSE fi[a]
  <2>1. fi \in [Bucket -> MapNode \cup {Null}]
    BY DEF IsChained
  <2>2. QED
    BY <1>18, <1>19, <2>1 DEF WithoutFirst
<1>21. ASSUME NEW a \in Bucket PROVE LeadsBucket(F, d, fj, a)
  <2>1. LeadsBucket(E, c, fi, a)
    BY DEF IsChained
  <2>2. CASE fi[a] = Null /\ \A i \in 1..N : c[i] # a
    <3>1. \A i \in 1..(N - 1) : d[i] # a
      BY <1>12, <2>2
    <3>2. fj[a] = Null
      BY <1>18, <1>20, <2>2
    <3>3. QED
      BY <1>6, <3>1, <3>2 DEF LeadsBucket
  <2>3. ASSUME NEW i \in 1..N, fi[a] = E[i], c[i] = a, \A j \in 1..(i - 1) : c[j] # a
        PROVE  LeadsBucket(F, d, fj, a)
    <3>1. CASE i < p
      <4>1. E[i] # n
        BY <1>4, <1>5, <1>8, <3>1
      <4>2. fj[a] = E[i]
        BY <1>20, <2>3, <4>1
      <4>3. ASSUME NEW j \in 1..(i - 1) PROVE d[j] # a
        <5>1. j \in 1..N /\ j < p
          BY <1>4, <3>1
        <5>2. QED
          BY <1>10, <2>3, <5>1
      <4>4. i \in 1..(N - 1) /\ F[i] = E[i] /\ d[i] = c[i]
        BY <1>10, <3>1
      <4>5. QED
        BY <1>6, <2>3, <4>2, <4>3, <4>4 DEF LeadsBucket
    <3>2. CASE i > p
      <4>1. E[i] # n
        BY <1>4, <1>5, <1>8, <3>2
      <4>2. fj[a] = E[i]
        BY <1>20, <2>3, <4>1
      <4>3. ASSUME NEW j \in 1..((i - 1) - 1) PROVE d[j] # a
        <5>1. j \in 1..(N - 1) /\ j \in Nat /\ j < i - 1
          BY <1>4, <3>2
        <5>2. PICK h \in 1..N : h # p /\ d[j] = c[h] /\ (h < p => h = j) /\ (h > p => h = j + 1)
          BY <1>12, <5>1
        <5>3. h \in 1..(i - 1)
          BY <1>4, <5>1, <5>2
        <5>4. QED
          BY <2>3, <5>2, <5>3
      <4>4. i - 1 \in 1..(N - 1) /\ F[i - 1] = E[i] /\ d[i - 1] = c[i]
        BY <1>11, <3>2
      <4>5. QED
        BY <1>6, <2>3, <4>2, <4>3, <4>4 DEF LeadsBucket
    <3>3. CASE i = p
      <4>1. a = b /\ fi[a] = n /\ fj[a] = nx[n]
        BY <1>5, <1>20, <2>3, <3>3
      <4>2. ASSUME NEW j \in 1..(p - 1) PROVE d[j] # a
        <5>1. j \in 1..N /\ j < p
          BY <1>4
        <5>2. QED
          BY <1>10, <2>3, <3>3, <5>1
      <4>3. CASE p < N /\ c[p + 1] = b
        <5>1. p + 1 \in 1..N /\ p + 1 > p /\ (p + 1) - 1 = p
          BY <1>4, <4>3
        <5>2. p \in 1..(N - 1) /\ F[p] = E[p + 1] /\ d[p] = b
          BY <1>11, <4>3, <5>1
        <5>3. nx[n] = E[p + 1]
          BY <1>4, <1>5, <1>17, <4>3
        <5>4. QED
          BY <1>6, <4>1, <4>2, <5>2, <5>3 DEF LeadsBucket
      <4>4. CASE ~(p < N /\ c[p + 1] = b)
        <5>1. nx[n] = Null
          BY <1>4, <1>5, <1>17, <4>4
        <5>2. ASSUME NEW h \in 1..N, h > p PROVE c[h] # b
          <6>1. p + 1 \in 1..N /\ p < N /\ p + 1 <= h
            BY <1>4, <5>2
          <6>2. c[p] <= c[p + 1] /\ c[p + 1] <= c[h] /\ c[p + 1] # b
            BY <1>3, <1>4, <4>4, <6>1
          <6>3. c[p] \in Nat /\ c[p + 1] \in Nat /\ c[h] \in Nat
            BY <1>2, <1>4, <6>1
          <6>4. QED
            BY <1>5, <6>2, <6>3
        <5>3. ASSUME NEW j \in 1..(N - 1) PROVE d[j] # a
          <6>1. PICK h \in 1..N : h # p /\ d[j] = c[h] /\ (h < p => h = j) /\ (h > p => h = j + 1)
            BY <1>12
          <6>2. CASE h < p
            <7>1. j \in 1..(p - 1)
              BY <1>4, <6>1, <6>2
            <7>2. QED
              BY <4>2, <7>1
          <6>3. CASE h > p
            BY <4>1, <5>2, <6>1, <6>3
          <6>4. QED
            BY <1>4, <6>1, <6>2, <6>3
        <5>4. QED
          BY <1>6, <4>1, <5>1, <5>3 DEF LeadsBucket
      <4>5. QED
        BY <4>3, <4>4
    <3>4. QED
      BY <1>4, <3>1, <3>2, <3>3
  <2>4. QED
    BY <1>1, <2>1, <2>2, <2>3 DEF LeadsBucket
<1>22. ASSUME NEW i \in 1..(N - 1)
       PROVE  nn[F[i]] = IF i < N - 1 /\ d[i + 1] = d[i] THEN F[i + 1] ELSE Null
  <2>1. PICK h \in 1..N : /\ h # p /\ F[i] = E[h] /\ d[i] = c[h]
                          /\ (h < p => h = i) /\ (h > p => h = i + 1)
    BY <1>12
  <2>2. E[h] \in MapNode /\ E[h] # n
    BY <1>2, <1>4, <1>5, <1>8, <2>1
  <2>3. nn[F[i]] = IF nx[E[h]] = n THEN nx[n] ELSE nx[E[h]]
    BY <1>18, <2>1, <2>2
  <2>4. nx[E[h]] = IF h < N /\ c[h + 1] = c[h] THEN E[h + 1] ELSE Null
    BY <1>17
  <2>5. CASE h + 1 = p
    <3>1. h = i /\ h < N /\ E[h + 1] = n
      BY <1>4, <1>5, <2>1, <2>5
    <3>2. CASE p < N
      <4>1. p + 1 \in 1..N /\ p + 1 > p /\ (p + 1) - 1 = p /\ i + 1 = p /\ i < N - 1
        BY <1>4, <2>5, <3>1, <3>2
      <4>2. F[i + 1] = E[p + 1] /\ d[i + 1] = c[p + 1]
        BY <1>11, <4>1
      <4>3. nx[n] = IF c[p + 1] = c[p] THEN E[p + 1] ELSE Null
        BY <1>4, <1>5, <1>17, <3>2
      <4>4. c[h] <= c[p] /\ c[p] <= c[p + 1] /\ c[h] \in Nat /\ c[p] \in Nat /\ c[p + 1] \in Nat
        <5>1. h <= p /\ p <= p + 1
          BY <1>4, <2>5
        <5>2. QED
          BY <1>2, <1>3, <1>4, <4>1, <5>1
      <4>5. CASE c[p] = c[h]
        <5>1. nx[E[h]] = n
          BY <2>4, <2>5, <3>1, <4>5
        <5>2. QED
          BY <2>1, <2>3, <4>1, <4>2, <4>3, <4>5, <5>1
      <4>6. CASE c[p] # c[h]
        <5>1. nx[E[h]] = Null
          BY <2>4, <2>5, <4>6
        <5>2. c[p + 1] # c[h]
          BY <4>4, <4>6
        <5>3. QED
          BY <1>18, <2>1, <2>3, <4>2, <5>1, <5>2
      <4>7. QED
        BY <4>5, <4>6
    <3>3. CASE ~(p < N)
      <4>1. ~(i < N - 1)
        BY <1>4, <2>5, <3>1, <3>3
      <4>2. nx[n] = Null
        BY <1>4, <1>5, <1>17, <3>3
      <4>3. nx[E[h]] = n \/ nx[E[h]] = Null
        BY <2>4, <3>1
      <4>4. QED
        BY <1>18, <2>3, <4>1, <4>2, <4>3
    <3>4. QED
      BY <3>2, <3>3
  <2>6. CASE h + 1 # p
    <3>1. CASE h < N
      <4>1. h + 1 \in 1..N
        BY <3>1
      <4>2. E[h + 1] # n
        BY <1>4, <1>5, <1>8, <2>6, <4>1
      <4>3. nn[F[i]] = nx[E[h]]
        BY <1>18, <2>3, <2>4, <4>2
      <4>4. i < N - 1 /\ i + 1 \in 1..(N - 1) /\ F[i + 1] = E[h + 1] /\ d[i + 1] = c[h + 1]
        <5>1. CASE h < p
          <6>1. h = i /\ h + 1 < p /\ i + 1 = h + 1
            BY <1>4, <2>1, <2>6, <5>1
          <6>2. h + 1 \in 1..(N - 1) /\ F[h + 1] = E[h + 1] /\ d[h + 1] = c[h + 1]
            BY <1>10, <4>1, <6>1
          <6>3. QED
            BY <1>4, <6>1, <6>2
        <5>2. CASE h > p
          <6>1. h = i + 1 /\ h + 1 > p /\ (h + 1) - 1 = i + 1
            BY <1>4, <2>1, <5>2
          <6>2. i + 1 \in 1..(N - 1) /\ F[i + 1] = E[h + 1] /\ d[i + 1] = c[h + 1]
            BY <1>11, <4>1, <6>1
          <6>3. QED
            BY <1>4, <3>1, <6>1, <6>2
        <5>3. QED
          BY <1>4, <2>1, <5>1, <5>2
      <4>5. QED
        BY <2>1, <2>4, <3>1, <4>3, <4>4
    <3>2. CASE ~(h < N)
      <4>1. h = N /\ h > p
        BY <1>4, <2>1, <3>2
      <4>2. ~(i < N - 1)
        BY <2>1, <4>1
      <4>3. QED
        BY <1>18, <2>3, <2>4, <3>2, <4>2
    <3>3. QED
      BY <3>1, <3>2
  <2>7. QED
    BY <2>5, <2>6
<1>23. Elements(F) = Elements(E) \ {n}
  <2>1. \A i \in 1..(N - 1) : F[i] \in Elements(E) /\ F[i] # n
    <3>1. ASSUME NEW i \in 1..(N - 1) PROVE F[i] \in Elements(E) /\ F[i] # n
      <4>1. PICK h \in 1..N : h # p /\ F[i] = E[h]
        BY <1>12
      <4>2. QED
        BY <1>1, <1>4, <1>5, <1>8, <4>1 DEF Elements
    <3>2. QED
      BY <3>1
  <2>2. \A i \in 1..N : E[i] # n => E[i] \in Elements(F)
    <3>1. ASSUME NEW i \in 1..N, E[i] # n PROVE E[i] \in Elements(F)
      <4>1. CASE i < p
        BY <1>6, <1>10, <4>1 DEF Elements
      <4>2. CASE i > p
        BY <1>6, <1>11, <4>2 DEF Elements
      <4>3. i # p
        BY <1>5, <3>1
      <4>4. QED
        BY <1>4, <4>1, <4>2, <4>3
    <3>2. QED
      BY <3>1
  <2>3. QED
    BY SMTT(60), <1>1, <1>6, <2>1, <2>2 DEF Elements
<1>24. IsChained(F, d, fj, nn)
  BY <1>6, <1>13, <1>14, <1>15, <1>18, <1>20, <1>21, <1>22 DEF IsChained
<1>25. QED
  BY <1>1, <1>5, <1>16, <1>19, <1>23, <1>24
-----------------------------------------------------------------------------
(* Each operation as a step of the map.                                      *)
EntriesSeen ==
    \A E, c : IsChained(E, c, first, hnext) /\ BeginsAt(E, c, map_begin) => Entries = E

LEMMA EntriesAreSeen == EntriesSeen
  BY EntriesIs DEF EntriesSeen

(* A new entry with a key: begin moves to it if it comes before the others.    *)
LEMMA InsertKeyed ==
    ASSUME NEW E, NEW c, IsChained(E, c, first, hnext), IsKeyed(E, c, key_of),
           NEW n \in MapNode, n \notin Elements(E), NEW k \in MapKey, NEW p \in 0..Len(E),
           NEW F, IsInserted(F, MapNode, E, p, n), Elements(F) = Elements(E) \cup {n}
    PROVE  IsKeyed(F, WithBucket(c, Len(E), p, BucketOf[k]), [key_of EXCEPT ![n] = k])
<1>1. PICK N \in Nat : N = Len(E) /\ DOMAIN E = 1..N
  BY ChainFacts
<1>2. PICK d, b, K : /\ d = WithBucket(c, N, p, BucketOf[k]) /\ b = BucketOf[k]
                     /\ K = [key_of EXCEPT ![n] = k]
  OBVIOUS
<1>3. /\ K \in [MapNode -> MapKey \cup {Null}] /\ K[n] = k /\ k # Null
      /\ \A m \in MapNode : m # n => K[m] = key_of[m]
  BY <1>2, MapBounds DEF IsKeyed
<1>4. \A m \in MapNode : K[m] # Null <=> m \in Elements(F)
  BY <1>3 DEF IsKeyed
<1>5. p \in Nat /\ p <= N
  BY <1>1
<1>6. \A i \in 1..N : /\ E[i] \in MapNode /\ E[i] # n
                      /\ key_of[E[i]] \in MapKey /\ BucketOf[key_of[E[i]]] = c[i]
  <2>1. \A i \in 1..N : E[i] \in MapNode
    BY <1>1, ChainFacts
  <2>2. QED
    BY <1>1, <2>1 DEF IsKeyed, Elements
<1>7. ASSUME NEW i \in 1..(N + 1) PROVE K[F[i]] \in MapKey /\ BucketOf[K[F[i]]] = d[i]
  <2>1. /\ F[i] = IF i <= p THEN E[i] ELSE IF i = p + 1 THEN n ELSE E[i - 1]
        /\ d[i] = IF i <= p THEN c[i] ELSE IF i = p + 1 THEN b ELSE c[i - 1]
    BY <1>1, <1>2 DEF IsInserted, WithBucket
  <2>2. CASE i <= p
    <3>1. i \in 1..N
      BY <1>5, <2>2
    <3>2. QED
      BY <1>3, <1>6, <2>1, <2>2, <3>1
  <2>3. CASE i = p + 1
    <3>1. ~(i <= p)
      BY <1>5, <2>3
    <3>2. QED
      BY <1>2, <1>3, <2>1, <2>3, <3>1
  <2>4. CASE ~(i <= p) /\ i # p + 1
    <3>1. i - 1 \in 1..N
      BY <1>5, <2>4
    <3>2. QED
      BY <1>3, <1>6, <2>1, <2>4, <3>1
  <2>5. QED
    BY <2>2, <2>3, <2>4
<1>8. Len(F) = N + 1
  BY <1>1 DEF IsInserted
<1>9. IsKeyed(F, d, K)
  BY <1>3, <1>4, <1>7, <1>8 DEF IsKeyed
<1>10. QED
  BY <1>1, <1>2, <1>9

LEMMA InsertBegins ==
    ASSUME NEW E, NEW c, IsChained(E, c, first, hnext), BeginsAt(E, c, map_begin),
           NEW n \in MapNode, NEW b \in Bucket,
           NEW p \in 0..Len(E), \A i \in 1..Len(E) : i <= p <=> c[i] < b,
           NEW F, IsInserted(F, MapNode, E, p, n)
    PROVE  BeginsAt(F, WithBucket(c, Len(E), p, b), BeginAfterInsert(n, b))
<1>1. PICK N \in Nat : N = Len(E) /\ (E = << >> <=> N = 0)
  BY ChainFacts
<1>2. PICK d : d = WithBucket(c, N, p, b)
  OBVIOUS
<1>3. p \in Nat /\ p <= N /\ b \in Nat /\ \A i \in 1..N : i <= p <=> c[i] < b
  BY <1>1, MapBounds
<1>4. 1 \in 1..(N + 1)
  OBVIOUS
<1>5. F # << >> /\ F[1] = (IF 1 <= p THEN E[1] ELSE n) /\ d[1] = (IF 1 <= p THEN c[1] ELSE b)
  <2>1. Len(F) = N + 1 /\ F \in Seq(MapNode)
    BY <1>1 DEF IsInserted
  <2>2. /\ F[1] = IF 1 <= p THEN E[1] ELSE IF 1 = p + 1 THEN n ELSE E[1 - 1]
        /\ d[1] = IF 1 <= p THEN c[1] ELSE IF 1 = p + 1 THEN b ELSE c[1 - 1]
    BY <1>1, <1>2, <1>4 DEF IsInserted, WithBucket
  <2>3. ~(1 <= p) => 1 = p + 1
    BY <1>3
  <2>4. F # << >>
    BY <2>1, EmptySeq
  <2>5. QED
    BY <2>2, <2>3, <2>4
<1>6. CASE E = << >>
  <2>1. map_begin.node = Null /\ ~(1 <= p)
    BY <1>1, <1>3, <1>6 DEF BeginsAt
  <2>2. QED
    BY <1>1, <1>2, <1>5, <2>1 DEF BeginsAt, BeginAfterInsert
<1>7. CASE E # << >>
  <2>1. 1 \in 1..N
    BY <1>1, <1>7
  <2>2. map_begin = Pos(E[1], c[1]) /\ E[1] # Null /\ c[1] \in Nat
    BY <1>1, <1>7, <2>1, ChainFacts DEF BeginsAt
  <2>3. map_begin.node # Null /\ map_begin.bucket = c[1]
    BY <2>2 DEF Pos
  <2>4. 1 <= p <=> ~(b <= c[1])
    BY <1>3, <2>1, <2>2
  <2>5. BeginAfterInsert(n, b) = IF b <= c[1] THEN Pos(n, b) ELSE map_begin
    BY <2>3 DEF BeginAfterInsert
  <2>6. QED
    BY <1>1, <1>2, <1>5, <2>2, <2>4, <2>5 DEF BeginsAt
<1>8. QED
  BY <1>6, <1>7

(* Only one thread inserts, so that what is in the pair is its key.            *)
OneInserts == \A t, u \in Inserter : t = u

LEMMA InsertDataStep ==
    ASSUME OneInserts, NEW E, NEW c, MapInvOf(E, c), NEW t \in Inserter, InsertData(t)
    PROVE  MapInv' /\ \E k \in MapKey, e \in MapNode : ByKey!Insert(e, k)
<1>1. IsChained(E, c, first, hnext) /\ IsKeyed(E, c, key_of) /\ BeginsAt(E, c, map_begin)
      /\ node_count = Len(E)
  BY DEF MapInvOf
<1>2. PICK k \in MapKey : inserting[t] = k /\ pair = k
  BY DEF MapInvOf, InsertersInv, InsertData
<1>3. PICK b \in Bucket : b = BucketOf[k]
  BY MapBounds
<1>4. PICK n \in MapNode :
          /\ key_of[n] = Null /\ key_of' = [key_of EXCEPT ![n] = k]
          /\ hnext' = [hnext EXCEPT ![n] = first[b]]
          /\ first' = [first EXCEPT ![b] = n]
          /\ map_begin' = BeginAfterInsert(n, b)
          /\ done' = [op |-> "insert", key |-> k, entry |-> n, ret |-> node_count]
  BY <1>2, <1>3 DEF InsertData
<1>5. node_count' = node_count + 1 /\ inserting' = [inserting EXCEPT ![t] = Null] /\ pair' = pair
  BY DEF InsertData
<1>6. n \notin Elements(E)
  BY <1>1, <1>4 DEF IsKeyed
<1>7. PICK N \in Nat : N = Len(E) /\ c \in [1..N -> Nat]
  BY <1>1, ChainFacts
<1>8. PICK p \in 0..N : \A i \in 1..N : i <= p <=> c[i] < b
  <2>1. b \in Nat /\ \A i, j \in 1..N : i <= j => c[i] <= c[j]
    BY <1>1, <1>7, MapBounds DEF IsChained
  <2>2. QED
    BY <1>7, <2>1, CutAt
<1>9. PICK F : F = Inserted(E, p, n)
  OBVIOUS
<1>10. IsInserted(F, MapNode, E, p, n)
  <2>1. E \in Seq(MapNode) /\ p \in 0..Len(E)
    BY <1>1, <1>7 DEF IsChained
  <2>2. QED
    BY <1>9, <2>1, InsertedIs
<1>11. PICK d : d = WithBucket(c, N, p, b)
  OBVIOUS
<1>12. IsChained(F, d, first', hnext') /\ Elements(F) = Elements(E) \cup {n}
  <2>1. p \in 0..Len(E) /\ \A i \in 1..Len(E) : i <= p <=> c[i] < b
    BY <1>7, <1>8
  <2>2. /\ IsChained(F, WithBucket(c, Len(E), p, b),
                     [first EXCEPT ![b] = n], [hnext EXCEPT ![n] = first[b]])
        /\ Elements(F) = Elements(E) \cup {n}
    BY SMTT(60), <1>1, <1>6, <1>10, <2>1, InsertChained
  <2>3. QED
    BY <1>4, <1>7, <1>11, <2>2
<1>13. IsKeyed(F, d, key_of')
  BY <1>1, <1>3, <1>4, <1>6, <1>7, <1>10, <1>11, <1>12, InsertKeyed
<1>14. BeginsAt(F, d, map_begin')
  BY <1>1, <1>4, <1>7, <1>8, <1>10, <1>11, InsertBegins
<1>15. node_count' = Len(F)
  BY <1>1, <1>5, <1>10 DEF IsInserted
<1>16. InsertersInv'
  <2>1. \A u \in Inserter : u = t
    BY DEF OneInserts
  <2>2. QED
    BY <1>5, <2>1 DEF MapInvOf, InsertersInv
<1>17. MapInvOf(F, d)'
  BY <1>12, <1>13, <1>14, <1>15, <1>16 DEF MapInvOf
<1>18. Entries = E /\ Entries' = F
  <2>1. EntriesSeen'
    BY EntriesAreSeen, PTL
  <2>2. QED
    BY <1>1, <1>12, <1>14, <2>1, EntriesAreSeen DEF EntriesSeen
<1>19. ByKey!Insert(n, k)
  <2>1. \A j \in 1..p : key_of[E[j]] # k
    <3>1. ASSUME NEW j \in 1..p PROVE key_of[E[j]] # k
      <4>1. j \in 1..N /\ j <= p
        BY <1>7
      <4>2. c[j] < b /\ c[j] \in Nat /\ b \in Nat
        BY <1>7, <1>8, <4>1, MapBounds
      <4>3. BucketOf[key_of[E[j]]] = c[j]
        BY <1>1, <1>7, <4>1 DEF IsKeyed
      <4>4. QED
        BY <1>3, <4>2, <4>3
    <3>2. QED
      BY <3>1
  <2>2. ByKey!NoneTo(p, k)
    BY <1>18, <2>1 DEF ByKey!NoneTo
  <2>3. Entries' = SubSeq(Entries, 1, p) \o <<n>> \o SubSeq(Entries, p + 1, Len(Entries))
    BY <1>9, <1>18 DEF Inserted
  <2>4. p \in 0..Len(Entries)
    BY <1>7, <1>18
  <2>5. done' = [op |-> "insert", key |-> k, entry |-> n, ret |-> Len(Entries)]
    BY <1>1, <1>4, <1>18
  <2>6. QED
    BY <1>4, <2>2, <2>3, <2>4, <2>5 DEF ByKey!Insert
<1>20. QED
  BY <1>17, <1>19 DEF MapInv

(* An entry that is deleted takes its key along.                             *)
LEMMA RemoveKeyed ==
    ASSUME NEW E, NEW c, IsChained(E, c, first, hnext), IsKeyed(E, c, key_of),
           NEW p \in 1..Len(E),
           NEW F, IsRemoved(F, MapNode, E, p), Elements(F) = Elements(E) \ {E[p]}
    PROVE  IsKeyed(F, WithoutBucket(c, Len(E), p), [key_of EXCEPT ![E[p]] = Null])
<1>1. PICK N \in Nat : N = Len(E) /\ DOMAIN E = 1..N
  BY ChainFacts
<1>2. PICK d, n, K : /\ d = WithoutBucket(c, N, p) /\ n = E[p]
                     /\ K = [key_of EXCEPT ![n] = Null]
  OBVIOUS
<1>3. p \in 1..N /\ p \in Nat /\ 1 <= p /\ p <= N
  BY <1>1
<1>4. \A i \in 1..N : /\ E[i] \in MapNode
                      /\ key_of[E[i]] \in MapKey /\ BucketOf[key_of[E[i]]] = c[i]
                      /\ E[i] = n => i = p
  <2>1. \A i \in 1..N : E[i] \in MapNode
    BY <1>1, ChainFacts
  <2>2. \A i \in 1..N : E[i] = E[p] => i = p
    BY <1>1, <1>3 DEF IsChained, Distinct
  <2>3. QED
    BY <1>1, <1>2, <2>1, <2>2 DEF IsKeyed
<1>5. /\ K \in [MapNode -> MapKey \cup {Null}] /\ K[n] = Null
      /\ \A m \in MapNode : m # n => K[m] = key_of[m]
  BY <1>2, <1>3, <1>4 DEF IsKeyed
<1>6. \A m \in MapNode : K[m] # Null <=> m \in Elements(F)
  BY <1>2, <1>5 DEF IsKeyed
<1>7. ASSUME NEW i \in 1..(N - 1) PROVE K[F[i]] \in MapKey /\ BucketOf[K[F[i]]] = d[i]
  <2>1. /\ F[i] = IF i < p THEN E[i] ELSE E[i + 1]
        /\ d[i] = IF i < p THEN c[i] ELSE c[i + 1]
    BY <1>1, <1>2 DEF IsRemoved, WithoutBucket
  <2>2. CASE i < p
    <3>1. i \in 1..N /\ i # p
      BY <1>3, <2>2
    <3>2. QED
      BY <1>4, <1>5, <2>1, <2>2, <3>1
  <2>3. CASE ~(i < p)
    <3>1. i + 1 \in 1..N /\ i + 1 # p
      BY <1>3, <2>3
    <3>2. QED
      BY <1>4, <1>5, <2>1, <2>3, <3>1
  <2>4. QED
    BY <2>2, <2>3
<1>8. Len(F) = N - 1
  BY <1>1 DEF IsRemoved
<1>9. IsKeyed(F, d, K)
  BY <1>5, <1>6, <1>7, <1>8 DEF IsKeyed
<1>10. QED
  BY <1>1, <1>2, <1>9

(* If the entry begin is at is deleted, begin moves to the next one.           *)
LEMMA RemoveBegins ==
    ASSUME NEW E, NEW c, IsChained(E, c, first, hnext), BeginsAt(E, c, map_begin),
           NEW p \in 1..Len(E), NEW F, IsRemoved(F, MapNode, E, p)
    PROVE  BeginsAt(F, WithoutBucket(c, Len(E), p), BeginAfterDelete(Pos(E[p], c[p])))
<1>1. PICK N \in Nat : N = Len(E) /\ (E = << >> <=> N = 0) /\ DOMAIN E = 1..N
  BY ChainFacts
<1>2. PICK d : d = WithoutBucket(c, N, p)
  OBVIOUS
<1>3. p \in 1..N /\ 1 \in 1..N /\ p \in Nat /\ E # << >>
  BY <1>1
<1>4. map_begin = PosOf(E, c, 1) /\ map_begin = Pos(E[1], c[1])
  BY <1>1, <1>3 DEF BeginsAt, PosOf
<1>5. /\ Len(F) = N - 1 /\ (F = << >> <=> N = 1)
      /\ \A i \in 1..(N - 1) : F[i] = IF i < p THEN E[i] ELSE E[i + 1]
      /\ \A i \in 1..(N - 1) : d[i] = IF i < p THEN c[i] ELSE c[i + 1]
  <2>1. F \in Seq(MapNode) /\ Len(F) = N - 1
        /\ \A i \in 1..(N - 1) : F[i] = IF i < p THEN E[i] ELSE E[i + 1]
    BY <1>1 DEF IsRemoved
  <2>2. F = << >> <=> Len(F) = 0
    BY <2>1, EmptySeq
  <2>3. QED
    BY <1>1, <1>2, <2>1, <2>2 DEF WithoutBucket
<1>6. BeginAfterDelete(Pos(E[p], c[p])) = IF E[p] = E[1] THEN PosNext(Pos(E[p], c[p])) ELSE map_begin
  BY <1>4 DEF BeginAfterDelete, Pos
<1>7. E[p] = E[1] <=> p = 1
  BY <1>1, <1>3 DEF IsChained, Distinct
<1>8. CASE p = 1
  <2>1. PosNext(PosOf(E, c, 1)) = PosOf(E, c, 2)
    <3>1. 1 \in 1..Len(E)
      BY <1>1, <1>3
    <3>2. PosNext(PosOf(E, c, 1)) = PosOf(E, c, 1 + 1)
      BY <3>1, NextPos
    <3>3. 1 + 1 = 2
      OBVIOUS
    <3>4. QED
      BY <3>2, <3>3
  <2>2. BeginAfterDelete(Pos(E[p], c[p])) = PosOf(E, c, 2)
    BY <1>4, <1>6, <1>7, <1>8, <2>1
  <2>3. CASE N = 1
    <3>1. 2 \notin 1..Len(E)
      BY <1>1, <2>3
    <3>2. PosOf(E, c, 2).node = Null
      BY <3>1 DEF PosOf, Pos
    <3>3. QED
      BY <1>1, <1>2, <1>5, <2>2, <2>3, <3>2 DEF BeginsAt
  <2>4. CASE N # 1
    <3>1. 2 \in 1..N /\ 1 \in 1..(N - 1) /\ ~(1 < p) /\ 1 + 1 = 2
      BY <1>3, <1>8, <2>4
    <3>2. PosOf(E, c, 2) = Pos(E[2], c[2])
      BY <1>1, <3>1 DEF PosOf
    <3>3. F[1] = E[2] /\ d[1] = c[2]
      BY <1>5, <3>1
    <3>4. QED
      BY <1>1, <1>2, <1>5, <2>2, <2>4, <3>2, <3>3 DEF BeginsAt
  <2>5. QED
    BY <2>3, <2>4
<1>9. CASE p # 1
  <2>1. 1 < p /\ 1 \in 1..(N - 1) /\ N # 1
    BY <1>3, <1>9
  <2>2. F[1] = E[1] /\ d[1] = c[1]
    BY <1>5, <2>1
  <2>3. QED
    BY <1>1, <1>2, <1>4, <1>5, <1>6, <1>7, <1>9, <2>1, <2>2 DEF BeginsAt
<1>10. QED
  BY <1>8, <1>9

LEMMA MapDeleteStep ==
    ASSUME NEW E, NEW c, MapInvOf(E, c), NEW n \in MapNode, MapDelete(n)
    PROVE  MapInv' /\ ByKey!Delete(n)
<1>1. IsChained(E, c, first, hnext) /\ IsKeyed(E, c, key_of) /\ BeginsAt(E, c, map_begin)
      /\ node_count = Len(E) /\ InsertersInv
  BY DEF MapInvOf
<1>2. /\ key_of[n] # Null /\ key_of' = [key_of EXCEPT ![n] = Null]
      /\ map_begin' = BeginAfterDelete(Pos(n, BucketOf[key_of[n]]))
      /\ node_count' = node_count - 1 /\ done' = [op |-> "delete", entry |-> n]
      /\ pair' = pair /\ inserting' = inserting
  BY DEF MapDelete
<1>3. first' = WithoutFirst(first, hnext, n) /\ hnext' = WithoutEntry(hnext, n)
  BY DEF MapDelete, WithoutFirst, WithoutEntry
<1>4. PICK N \in Nat : N = Len(E) /\ DOMAIN E = 1..N
  BY <1>1, ChainFacts
<1>5. PICK p \in 1..N : E[p] = n
  BY <1>1, <1>2, <1>4 DEF IsKeyed, Elements
<1>6. BucketOf[key_of[n]] = c[p]
  BY <1>1, <1>4, <1>5 DEF IsKeyed
<1>7. PICK F : F = Removed(E, p)
  OBVIOUS
<1>8. IsRemoved(F, MapNode, E, p)
  <2>1. E \in Seq(MapNode) /\ p \in 1..Len(E)
    BY <1>1, <1>4 DEF IsChained
  <2>2. QED
    BY <1>7, <2>1, RemovedIs
<1>9. PICK d : d = WithoutBucket(c, N, p)
  OBVIOUS
<1>10. p \in 1..Len(E) /\ E[p] = n
  BY <1>4, <1>5
<1>11. IsChained(F, d, first', hnext') /\ Elements(F) = Elements(E) \ {n}
  <2>1. /\ IsChained(F, WithoutBucket(c, Len(E), p),
                     WithoutFirst(first, hnext, E[p]), WithoutEntry(hnext, E[p]))
        /\ Elements(F) = Elements(E) \ {E[p]}
    BY <1>1, <1>8, <1>10, RemoveChained
  <2>2. QED
    BY <1>3, <1>4, <1>9, <1>10, <2>1
<1>12. IsKeyed(F, d, key_of')
  <2>1. IsKeyed(F, WithoutBucket(c, Len(E), p), [key_of EXCEPT ![E[p]] = Null])
    <3>1. Elements(F) = Elements(E) \ {E[p]}
      BY <1>10, <1>11
    <3>2. QED
      BY <1>1, <1>8, <1>10, <3>1, RemoveKeyed
  <2>2. QED
    BY <1>2, <1>4, <1>9, <1>10, <2>1
<1>13. BeginsAt(F, d, map_begin')
  <2>1. BeginsAt(F, WithoutBucket(c, Len(E), p), BeginAfterDelete(Pos(E[p], c[p])))
    BY <1>1, <1>8, <1>10, RemoveBegins
  <2>2. QED
    BY <1>2, <1>4, <1>6, <1>9, <1>10, <2>1
<1>14. node_count' = Len(F)
  BY <1>1, <1>2, <1>8 DEF IsRemoved
<1>15. InsertersInv'
  BY <1>1, <1>2 DEF InsertersInv
<1>16. MapInvOf(F, d)'
  BY <1>11, <1>12, <1>13, <1>14, <1>15 DEF MapInvOf
<1>17. Entries = E /\ Entries' = F
  <2>1. EntriesSeen'
    BY EntriesAreSeen, PTL
  <2>2. QED
    BY <1>1, <1>11, <1>13, <2>1, EntriesAreSeen DEF EntriesSeen
<1>18. ByKey!Delete(n)
  <2>1. Entries' = SubSeq(Entries, 1, p - 1) \o SubSeq(Entries, p + 1, Len(Entries))
    BY <1>7, <1>17 DEF Removed
  <2>2. p \in 1..Len(Entries) /\ Entries[p] = n
    BY <1>10, <1>17
  <2>3. QED
    BY <1>2, <2>1, <2>2 DEF ByKey!Delete
<1>19. QED
  BY <1>16, <1>18 DEF MapInv

(* What is seen of the map stays the same if the entries, the keys and the     *)
(* operation do.                                                             *)
LEMMA SameMap ==
    ASSUME UNCHANGED <<first, hnext, key_of, map_begin, node_count>>, InsertersInv',
           NEW E, NEW c, MapInvOf(E, c)
    PROVE  MapInv' /\ Entries = E /\ Entries' = E
<1>1. MapInvOf(E, c)'
  BY DEF MapInvOf
<1>2. EntriesSeen'
  BY EntriesAreSeen, PTL
<1>3. Entries' = E
  BY <1>1, <1>2 DEF EntriesSeen, MapInvOf
<1>4. Entries = E
  BY EntriesAreSeen DEF EntriesSeen, MapInvOf
<1>5. QED
  BY <1>1, <1>3, <1>4 DEF MapInv

LEMMA MakePairStep ==
    ASSUME OneInserts, NEW E, NEW c, MapInvOf(E, c),
           NEW t \in Inserter, NEW k \in MapKey, MakePair(t, k)
    PROVE  MapInv' /\ UNCHANGED <<Entries, key_of, done>>
<1>1. InsertersInv'
  <2>1. \A u \in Inserter : u = t
    BY DEF OneInserts
  <2>2. QED
    BY <2>1 DEF MapInvOf, InsertersInv, MakePair
<1>2. UNCHANGED <<first, hnext, key_of, map_begin, node_count>> /\ done' = done
  BY DEF MakePair
<1>3. MapInv' /\ Entries = E /\ Entries' = E
  BY <1>1, <1>2, SameMap
<1>4. QED
  BY <1>2, <1>3

LEMMA SearchStep ==
    ASSUME NEW E, NEW c, MapInvOf(E, c), NEW k \in MapKey, MapSearch(k)
    PROVE  MapInv' /\ (ByKey!Search(k) \/ ByKey!SearchInVain(k))
<1>1. /\ UNCHANGED <<first, hnext, key_of, map_begin, node_count>>
      /\ UNCHANGED <<pair, inserting>>
  BY DEF MapSearch
<1>2. InsertersInv'
  BY <1>1 DEF MapInvOf, InsertersInv
<1>3. MapInv' /\ Entries = E /\ Entries' = E
  BY <1>1, <1>2, SameMap
<1>4. PICK e : e = MatchIn(Chain(first[BucketOf[k]]), k)
  OBVIOUS
<1>5. done' = [op |-> "search", key |-> k, entry |-> e]
  BY <1>4 DEF MapSearch
<1>6. Searched(E, k, e)
  BY <1>4, SearchFinds DEF MapInvOf
<1>7. CASE e = Null /\ \A i \in 1..Len(E) : key_of[E[i]] # k
  BY <1>1, <1>3, <1>5, <1>7 DEF ByKey!SearchInVain, ByKey!NoneTo
<1>8. ASSUME NEW i \in 1..Len(E), e = E[i],
             \/ key_of[E[i]] = k /\ \A j \in 1..(i - 1) : key_of[E[j]] # k
             \/ key_of[E[i]] \in BeginsWith[k] \ {k}
      PROVE  ByKey!Search(k)
  BY <1>1, <1>3, <1>5, <1>8 DEF ByKey!Search, ByKey!NoneTo
<1>9. QED
  BY <1>3, <1>6, <1>7, <1>8 DEF Searched

(* A map without entries.                                                    *)
LEMMA EmptyMap ==
    ASSUME first = [i \in Bucket |-> Null], hnext = [n \in MapNode |-> Null],
           key_of = [n \in MapNode |-> Null], map_begin = Pos(Null, 0), node_count = 0,
           InsertersInv
    PROVE  MapInv /\ Entries = << >>
<1>1. PICK E, c : E = << >> /\ c = << >>
  OBVIOUS
<1>2. E \in Seq(MapNode) /\ Len(E) = 0 /\ DOMAIN E = 1..0 /\ Elements(E) = {}
  BY <1>1, EmptyElements
<1>3. IsChained(E, c, first, hnext)
  <2>1. c \in [1..0 -> Bucket]
    BY <1>1
  <2>2. Distinct(E)
    BY <1>2 DEF Distinct
  <2>3. QED
    BY <1>2, <2>1, <2>2 DEF IsChained, LeadsBucket
<1>4. IsKeyed(E, c, key_of)
  BY <1>2 DEF IsKeyed
<1>5. BeginsAt(E, c, map_begin)
  BY <1>1 DEF BeginsAt, Pos
<1>6. MapInvOf(E, c)
  BY <1>2, <1>3, <1>4, <1>5 DEF MapInvOf
<1>7. Entries = E
  BY <1>3, <1>5, EntriesAreSeen DEF EntriesSeen
<1>8. QED
  BY <1>1, <1>6, <1>7 DEF MapInv

EmptyIsEmpty ==
    /\ first = [i \in Bucket |-> Null] /\ hnext = [n \in MapNode |-> Null]
    /\ key_of = [n \in MapNode |-> Null] /\ map_begin = Pos(Null, 0) /\ node_count = 0
    /\ InsertersInv
    => MapInv /\ Entries = << >>

LEMMA EmptyMaps == EmptyIsEmpty
  BY EmptyMap DEF EmptyIsEmpty

LEMMA MapDestroyStep ==
    ASSUME MapInv, MapDestroy
    PROVE  MapInv' /\ ByKey!Clear
<1>1. InsertersInv'
  BY DEF MapInv, MapInvOf, InsertersInv, MapDestroy
<1>2. EmptyIsEmpty'
  BY EmptyMaps, PTL
<1>3. MapInv' /\ Entries' = << >>
  BY <1>1, <1>2 DEF EmptyIsEmpty, MapDestroy, Empty
<1>4. key_of' = [n \in MapNode |-> Null] /\ done' = [op |-> "destroy"]
  BY DEF MapDestroy, Empty
<1>5. QED
  BY <1>3, <1>4 DEF ByKey!Clear, ByKey!Empty

LEMMA MapInitCorrect ==
    ASSUME MapInit
    PROVE  MapInv /\ ByKey!Init
<1>1. InsertersInv
  BY DEF MapInit, InsertersInv
<1>2. MapInv /\ Entries = << >>
  BY <1>1, EmptyMaps DEF MapInit, EmptyIsEmpty
<1>3. QED
  BY <1>2 DEF MapInit, ByKey!Init, ByKey!Empty

LEMMA MapNextCorrect ==
    ASSUME OneInserts, MapInv, [MapNext]_mapVars
    PROVE  MapInv' /\ [ByKey!Next]_(ByKey!vars)
<1>1. PICK E, c : MapInvOf(E, c)
  BY DEF MapInv
<1>2. ASSUME NEW t \in Inserter, NEW k \in MapKey, MakePair(t, k)
      PROVE  MapInv' /\ [ByKey!Next]_(ByKey!vars)
  BY <1>1, <1>2, MakePairStep DEF ByKey!vars
<1>3. ASSUME NEW t \in Inserter, InsertData(t)
      PROVE  MapInv' /\ [ByKey!Next]_(ByKey!vars)
  BY <1>1, <1>3, InsertDataStep DEF ByKey!Next
<1>4. ASSUME NEW k \in MapKey, MapSearch(k)
      PROVE  MapInv' /\ [ByKey!Next]_(ByKey!vars)
  BY <1>1, <1>4, SearchStep DEF ByKey!Next
<1>5. ASSUME NEW n \in MapNode, MapDelete(n)
      PROVE  MapInv' /\ [ByKey!Next]_(ByKey!vars)
  BY <1>1, <1>5, MapDeleteStep DEF ByKey!Next
<1>6. CASE MapDestroy
  BY <1>6, MapDestroyStep DEF ByKey!Next
<1>7. CASE UNCHANGED mapVars
  <2>1. /\ UNCHANGED <<first, hnext, key_of, map_begin, node_count>>
        /\ UNCHANGED <<pair, inserting>> /\ done' = done
    BY <1>7 DEF mapVars
  <2>2. InsertersInv'
    BY <1>1, <2>1 DEF MapInvOf, InsertersInv
  <2>3. MapInv' /\ Entries = E /\ Entries' = E
    BY <1>1, <2>1, <2>2, SameMap
  <2>4. QED
    BY <2>1, <2>3 DEF ByKey!vars
<1>8. QED
  BY <1>2, <1>3, <1>4, <1>5, <1>6, <1>7 DEF MapNext

(* hash_list.c: as long as one thread inserts, as the callers of map do, the   *)
(* buckets' chains and begin are a map of the keys that were inserted and not  *)
(* deleted, for any keys, hash function and number of buckets.                *)
THEOREM MapCorrect ==
    ASSUME OneInserts
    PROVE  MapSpec => HashMapIsMap
<1>1. MapInit => MapInv /\ ByKey!Init
  BY MapInitCorrect
<1>2. MapInv /\ [MapNext]_mapVars => MapInv' /\ [ByKey!Next]_(ByKey!vars)
  BY MapNextCorrect
<1>3. QED
  BY <1>1, <1>2, PTL DEF MapSpec, HashMapIsMap, ByKey!Spec

-----------------------------------------------------------------------------
(***************************************************************************)
(* RbTree: the sets of the keys below each node, and the black nodes on    *)
(* the way down from it, show what each loop and each rotation does.       *)
(***************************************************************************)
(* A function applied again and again.                                       *)
Repeats(f, N, S, a, g) ==
    f \in [0..N -> S] /\ f[0] = a /\ \A k \in 1..N : f[k] = g[f[k - 1]]

LEMMA Iterates ==
    ASSUME NEW N \in Nat, NEW S, NEW a \in S, NEW g \in [S -> S]
    PROVE  \E f : Repeats(f, N, S, a, g)
<1>1. PICK D : D = {j \in 0..N : \E f : Repeats(f, j, S, a, g)}
  OBVIOUS
<1>2. 0 \in D
  <2>1. PICK f : f = [k \in 0..0 |-> a]
    OBVIOUS
  <2>2. Repeats(f, 0, S, a, g)
    BY <2>1 DEF Repeats
  <2>3. QED
    BY <1>1, <2>2
<1>3. ASSUME NEW k \in 1..N, k - 1 \in D PROVE k \in D
  <2>1. PICK e : Repeats(e, k - 1, S, a, g)
    BY <1>1, <1>3
  <2>2. k \in Nat /\ k >= 1 /\ k - 1 \in 0..(k - 1) /\ 0 \in 0..(k - 1)
    OBVIOUS
  <2>3. e[k - 1] \in S /\ g[e[k - 1]] \in S
    BY <2>1, <2>2 DEF Repeats
  <2>4. PICK f : f = [j \in 0..k |-> IF j = k THEN g[e[k - 1]] ELSE e[j]]
    OBVIOUS
  <2>5. \A j \in 0..k : j # k => j \in 0..(k - 1)
    BY <2>2
  <2>6. f \in [0..k -> S] /\ f[0] = a
    BY <2>1, <2>2, <2>3, <2>4, <2>5 DEF Repeats
  <2>7. ASSUME NEW j \in 1..k PROVE f[j] = g[f[j - 1]]
    <3>1. j - 1 \in 0..k /\ j - 1 # k /\ f[j - 1] = e[j - 1]
      BY <2>2, <2>4
    <3>2. CASE j = k
      BY <2>4, <3>1, <3>2
    <3>3. CASE j # k
      <4>1. j \in 1..(k - 1) /\ f[j] = e[j]
        BY <2>4, <3>3
      <4>2. QED
        BY <2>1, <3>1, <4>1 DEF Repeats
    <3>4. QED
      BY <3>2, <3>3
  <2>8. Repeats(f, k, S, a, g)
    BY <2>6, <2>7 DEF Repeats
  <2>9. QED
    BY <1>1, <2>8
<1>4. N \in D
  <2>1. \A k \in 0..N : k \in D
    BY <1>2, <1>3, UpTo
  <2>2. QED
    BY <2>1
<1>5. QED
  BY <1>1, <1>4

-----------------------------------------------------------------------------
(* The two sides of a node, and what is on which.                             *)
OnSide(s, x, n) == IF s = "left" THEN x < n ELSE n < x

LEMMA Sides ==
    /\ Side = {"left", "right"}
    /\ Other("left") = "right" /\ Other("right") = "left"
    /\ \A s \in Side : /\ Other(s) \in Side /\ Other(s) # s /\ Other(Other(s)) = s
                       /\ \A u \in Side : u = s \/ u = Other(s)
  BY DEF Side, Other

LEMMA SideOrder ==
    /\ \A s \in Side : \A x, y \in RbKey :
          /\ OnSide(s, x, y) => x # y /\ OnSide(Other(s), y, x) /\ ~OnSide(Other(s), x, y)
          /\ x # y => OnSide(s, x, y) \/ OnSide(Other(s), x, y)
    /\ \A s \in Side : \A x, y, z \in RbKey :
          OnSide(s, x, y) /\ OnSide(s, y, z) => OnSide(s, x, z)
    /\ \A x, y \in RbKey : OnSide("left", x, y) <=> x < y
    /\ \A x, y \in RbKey : OnSide("right", x, y) <=> y < x
<1>1. \A x \in RbKey : x \in Int
  BY RbAssumption DEF RbKey
<1>2. QED
  BY <1>1 DEF OnSide, Side, Other

LEMMA RbNumbers ==
    /\ Keys \in Nat
    /\ \A x \in RbKey : x \in Nat /\ x # 0 /\ 1 <= x /\ x <= Keys /\ x \in RbNode
    /\ RbNode = RbKey \cup {0} /\ 0 \notin RbKey
    /\ IsFiniteSet(RbKey) /\ Cardinality(RbKey) = Keys
<1>1. Keys \in Nat
  BY RbAssumption
<1>2. IsFiniteSet(1..Keys) /\ Cardinality(1..Keys) = Keys
  <2>1. 1 \in Int /\ Keys \in Int
    BY <1>1
  <2>2. IsFiniteSet(1..Keys) /\ Cardinality(1..Keys) = IF 1 > Keys THEN 0 ELSE Keys - 1 + 1
    BY <2>1, FS_Interval
  <2>3. QED
    BY <1>1, <2>2
<1>3. QED
  BY <1>1, <1>2 DEF RbKey, RbNode

-----------------------------------------------------------------------------
(* A search tree of the keys P: its root, children and parents.  U[n] are the  *)
(* keys from n down.                                                         *)
Hangs(ch, up, P, U, s, n) ==
    /\ ch[s][n] = 0 \/ (ch[s][n] \in P /\ up[ch[s][n]] = n)
    /\ \A x \in U[ch[s][n]] : OnSide(s, x, n)

IsTree(rt, ch, up, P, U) ==
    /\ rt \in RbNode /\ ch \in [Side -> [RbKey -> RbNode]] /\ up \in [RbKey -> RbNode]
    /\ P \in SUBSET RbKey /\ U \in [RbNode -> SUBSET P]
    /\ U[0] = {} /\ U[rt] = P
    /\ rt # 0 => rt \in P /\ up[rt] = 0
    /\ \A n \in P : \A s \in Side : Hangs(ch, up, P, U, s, n)
    /\ \A n \in P : U[n] = U[ch["left"][n]] \cup {n} \cup U[ch["right"][n]]
    /\ \A n \in P : n = rt \/ (up[n] \in P /\ \E s \in Side : ch[s][up[n]] = n)
    /\ \A n \in RbKey \ P : \A s \in Side : ch[s][n] = 0

(* A node and its children.                                                  *)
LEMMA NodeFacts ==
    ASSUME NEW rt, NEW ch, NEW up, NEW P, NEW U, IsTree(rt, ch, up, P, U), NEW n \in P
    PROVE  /\ n \in RbKey /\ n \in U[n] /\ U[n] \in SUBSET P
           /\ \A s \in Side :
                 /\ U[n] = U[ch[s][n]] \cup {n} \cup U[ch[Other(s)][n]]
                 /\ ch[s][n] # n /\ n \notin U[ch[s][n]] /\ U[ch[s][n]] \in SUBSET P
                 /\ ch[s][n] \in RbNode
                 /\ \A x \in U[ch[s][n]] : x \in RbKey /\ OnSide(s, x, n)
                 /\ ch[s][n] # 0 => /\ ch[s][n] \in P /\ up[ch[s][n]] = n
                                    /\ ch[s][n] \in U[ch[s][n]]
                                    /\ ch[Other(s)][n] # ch[s][n]
<1>1. n \in RbKey /\ n \in U[n] /\ U[n] \in SUBSET P /\ \A m \in P : m \in U[m] /\ m \in RbKey
  BY RbNumbers DEF IsTree
<1>2. ASSUME NEW s \in Side
      PROVE  /\ ch[s][n] \in RbNode /\ U[ch[s][n]] \in SUBSET P
             /\ \A x \in U[ch[s][n]] : x \in RbKey /\ OnSide(s, x, n)
             /\ n \notin U[ch[s][n]] /\ ch[s][n] # n
             /\ ch[s][n] # 0 => /\ ch[s][n] \in P /\ up[ch[s][n]] = n /\ ch[s][n] \in U[ch[s][n]]
  <2>1. ch[s][n] \in RbNode /\ U[ch[s][n]] \in SUBSET P
    BY <1>1 DEF IsTree
  <2>2. Hangs(ch, up, P, U, s, n)
    BY DEF IsTree
  <2>3. \A x \in U[ch[s][n]] : x \in RbKey /\ OnSide(s, x, n)
    BY <2>1, <2>2 DEF Hangs, IsTree
  <2>4. n \notin U[ch[s][n]]
    BY <1>1, <2>3, SideOrder
  <2>5. ch[s][n] # 0 => /\ ch[s][n] \in P /\ up[ch[s][n]] = n /\ ch[s][n] \in U[ch[s][n]]
    BY <1>1, <2>2 DEF Hangs
  <2>6. QED
    BY <1>1, <2>1, <2>3, <2>4, <2>5
<1>3. ASSUME NEW s \in Side
      PROVE  U[n] = U[ch[s][n]] \cup {n} \cup U[ch[Other(s)][n]]
  <2>1. U[n] = U[ch["left"][n]] \cup {n} \cup U[ch["right"][n]]
    BY DEF IsTree
  <2>2. QED
    BY <2>1, Sides
<1>4. ASSUME NEW s \in Side, ch[s][n] # 0
      PROVE  ch[Other(s)][n] # ch[s][n]
  <2>1. SUFFICES ASSUME ch[Other(s)][n] = ch[s][n] PROVE FALSE
    OBVIOUS
  <2>2. PICK x : x = ch[s][n] /\ x \in RbKey /\ OnSide(s, x, n) /\ OnSide(Other(s), x, n)
    BY <1>2, <1>4, <2>1, Sides
  <2>3. QED
    BY <1>1, <2>2, SideOrder
<1>5. QED
  BY <1>1, <1>2, <1>3, <1>4

LEMMA Cards ==
    ASSUME NEW rt, NEW ch, NEW up, NEW P, NEW U, IsTree(rt, ch, up, P, U), NEW n \in P
    PROVE  /\ IsFiniteSet(U[n]) /\ Cardinality(U[n]) \in 1..Keys
           /\ \A s \in Side : Cardinality(U[ch[s][n]]) \in 0..Keys
                              /\ Cardinality(U[ch[s][n]]) < Cardinality(U[n])
<1>1. n \in U[n] /\ U[n] \in SUBSET P /\ P \in SUBSET RbKey
  BY NodeFacts DEF IsTree
<1>2. U[n] \in SUBSET RbKey
  BY <1>1
<1>3. ASSUME NEW A \in SUBSET RbKey
      PROVE  IsFiniteSet(A) /\ Cardinality(A) \in Nat /\ Cardinality(A) <= Keys
  <2>1. IsFiniteSet(A) /\ Cardinality(A) <= Cardinality(RbKey)
    BY RbNumbers, FS_Subset
  <2>2. Cardinality(A) \in Nat
    BY <2>1, FS_CardinalityType
  <2>3. QED
    BY <2>1, <2>2, RbNumbers
<1>4. Cardinality(U[n]) # 0
  BY <1>1, <1>2, <1>3, FS_EmptySet
<1>5. ASSUME NEW s \in Side
      PROVE  Cardinality(U[ch[s][n]]) \in 0..Keys /\ Cardinality(U[ch[s][n]]) < Cardinality(U[n])
  <2>1. PICK A, B : A = U[ch[s][n]] /\ B = U[n] /\ A \in SUBSET B /\ A # B /\ B \in SUBSET RbKey
    BY <1>1, <1>2, NodeFacts
  <2>2. Cardinality(A) <= Cardinality(B) /\ (Cardinality(A) = Cardinality(B) => A = B)
    BY <1>3, <2>1, FS_Subset
  <2>3. Cardinality(A) \in Nat /\ Cardinality(B) \in Nat /\ Cardinality(A) <= Keys
    BY <1>3, <2>1
  <2>4. QED
    BY <2>1, <2>2, <2>3, RbNumbers
<1>6. QED
  BY <1>2, <1>3, <1>4, <1>5, RbNumbers

(* No nodes of which each has one of them for a child, or for its parent.      *)
LEMMA NoDescent ==
    ASSUME NEW rt, NEW ch, NEW up, NEW P, NEW U, IsTree(rt, ch, up, P, U),
           NEW B \in SUBSET P, \A n \in B : \E s \in Side : ch[s][n] \in B
    PROVE  B = {}
<1>1. SUFFICES ASSUME B # {} PROVE FALSE
  OBVIOUS
<1>2. PICK T : T = {Cardinality(U[n]) : n \in B}
  OBVIOUS
<1>3. T \in SUBSET Nat /\ T # {}
  BY <1>1, <1>2, Cards
<1>4. PICK x \in T : \A y \in T : x <= y
  BY <1>3, LeastNatural
<1>5. PICK n \in B : x = Cardinality(U[n])
  BY <1>2
<1>6. PICK s \in Side : ch[s][n] \in B
  OBVIOUS
<1>7. Cardinality(U[ch[s][n]]) < Cardinality(U[n]) /\ Cardinality(U[ch[s][n]]) \in T
      /\ Cardinality(U[ch[s][n]]) \in Nat /\ x \in Nat
  BY <1>2, <1>3, <1>5, <1>6, Cards
<1>8. QED
  BY <1>4, <1>5, <1>7

LEMMA NoAscent ==
    ASSUME NEW rt, NEW ch, NEW up, NEW P, NEW U, IsTree(rt, ch, up, P, U),
           NEW B \in SUBSET P, \A n \in B : n # rt /\ up[n] \in B
    PROVE  B = {}
<1>1. SUFFICES ASSUME B # {} PROVE FALSE
  OBVIOUS
<1>2. PICK T : T = {Keys - Cardinality(U[n]) : n \in B}
  OBVIOUS
<1>3. ASSUME NEW n \in B
      PROVE Cardinality(U[n]) \in Nat /\ Keys - Cardinality(U[n]) \in Nat /\ Keys \in Nat
  BY Cards, RbNumbers
<1>4. T \in SUBSET Nat /\ T # {}
  BY <1>1, <1>2, <1>3
<1>5. PICK x \in T : \A y \in T : x <= y
  BY <1>4, LeastNatural
<1>6. PICK n \in B : x = Keys - Cardinality(U[n])
  BY <1>2
<1>7. up[n] \in B /\ Keys - Cardinality(U[up[n]]) \in T
  BY <1>2
<1>8. PICK s \in Side : ch[s][up[n]] = n
  BY DEF IsTree
<1>9. Cardinality(U[n]) < Cardinality(U[up[n]])
  BY <1>7, <1>8, Cards
<1>10. Keys - Cardinality(U[n]) <= Keys - Cardinality(U[up[n]])
  BY <1>5, <1>6, <1>7
<1>11. QED
  BY <1>3, <1>7, <1>9, <1>10

(* What is below a node, with all that is below it, and with its parent.       *)
LEMMA Below ==
    ASSUME NEW rt, NEW ch, NEW up, NEW P, NEW U, IsTree(rt, ch, up, P, U),
           NEW m \in P, NEW n \in U[m]
    PROVE  /\ n \in P /\ U[n] \subseteq U[m]
           /\ n # m => up[n] \in U[m] /\ up[n] \in P /\ n # rt
<1>1. n \in P
  BY NodeFacts
<1>2. ASSUME NEW k \in P, n \in U[k], n # k
      PROVE  \E s \in Side : /\ ch[s][k] \in P /\ n \in U[ch[s][k]]
                             /\ U[ch[s][k]] \subseteq U[k] /\ up[ch[s][k]] = k
  <2>1. PICK s \in Side : n \in U[ch[s][k]]
    <3>1. U[k] = U[ch["left"][k]] \cup {k} \cup U[ch["right"][k]]
      BY DEF IsTree
    <3>2. QED
      BY <1>2, <3>1, Sides
  <2>2. ch[s][k] # 0
    BY <2>1 DEF IsTree
  <2>3. QED
    BY <2>1, <2>2, NodeFacts
<1>3. U[n] \subseteq U[m]
  <2>1. PICK B : B = {k \in P : n \in U[k] /\ ~(U[n] \subseteq U[k])}
    OBVIOUS
  <2>2. \A k \in B : \E s \in Side : ch[s][k] \in B
    <3>1. ASSUME NEW k \in B PROVE \E s \in Side : ch[s][k] \in B
      <4>1. k \in P /\ n \in U[k] /\ ~(U[n] \subseteq U[k]) /\ n # k
        BY <2>1
      <4>2. QED
        BY <1>2, <2>1, <4>1
    <3>2. QED
      BY <3>1
  <2>3. B = {}
    BY <2>1, <2>2, NoDescent
  <2>4. QED
    BY <2>1, <2>3
<1>4. n # m => up[n] \in U[m]
  <2>1. PICK B : B = {k \in P : n \in U[k] /\ n # k /\ up[n] \notin U[k]}
    OBVIOUS
  <2>2. \A k \in B : \E s \in Side : ch[s][k] \in B
    <3>1. ASSUME NEW k \in B PROVE \E s \in Side : ch[s][k] \in B
      <4>1. k \in P /\ n \in U[k] /\ n # k /\ up[n] \notin U[k] /\ k \in U[k]
        BY <2>1, NodeFacts
      <4>2. PICK s \in Side : /\ ch[s][k] \in P /\ n \in U[ch[s][k]]
                              /\ U[ch[s][k]] \subseteq U[k] /\ up[ch[s][k]] = k
        BY <1>2, <4>1
      <4>3. n # ch[s][k] /\ up[n] \notin U[ch[s][k]]
        BY <4>1, <4>2
      <4>4. QED
        BY <2>1, <4>2, <4>3
    <3>2. QED
      BY <3>1
  <2>3. B = {}
    BY <2>1, <2>2, NoDescent
  <2>4. QED
    BY <2>1, <2>3
<1>5. n # m => up[n] \in P /\ n # rt
  <2>1. U[m] \in SUBSET P /\ 0 \notin P
    BY NodeFacts, RbNumbers DEF IsTree
  <2>2. n # m => up[n] \in P
    BY <1>4, <2>1
  <2>3. n = rt => up[n] = 0
    BY <1>1, <2>1 DEF IsTree
  <2>4. QED
    BY <2>1, <2>2, <2>3
<1>6. QED
  BY <1>1, <1>3, <1>4, <1>5

(* No other key lies between two that are below a node.                      *)
LEMMA Convex ==
    ASSUME NEW rt, NEW ch, NEW up, NEW P, NEW U, IsTree(rt, ch, up, P, U),
           NEW n \in P, NEW x \in P, NEW y \in U[n], NEW z \in U[n], y < x, x < z
    PROVE  x \in U[n]
<1>1. PICK B : B = {k \in P : x \notin U[k] /\ y \in U[k] /\ z \in U[k]}
  OBVIOUS
<1>2. x \in RbKey /\ y \in RbKey /\ z \in RbKey
  BY SMTT(60), NodeFacts DEF IsTree
<1>3. ASSUME NEW k \in B PROVE k # rt /\ up[k] \in B
  <2>1. k \in P /\ x \notin U[k] /\ y \in U[k] /\ z \in U[k]
    BY <1>1
  <2>2. k # rt
    BY <2>1 DEF IsTree
  <2>3. PICK s \in Side, p \in P : p = up[k] /\ ch[s][p] = k
    BY <2>1, <2>2 DEF IsTree
  <2>4. /\ U[p] = U[k] \cup {p} \cup U[ch[Other(s)][p]]
        /\ \A w \in U[k] : OnSide(s, w, p)
        /\ \A w \in U[ch[Other(s)][p]] : OnSide(Other(s), w, p)
    BY <2>3, NodeFacts, Sides
  <2>5. p \in RbKey /\ OnSide(s, y, p) /\ OnSide(s, z, p)
    BY <2>1, <2>4, NodeFacts
  <2>6. OnSide(s, x, p)
    BY <1>2, <2>5 DEF OnSide, RbKey
  <2>7. x \notin U[p]
    BY <1>2, <2>1, <2>4, <2>5, <2>6, SideOrder
  <2>8. QED
    BY <1>1, <2>1, <2>2, <2>3, <2>4, <2>7
<1>4. B = {}
  BY <1>1, <1>3, NoAscent
<1>5. QED
  BY <1>1, <1>4

-----------------------------------------------------------------------------
(* The leftmost node of a subtree.                                           *)
TreeOf(t, P, U) == IsTree(t.root, t.child, t.up, P, U)

OutFrom(f, t, n, s) ==
    f = [k \in 0..Keys |->
            IF k = 0 THEN n
            ELSE LET m == f[k - 1] IN IF m = 0 \/ t.child[s][m] = 0 THEN m ELSE t.child[s][m]]
OutVia(f) == f[Keys]

GoesOut(f, c, n) ==
    /\ f \in [0..Keys -> RbNode] /\ f[0] = n
    /\ \A k \in 1..Keys : f[k] = IF f[k - 1] = 0 \/ c[f[k - 1]] = 0 THEN f[k - 1] ELSE c[f[k - 1]]

LEMMA OutRepeats ==
    ASSUME NEW t, t.child \in [Side -> [RbKey -> RbNode]], NEW n \in RbNode, NEW s \in Side
    PROVE  \E f : Outermost(t, n, s) = f[Keys] /\ GoesOut(f, t.child[s], n)
<1>1. Outermost(t, n, s) = OutVia(CHOOSE f : OutFrom(f, t, n, s))
  BY Zenon DEF Outermost, OutVia, OutFrom
<1>2. PICK g : g = [m \in RbNode |-> IF m = 0 \/ t.child[s][m] = 0 THEN m ELSE t.child[s][m]]
  OBVIOUS
<1>3. g \in [RbNode -> RbNode]
  BY <1>2, RbNumbers
<1>4. PICK e : Repeats(e, Keys, RbNode, n, g)
  BY <1>3, Iterates, RbNumbers
<1>5. OutFrom(e, t, n, s)
  <2>1. \A k \in 0..Keys : k # 0 => k \in 1..Keys /\ k - 1 \in 0..Keys
    BY RbNumbers
  <2>2. \A k \in 0..Keys : e[k] = IF k = 0 THEN n
            ELSE LET m == e[k - 1] IN IF m = 0 \/ t.child[s][m] = 0 THEN m ELSE t.child[s][m]
    BY <1>2, <1>4, <2>1 DEF Repeats
  <2>3. e = [k \in 0..Keys |-> e[k]]
    BY <1>4 DEF Repeats
  <2>4. QED
    BY <2>2, <2>3 DEF OutFrom
<1>6. PICK f : f = CHOOSE chosen : OutFrom(chosen, t, n, s)
  OBVIOUS
<1>7. OutFrom(f, t, n, s)
  BY SMTT(60), <1>5, <1>6
<1>8. f[0] = n /\ \A k \in 1..Keys :
          f[k] = IF f[k - 1] = 0 \/ t.child[s][f[k - 1]] = 0 THEN f[k - 1] ELSE t.child[s][f[k - 1]]
  <2>1. f = [k \in 0..Keys |->
                IF k = 0 THEN n
                ELSE LET m == f[k - 1] IN IF m = 0 \/ t.child[s][m] = 0 THEN m ELSE t.child[s][m]]
    BY Zenon, <1>7 DEF OutFrom
  <2>2. \A k \in 0..Keys :
           f[k] = IF k = 0 THEN n
                  ELSE LET m == f[k - 1] IN IF m = 0 \/ t.child[s][m] = 0 THEN m ELSE t.child[s][m]
    BY Zenon, <2>1
  <2>3. 0 \in 0..Keys /\ \A k \in 1..Keys : k \in 0..Keys /\ k # 0
    BY RbNumbers
  <2>4. QED
    BY ZenonT(60), <2>2, <2>3
<1>9. f \in [0..Keys -> RbNode]
  <2>1. PICK D : D = {k \in 0..Keys : f[k] \in RbNode}
    OBVIOUS
  <2>2. 0 \in D
    BY <1>8, <2>1, RbNumbers
  <2>3. ASSUME NEW k \in 1..Keys, k - 1 \in D PROVE k \in D
    <3>1. f[k - 1] \in RbNode /\ k \in 0..Keys
      BY <2>1, <2>3
    <3>2. QED
      BY <1>8, <2>1, <3>1, RbNumbers
  <2>4. \A k \in 0..Keys : k \in D
    BY <2>2, <2>3, UpTo, RbNumbers
  <2>5. QED
    BY <1>7, <2>1, <2>4 DEF OutFrom
<1>10. Outermost(t, n, s) = f[Keys]
  BY <1>1, <1>6, Zenon DEF OutVia
<1>11. GoesOut(f, t.child[s], n)
  BY <1>8, <1>9 DEF GoesOut
<1>12. QED
  BY <1>10, <1>11

LEMMA OutermostIs ==
    ASSUME NEW t, NEW P, NEW U, TreeOf(t, P, U), NEW n \in P
    PROVE  \E o \in U[n] : /\ o = Outermost(t, n, "left") /\ t.child["left"][o] = 0
                           /\ \A x \in U[n] : o <= x
<1>1. PICK rt, ch, up : /\ rt = t.root /\ ch = t.child /\ up = t.up
                        /\ IsTree(rt, ch, up, P, U)
  BY DEF TreeOf
<1>2. n \in RbNode /\ "left" \in Side /\ ch \in [Side -> [RbKey -> RbNode]] /\ P \in SUBSET RbKey
  BY <1>1, RbNumbers, Sides DEF IsTree
<1>a. \A x \in U[n] : x \in P /\ x \in RbKey /\ U[x] \subseteq U[n]
  <2>1. ASSUME NEW x \in U[n] PROVE x \in P /\ U[x] \subseteq U[n]
    BY <1>1, Below
  <2>2. QED
    BY <1>2, <2>1
<1>b. PICK f : Outermost(t, n, "left") = f[Keys] /\ GoesOut(f, t.child["left"], n)
  <2>1. t.child \in [Side -> [RbKey -> RbNode]]
    BY <1>1, <1>2
  <2>2. QED
    BY <1>2, <2>1, OutRepeats, Zenon
<1>3. /\ Outermost(t, n, "left") = f[Keys]
      /\ f \in [0..Keys -> RbNode] /\ f[0] = n
      /\ \A k \in 1..Keys :
            f[k] = IF f[k - 1] = 0 \/ ch["left"][f[k - 1]] = 0 THEN f[k - 1]
                   ELSE ch["left"][f[k - 1]]
  BY <1>1, <1>b DEF GoesOut
<1>4. PICK D : D = {k \in 0..Keys : /\ f[k] \in U[n]
                                    /\ \A x \in U[n] : x \in U[f[k]] \/ f[k] < x
                                    /\ ch["left"][f[k]] = 0 \/ f[k] <= Keys - k}
  OBVIOUS
<1>5. 0 \in D
  BY <1>1, <1>2, <1>3, <1>4, NodeFacts, RbNumbers
<1>6. ASSUME NEW k \in 1..Keys, k - 1 \in D PROVE k \in D
  <2>1. PICK m : m = f[k - 1]
    OBVIOUS
  <2>2. /\ m \in U[n] /\ k \in 0..Keys /\ k \in Nat
        /\ \A x \in U[n] : x \in U[m] \/ m < x
        /\ ch["left"][m] = 0 \/ m <= Keys - (k - 1)
    BY <1>4, <1>6, <2>1
  <2>3. m \in P /\ m \in RbKey /\ m # 0 /\ U[m] \in SUBSET U[n]
    BY <1>a, <2>2, RbNumbers
  <2>4. f[k] = IF ch["left"][m] = 0 THEN m ELSE ch["left"][m]
    BY <1>3, <2>1, <2>3
  <2>5. CASE ch["left"][m] = 0
    BY <1>4, <2>2, <2>4, <2>5
  <2>6. CASE ch["left"][m] # 0
    <3>1. PICK c : c = ch["left"][m] /\ f[k] = c
      BY <2>4, <2>6
    <3>2. /\ c \in P /\ c \in U[c] /\ U[c] \in SUBSET P
          /\ U[m] = U[c] \cup {m} \cup U[ch["right"][m]]
          /\ OnSide("left", c, m)
          /\ \A x \in U[ch["right"][m]] : OnSide("right", x, m) /\ x \in RbKey
      BY <1>1, <1>2, <2>3, <2>6, <3>1, NodeFacts, Sides
    <3>3. c < m /\ c \in RbKey /\ \A x \in U[ch["right"][m]] : m < x /\ x \in RbKey
      BY <1>2, <2>3, <3>2, SideOrder
    <3>4. c <= Keys - k
      BY <2>2, <2>3, <2>6, <3>3, RbNumbers
    <3>5. \A x \in U[n] : x \in U[c] \/ c < x
      <4>1. ASSUME NEW x \in U[n] PROVE x \in U[c] \/ c < x
        <5>1. x \in RbKey /\ x \in Nat /\ c \in Nat /\ m \in Nat
          BY <1>a, <2>3, <3>3, RbNumbers
        <5>2. CASE m < x
          BY <3>3, <5>1, <5>2
        <5>3. CASE x \in U[m]
          BY <3>2, <3>3, <5>1, <5>3
        <5>4. QED
          BY <2>2, <5>2, <5>3
      <4>2. QED
        BY <4>1
    <3>6. c \in U[n]
      BY <2>3, <3>2
    <3>7. QED
      BY <1>4, <2>2, <3>1, <3>4, <3>5, <3>6
  <2>7. QED
    BY <2>5, <2>6
<1>7. Keys \in D
  <2>1. \A k \in 0..Keys : k \in D
    BY <1>5, <1>6, UpTo, RbNumbers
  <2>2. QED
    BY <2>1, RbNumbers
<1>8. PICK o : o = f[Keys]
  OBVIOUS
<1>9. o \in U[n] /\ (\A x \in U[n] : x \in U[o] \/ o < x) /\ o \in P /\ o \in RbKey
  BY <1>a, <1>4, <1>7, <1>8
<1>10. ch["left"][o] = 0
  <2>1. ch["left"][o] = 0 \/ o <= Keys - Keys
    BY <1>4, <1>7, <1>8
  <2>2. QED
    BY <1>9, <2>1, RbNumbers
<1>11. \A x \in U[n] : o <= x
  <2>1. U[o] = {o} \cup U[ch["right"][o]]
    BY <1>1, <1>9, <1>10 DEF IsTree
  <2>2. \A x \in U[ch["right"][o]] : OnSide("right", x, o) /\ x \in RbKey
    BY <1>1, <1>9, NodeFacts, Sides
  <2>3. \A x \in U[ch["right"][o]] : o < x
    BY <1>9, <2>2, SideOrder
  <2>4. \A x \in U[n] : x \in RbKey /\ x \in Nat
    BY <1>a, RbNumbers
  <2>5. QED
    BY <1>9, <2>1, <2>3, <2>4, RbNumbers
<1>12. QED
  BY <1>1, <1>3, <1>8, <1>9, <1>10, <1>11

-----------------------------------------------------------------------------
(* The first key, and the next one.                                           *)
IsFirst(P, b) == IF P = {} THEN b = 0 ELSE b \in P /\ \A x \in P : b <= x

Follows(P, n, m) ==
    \/ m = 0 /\ \A x \in P : x <= n
    \/ m \in P /\ n < m /\ \A x \in P : x <= n \/ m <= x

LEMMA FirstIs ==
    ASSUME NEW t, NEW P, NEW U, TreeOf(t, P, U)
    PROVE  IsFirst(P, RbFirst(t))
<1>1. PICK r : r = t.root
  OBVIOUS
<1>2. /\ r \in RbNode /\ P \in SUBSET RbKey /\ U[0] = {} /\ U[r] = P /\ (r # 0 => r \in P)
      /\ t.child \in [Side -> [RbKey -> RbNode]]
  BY <1>1 DEF TreeOf, IsTree
<1>3. RbFirst(t) = Outermost(t, r, "left")
  BY <1>1 DEF RbFirst
<1>4. CASE r # 0
  <2>1. \E o \in U[r] : /\ o = Outermost(t, r, "left") /\ t.child["left"][o] = 0
                        /\ \A x \in U[r] : o <= x
    BY <1>2, <1>4, OutermostIs
  <2>2. QED
    BY <1>2, <1>3, <2>1 DEF IsFirst
<1>5. CASE r = 0
  <2>1. PICK f : Outermost(t, r, "left") = f[Keys] /\ GoesOut(f, t.child["left"], r)
    BY <1>2, Sides, OutRepeats, Zenon
  <2>2. PICK D : D = {k \in 0..Keys : f[k] = 0}
    OBVIOUS
  <2>3. 0 \in D /\ \A k \in 1..Keys : k - 1 \in D => k \in D
    BY <1>5, <2>1, <2>2, RbNumbers DEF GoesOut
  <2>4. Keys \in D
    <3>1. \A k \in 0..Keys : k \in D
      BY <2>3, UpTo, RbNumbers
    <3>2. QED
      BY <3>1, RbNumbers
  <2>5. QED
    BY <1>2, <1>3, <1>5, <2>1, <2>2, <2>4 DEF IsFirst
<1>6. QED
  BY <1>4, <1>5

ClimbFrom(f, t, n) ==
    f = [k \in 0..Keys |->
            IF k = 0 THEN n
            ELSE LET m == f[k - 1] IN
                 IF t.up[m] # 0 /\ t.child["right"][t.up[m]] = m THEN t.up[m] ELSE m]
NextVia(f, t, n) ==
    IF t.child["right"][n] # 0 THEN Outermost(t, t.child["right"][n], "left") ELSE t.up[f[Keys]]

Climbs(f, ch, up, n) ==
    /\ f \in [0..Keys -> RbKey] /\ f[0] = n
    /\ \A k \in 1..Keys : f[k] = IF up[f[k - 1]] # 0 /\ ch["right"][up[f[k - 1]]] = f[k - 1]
                                 THEN up[f[k - 1]] ELSE f[k - 1]

LEMMA ClimbRepeats ==
    ASSUME NEW t, NEW n \in RbKey, t.up \in [RbKey -> RbNode]
    PROVE  \E f : RbNext(t, n) = NextVia(f, t, n) /\ Climbs(f, t.child, t.up, n)
<1>1. RbNext(t, n) = NextVia(CHOOSE f : ClimbFrom(f, t, n), t, n)
  BY Zenon DEF RbNext, NextVia, ClimbFrom
<1>2. PICK g : g = [m \in RbKey |-> IF t.up[m] # 0 /\ t.child["right"][t.up[m]] = m THEN t.up[m] ELSE m]
  OBVIOUS
<1>3. g \in [RbKey -> RbKey]
  BY <1>2, RbNumbers
<1>4. PICK e : Repeats(e, Keys, RbKey, n, g)
  BY <1>3, Iterates, RbNumbers
<1>5. ClimbFrom(e, t, n)
  <2>1. \A k \in 0..Keys : k # 0 => k \in 1..Keys /\ k - 1 \in 0..Keys
    BY RbNumbers
  <2>2. \A k \in 0..Keys : e[k] = IF k = 0 THEN n
            ELSE LET m == e[k - 1] IN
                 IF t.up[m] # 0 /\ t.child["right"][t.up[m]] = m THEN t.up[m] ELSE m
    BY <1>2, <1>4, <2>1 DEF Repeats
  <2>3. e = [k \in 0..Keys |-> e[k]]
    BY <1>4 DEF Repeats
  <2>4. QED
    BY <2>2, <2>3 DEF ClimbFrom
<1>6. PICK f : f = CHOOSE chosen : ClimbFrom(chosen, t, n)
  OBVIOUS
<1>7. ClimbFrom(f, t, n)
  BY <1>5, <1>6
<1>8. f[0] = n /\ \A k \in 1..Keys :
          f[k] = IF t.up[f[k - 1]] # 0 /\ t.child["right"][t.up[f[k - 1]]] = f[k - 1]
                 THEN t.up[f[k - 1]] ELSE f[k - 1]
  <2>1. \A k \in 0..Keys : f[k] = IF k = 0 THEN n
            ELSE LET m == f[k - 1] IN
                 IF t.up[m] # 0 /\ t.child["right"][t.up[m]] = m THEN t.up[m] ELSE m
    BY Zenon, <1>7 DEF ClimbFrom
  <2>2. 0 \in 0..Keys /\ \A k \in 1..Keys : k \in 0..Keys /\ k # 0
    BY SMTT(60), RbNumbers
  <2>3. QED
    BY Zenon, <2>1, <2>2
<1>9. f \in [0..Keys -> RbKey]
  <2>1. PICK D : D = {k \in 0..Keys : f[k] \in RbKey}
    OBVIOUS
  <2>2. 0 \in D
    BY <1>8, <2>1, RbNumbers
  <2>3. ASSUME NEW k \in 1..Keys, k - 1 \in D PROVE k \in D
    <3>1. f[k - 1] \in RbKey /\ k \in 0..Keys
      BY <2>1, <2>3
    <3>2. QED
      BY <1>8, <2>1, <3>1, RbNumbers
  <2>4. \A k \in 0..Keys : k \in D
    BY <2>2, <2>3, UpTo, RbNumbers
  <2>5. QED
    BY <1>7, <2>1, <2>4 DEF ClimbFrom
<1>10. RbNext(t, n) = NextVia(f, t, n)
  BY <1>1, <1>6, Zenon
<1>11. Climbs(f, t.child, t.up, n)
  BY <1>8, <1>9 DEF Climbs
<1>12. QED
  BY <1>10, <1>11

(* rb_next: the first of the right subtree, or the first ancestor to the right. *)
LEMMA NextIs ==
    ASSUME NEW t, NEW P, NEW U, TreeOf(t, P, U), NEW n \in P
    PROVE  Follows(P, n, RbNext(t, n))
<1>1. PICK rt, ch, up : /\ rt = t.root /\ ch = t.child /\ up = t.up
                        /\ IsTree(rt, ch, up, P, U)
  BY DEF TreeOf
<1>2. /\ n \in RbKey /\ P \in SUBSET RbKey /\ up \in [RbKey -> RbNode] /\ U[rt] = P
      /\ "left" \in Side /\ "right" \in Side /\ 0 \notin P
      /\ \A x \in P : x \in RbKey /\ x \in Nat
  BY <1>1, RbNumbers, Sides DEF IsTree
<1>3. PICK f : RbNext(t, n) = NextVia(f, t, n) /\ Climbs(f, ch, up, n)
  BY <1>1, <1>2, ClimbRepeats, Zenon
<1>4. \A y \in P : /\ y \in U[y] /\ U[y] = U[ch["left"][y]] \cup {y} \cup U[ch["right"][y]]
                   /\ \A x \in U[ch["left"][y]] : x \in P /\ x < y
                   /\ \A x \in U[ch["right"][y]] : x \in P /\ y < x
  <2>1. ASSUME NEW y \in P
        PROVE  /\ y \in U[y] /\ U[y] = U[ch["left"][y]] \cup {y} \cup U[ch["right"][y]]
               /\ \A x \in U[ch["left"][y]] : x \in P /\ x < y
               /\ \A x \in U[ch["right"][y]] : x \in P /\ y < x
    <3>1. U[y] = U[ch["left"][y]] \cup {y} \cup U[ch["right"][y]]
      BY <1>1 DEF IsTree
    <3>2. \A s \in Side : \A x \in U[ch[s][y]] : OnSide(s, x, y) /\ x \in P
      BY <1>1, NodeFacts
    <3>3. QED
      BY <1>2, <3>1, <3>2, SideOrder
  <2>2. QED
    BY <2>1
<1>5. CASE ch["right"][n] # 0
  <2>1. PICK c : c = ch["right"][n]
    OBVIOUS
  <2>2. c \in P
    BY <1>1, <1>2, <1>5, <2>1, NodeFacts
  <2>3. RbNext(t, n) = Outermost(t, c, "left")
    BY <1>1, <1>3, <1>5, <2>1 DEF NextVia
  <2>4. PICK o \in U[c] : o = Outermost(t, c, "left") /\ \A x \in U[c] : o <= x
    BY <2>2, OutermostIs
  <2>5. o \in P /\ n < o /\ o \in U[n]
    BY <1>4, <2>1, <2>4
  <2>6. ASSUME NEW x \in P PROVE x <= n \/ o <= x
    <3>1. SUFFICES ASSUME n < x, x < o PROVE FALSE
      BY <1>2, <2>5
    <3>2. x \in U[n]
      BY <1>1, <1>4, <2>5, <3>1, Convex
    <3>3. x \in U[c] \/ x = n \/ x < n
      BY <1>4, <2>1, <3>2
    <3>4. QED
      BY <1>2, <2>4, <2>5, <3>1, <3>3
  <2>7. QED
    BY <2>3, <2>4, <2>5, <2>6 DEF Follows
<1>6. CASE ch["right"][n] = 0
  <2>1. RbNext(t, n) = up[f[Keys]]
    BY <1>1, <1>3, <1>6 DEF NextVia
  <2>2. PICK D : D = {k \in 0..Keys : /\ f[k] \in P /\ n \in U[f[k]] /\ \A x \in U[f[k]] : x <= n
                                      /\ \/ f[k] <= Keys - k
                                         \/ ~(up[f[k]] # 0 /\ ch["right"][up[f[k]]] = f[k])}
    OBVIOUS
  <2>3. 0 \in D
    <3>1. \A x \in U[n] : x <= n
      <4>1. U[0] = {}
        BY <1>1 DEF IsTree
      <4>2. QED
        BY <1>2, <1>4, <1>6, <4>1
    <3>2. n <= Keys - 0 /\ 0 \in 0..Keys
      BY <1>2, RbNumbers
    <3>3. QED
      BY <1>3, <1>4, <2>2, <3>1, <3>2 DEF Climbs
  <2>4. ASSUME NEW k \in 1..Keys, k - 1 \in D PROVE k \in D
    <3>1. PICK m : m = f[k - 1]
      OBVIOUS
    <3>2. /\ m \in P /\ n \in U[m] /\ \A x \in U[m] : x <= n
          /\ m <= Keys - (k - 1) \/ ~(up[m] # 0 /\ ch["right"][up[m]] = m)
          /\ k \in 0..Keys /\ k \in Nat
      BY <2>2, <2>4, <3>1
    <3>3. f[k] = IF up[m] # 0 /\ ch["right"][up[m]] = m THEN up[m] ELSE m
      BY <1>3, <3>1 DEF Climbs
    <3>4. CASE ~(up[m] # 0 /\ ch["right"][up[m]] = m)
      BY <2>2, <3>2, <3>3, <3>4
    <3>5. CASE up[m] # 0 /\ ch["right"][up[m]] = m
      <4>1. PICK p : p = up[m] /\ f[k] = p
        BY <3>3, <3>5
      <4>2. m # rt
        BY <1>1, <3>2, <3>5 DEF IsTree
      <4>3. p \in P /\ ch["right"][p] = m
        BY <1>1, <3>2, <3>5, <4>1, <4>2 DEF IsTree
      <4>4. n \in U[p] /\ p < m /\ p < n
        BY <1>4, <3>2, <4>3
      <4>5. \A x \in U[p] : x <= n
        BY <1>2, <1>4, <3>2, <4>3, <4>4
      <4>6. p <= Keys - k
        BY <1>2, <3>2, <3>5, <4>3, <4>4, RbNumbers
      <4>7. QED
        BY <2>2, <3>2, <4>1, <4>3, <4>4, <4>5, <4>6
    <3>6. QED
      BY <3>4, <3>5
  <2>5. Keys \in D
    <3>1. \A k \in 0..Keys : k \in D
      BY <2>3, <2>4, UpTo, RbNumbers
    <3>2. QED
      BY <3>1, RbNumbers
  <2>6. PICK m : m = f[Keys]
    OBVIOUS
  <2>7. m \in P /\ n \in U[m] /\ (\A x \in U[m] : x <= n) /\ m \in Nat /\ m # 0
    BY <1>2, <2>2, <2>5, <2>6
  <2>8. ~(up[m] # 0 /\ ch["right"][up[m]] = m)
    BY <2>2, <2>5, <2>6, <2>7, RbNumbers
  <2>9. CASE m = rt
    <3>1. up[m] = 0
      BY <1>1, <2>7, <2>9 DEF IsTree
    <3>2. QED
      BY <1>2, <2>1, <2>6, <2>7, <2>9, <3>1 DEF Follows
  <2>10. CASE m # rt
    <3>1. PICK p : p = up[m]
      OBVIOUS
    <3>2. p \in P /\ ch["left"][p] = m
      <4>1. p \in P /\ \E s \in Side : ch[s][p] = m
        BY <1>1, <2>7, <2>10, <3>1 DEF IsTree
      <4>2. QED
        BY <1>2, <2>8, <3>1, <4>1, Sides
    <3>3. n < p /\ n \in U[p] /\ p \in U[p]
      BY <1>4, <2>7, <3>2
    <3>4. ASSUME NEW x \in P PROVE x <= n \/ p <= x
      <4>1. SUFFICES ASSUME n < x, x < p PROVE FALSE
        BY <1>2, <3>2
      <4>2. x \in U[p]
        BY <1>1, <3>2, <3>3, <4>1, Convex
      <4>3. x \in U[m] \/ x = p \/ p < x
        BY <1>4, <3>2, <4>2
      <4>4. n \in Nat /\ p \in Nat /\ x \in Nat
        BY <1>2, <3>2
      <4>5. x \notin U[m]
        BY <2>7, <4>1, <4>4
      <4>6. QED
        BY <4>1, <4>3, <4>4, <4>5
    <3>5. QED
      BY <2>1, <2>6, <3>1, <3>2, <3>3, <3>4 DEF Follows
  <2>11. QED
    BY <2>9, <2>10
<1>7. QED
  BY <1>5, <1>6

-----------------------------------------------------------------------------
(* Going through the map from begin.                                         *)
OrderFrom(f) ==
    f = [k \in 0..Keys |->
            IF k = 0 THEN rb_begin
            ELSE LET m == f[k - 1] IN IF m = 0 THEN 0 ELSE RbNext(tree, m)]
OrderVia(f) ==
    LET Met == {k \in 0..Keys : f[k] # 0} IN [k \in 1..Cardinality(Met) |-> f[k - 1]]

GoesOn(f, P) ==
    /\ f \in [0..Keys -> P \cup {0}] /\ f[0] = rb_begin
    /\ \A k \in 1..Keys : f[k] = IF f[k - 1] = 0 THEN 0 ELSE RbNext(tree, f[k - 1])

LEMMA OrderRepeats ==
    ASSUME NEW P, NEW U, TreeOf(tree, P, U), IsFirst(P, rb_begin)
    PROVE  \E f : InOrder = OrderVia(f) /\ GoesOn(f, P)
<1>1. InOrder = OrderVia(CHOOSE f : OrderFrom(f))
  BY Zenon DEF InOrder, OrderVia, OrderFrom
<1>2. PICK S : S = P \cup {0}
  OBVIOUS
<1>3. rb_begin \in S /\ 0 \notin P
  <2>1. P \in SUBSET RbKey
    BY DEF TreeOf, IsTree
  <2>2. QED
    BY <1>2, <2>1, RbNumbers DEF IsFirst
<1>4. \A m \in P : RbNext(tree, m) \in S
  <2>1. ASSUME NEW m \in P PROVE RbNext(tree, m) \in S
    <3>1. Follows(P, m, RbNext(tree, m))
      BY NextIs
    <3>2. QED
      BY <1>2, <3>1 DEF Follows
  <2>2. QED
    BY <2>1
<1>5. PICK g : g = [m \in S |-> IF m = 0 THEN 0 ELSE RbNext(tree, m)]
  OBVIOUS
<1>6. g \in [S -> S]
  BY <1>2, <1>4, <1>5
<1>7. PICK e : Repeats(e, Keys, S, rb_begin, g)
  BY <1>3, <1>6, Iterates, RbNumbers
<1>8. OrderFrom(e)
  <2>1. \A k \in 0..Keys : k # 0 => k \in 1..Keys /\ k - 1 \in 0..Keys
    BY RbNumbers
  <2>2. \A k \in 0..Keys : e[k] = IF k = 0 THEN rb_begin
            ELSE LET m == e[k - 1] IN IF m = 0 THEN 0 ELSE RbNext(tree, m)
    BY <1>5, <1>7, <2>1 DEF Repeats
  <2>3. e = [k \in 0..Keys |-> e[k]]
    BY <1>7 DEF Repeats
  <2>4. QED
    BY <2>2, <2>3 DEF OrderFrom
<1>9. PICK f : f = CHOOSE chosen : OrderFrom(chosen)
  OBVIOUS
<1>10. OrderFrom(f)
  BY <1>8, <1>9
<1>11. f[0] = rb_begin /\ \A k \in 1..Keys : f[k] = IF f[k - 1] = 0 THEN 0 ELSE RbNext(tree, f[k - 1])
  <2>1. \A k \in 0..Keys : f[k] = IF k = 0 THEN rb_begin
            ELSE LET m == f[k - 1] IN IF m = 0 THEN 0 ELSE RbNext(tree, m)
    BY <1>10 DEF OrderFrom
  <2>2. 0 \in 0..Keys /\ \A k \in 1..Keys : k \in 0..Keys /\ k # 0
    BY RbNumbers
  <2>3. QED
    BY <2>1, <2>2
<1>12. f \in [0..Keys -> S]
  <2>1. PICK D : D = {k \in 0..Keys : f[k] \in S}
    OBVIOUS
  <2>2. 0 \in D
    BY <1>3, <1>11, <2>1, RbNumbers
  <2>3. ASSUME NEW k \in 1..Keys, k - 1 \in D PROVE k \in D
    <3>1. f[k - 1] \in S /\ k \in 0..Keys
      BY <2>1, <2>3
    <3>2. QED
      BY <1>2, <1>4, <1>11, <2>1, <3>1
  <2>4. \A k \in 0..Keys : k \in D
    BY <2>2, <2>3, UpTo, RbNumbers
  <2>5. QED
    BY <1>10, <2>1, <2>4 DEF OrderFrom
<1>13. InOrder = OrderVia(f)
  BY <1>1, <1>9, Zenon
<1>14. GoesOn(f, P)
  BY <1>2, <1>11, <1>12 DEF GoesOn
<1>15. QED
  BY <1>13, <1>14

LEMMA InOrderIs ==
    ASSUME NEW P, NEW U, TreeOf(tree, P, U), IsFirst(P, rb_begin)
    PROVE  /\ {InOrder[i] : i \in DOMAIN InOrder} = P
           /\ \A i \in 1..(Len(InOrder) - 1) : InOrder[i] < InOrder[i + 1]
<1>1. PICK f : InOrder = OrderVia(f) /\ GoesOn(f, P)
  BY OrderRepeats
<1>2. /\ P \in SUBSET RbKey /\ 0 \notin P /\ Keys \in Nat
      /\ \A x \in P : x \in Nat /\ x # 0 /\ x <= Keys
  BY RbNumbers DEF TreeOf, IsTree
<1>3. /\ f \in [0..Keys -> P \cup {0}] /\ f[0] = rb_begin
      /\ \A k \in 1..Keys : f[k] = IF f[k - 1] = 0 THEN 0 ELSE RbNext(tree, f[k - 1])
  BY <1>1 DEF GoesOn
<1>4. \A k \in 1..Keys : f[k - 1] # 0 => f[k - 1] \in P /\ Follows(P, f[k - 1], f[k])
  <2>1. ASSUME NEW k \in 1..Keys, f[k - 1] # 0 PROVE f[k - 1] \in P /\ Follows(P, f[k - 1], f[k])
    <3>1. k - 1 \in 0..Keys
      BY <1>2
    <3>2. f[k - 1] \in P
      BY <1>3, <2>1, <3>1
    <3>3. QED
      BY <1>3, <2>1, <3>2, NextIs
  <2>2. QED
    BY <2>1
<1>5. PICK D : D = {k \in 0..Keys :
                      \/ f[k] = 0 /\ \A x \in P : \E j \in 0..(k - 1) : f[j] = x
                      \/ /\ f[k] \in P /\ f[k] > k
                         /\ \A x \in P : f[k] <= x \/ \E j \in 0..(k - 1) : f[j] = x}
  OBVIOUS
<1>6. 0 \in D
  BY <1>2, <1>3, <1>5 DEF IsFirst
<1>7. ASSUME NEW k \in 1..Keys, k - 1 \in D PROVE k \in D
  <2>1. k \in 0..Keys /\ k - 1 \in 0..Keys /\ k \in Nat /\ k - 1 \in 0..(k - 1)
    BY <1>2
  <2>2. \A j \in 0..(k - 1 - 1) : j \in 0..(k - 1)
    BY <2>1
  <2>3. CASE f[k - 1] = 0
    <3>1. f[k] = 0 /\ \A x \in P : \E j \in 0..(k - 1 - 1) : f[j] = x
      BY <1>2, <1>3, <1>5, <1>7, <2>3
    <3>2. \A x \in P : \E j \in 0..(k - 1) : f[j] = x
      BY <2>2, <3>1
    <3>3. QED
      BY <1>5, <2>1, <3>1, <3>2
  <2>4. CASE f[k - 1] # 0
    <3>1. PICK m : m = f[k - 1]
      OBVIOUS
    <3>2. m \in P /\ Follows(P, m, f[k])
      BY <1>4, <2>4, <3>1
    <3>3. m > k - 1 /\ \A x \in P : m <= x \/ \E j \in 0..(k - 1 - 1) : f[j] = x
      BY <1>5, <1>7, <2>4, <3>1
    <3>4. \A x \in P : m <= x \/ \E j \in 0..(k - 1) : f[j] = x
      BY <2>2, <3>3
    <3>5. \A x \in P : m < x \/ \E j \in 0..(k - 1) : f[j] = x
      <4>1. ASSUME NEW x \in P, ~(m < x) PROVE \E j \in 0..(k - 1) : f[j] = x
        <5>1. CASE x = m
          BY <2>1, <3>1, <5>1
        <5>2. CASE x # m
          BY <1>2, <3>2, <3>4, <4>1, <5>2
        <5>3. QED
          BY <5>1, <5>2
      <4>2. QED
        BY <4>1
    <3>6. CASE f[k] = 0
      <4>1. \A x \in P : x <= m
        BY <1>2, <3>2, <3>6 DEF Follows
      <4>2. \A x \in P : \E j \in 0..(k - 1) : f[j] = x
        <5>1. ASSUME NEW x \in P PROVE \E j \in 0..(k - 1) : f[j] = x
          <6>1. ~(m < x)
            BY <1>2, <3>2, <4>1
          <6>2. QED
            BY <3>5, <6>1
        <5>2. QED
          BY <5>1
      <4>3. QED
        BY <1>5, <2>1, <3>6, <4>2
    <3>7. CASE f[k] # 0
      <4>1. f[k] \in P /\ m < f[k] /\ \A x \in P : x <= m \/ f[k] <= x
        BY <3>2, <3>7 DEF Follows
      <4>2. f[k] > k
        BY <1>2, <2>1, <3>2, <3>3, <4>1
      <4>3. \A x \in P : f[k] <= x \/ \E j \in 0..(k - 1) : f[j] = x
        <5>1. ASSUME NEW x \in P, ~(f[k] <= x) PROVE \E j \in 0..(k - 1) : f[j] = x
          <6>1. ~(m < x)
            BY <1>2, <3>2, <4>1, <5>1
          <6>2. QED
            BY <3>5, <6>1
        <5>2. QED
          BY <5>1
      <4>4. QED
        BY <1>5, <2>1, <4>1, <4>2, <4>3
    <3>8. QED
      BY <3>6, <3>7
  <2>5. QED
    BY <2>3, <2>4
<1>8. Keys \in D
  <2>1. \A k \in 0..Keys : k \in D
    BY <1>2, <1>6, <1>7, UpTo
  <2>2. QED
    BY <1>2, <2>1
<1>9. f[Keys] = 0 /\ \A x \in P : \E j \in 0..(Keys - 1) : f[j] = x
  <2>1. ~(f[Keys] \in P /\ f[Keys] > Keys)
    BY <1>2
  <2>2. QED
    BY <1>5, <1>8, <2>1
<1>10. PICK c \in 0..Keys : f[c] = 0 /\ \A j \in 0..Keys : f[j] = 0 => c <= j
  <2>1. PICK T : T = {j \in 0..Keys : f[j] = 0}
    OBVIOUS
  <2>2. T \in SUBSET Nat /\ T # {}
    BY <1>2, <1>9, <2>1
  <2>3. \E x \in T : \A y \in T : x <= y
    BY <2>2, LeastNatural
  <2>4. QED
    BY <2>1, <2>3
<1>11. \A j \in 0..Keys : f[j] # 0 <=> j < c
  <2>1. PICK E : E = {j \in 0..Keys : j < c \/ f[j] = 0}
    OBVIOUS
  <2>2. 0 \in E
    BY <1>2, <1>10, <2>1
  <2>3. ASSUME NEW j \in 1..Keys, j - 1 \in E PROVE j \in E
    <3>1. j \in 0..Keys /\ j \in Nat /\ c \in Nat
      BY <1>2
    <3>2. CASE j - 1 < c
      BY <1>10, <2>1, <3>1, <3>2
    <3>3. CASE f[j - 1] = 0
      BY <1>3, <2>1, <3>1, <3>3
    <3>4. QED
      BY <2>1, <2>3, <3>2, <3>3
  <2>4. \A j \in 0..Keys : j \in E
    BY <1>2, <2>2, <2>3, UpTo
  <2>5. ASSUME NEW j \in 0..Keys PROVE f[j] # 0 <=> j < c
    <3>1. f[j] = 0 => c <= j
      BY <1>10
    <3>2. j < c \/ f[j] = 0
      BY <2>1, <2>4
    <3>3. QED
      BY <3>1, <3>2
  <2>6. QED
    BY <2>5
<1>12. Cardinality({k \in 0..Keys : f[k] # 0}) = c
  <2>1. {k \in 0..Keys : f[k] # 0} = 0..(c - 1)
    BY <1>2, <1>11
  <2>2. 0 \in Int /\ c - 1 \in Int /\ c \in Nat
    BY <1>2
  <2>3. Cardinality(0..(c - 1)) = IF 0 > c - 1 THEN 0 ELSE c - 1 - 0 + 1
    BY <2>2, FS_Interval
  <2>4. Cardinality(0..(c - 1)) = c
    BY <2>2, <2>3
  <2>5. QED
    BY <2>1, <2>4
<1>13. PICK q : q = InOrder
  OBVIOUS
<1>14. q = [k \in 1..c |-> f[k - 1]]
  BY <1>1, <1>12, <1>13 DEF OrderVia
<1>15. \A k \in 1..c : k - 1 \in 0..Keys /\ f[k - 1] \in P
  <2>1. ASSUME NEW k \in 1..c PROVE k - 1 \in 0..Keys /\ f[k - 1] \in P
    <3>1. k - 1 \in 0..Keys /\ k - 1 < c
      BY <1>2
    <3>2. QED
      BY <1>3, <1>11, <3>1
  <2>2. QED
    BY <2>1
<1>16. q \in [1..c -> P] /\ c \in Nat
  BY <1>2, <1>14, <1>15
<1>17. Len(q) = c /\ DOMAIN q = 1..c
  BY <1>16, FunctionIsSeq
<1>18. {q[i] : i \in DOMAIN q} = P
  <2>1. ASSUME NEW x \in P PROVE \E i \in 1..c : q[i] = x
    <3>1. PICK j \in 0..(Keys - 1) : f[j] = x
      BY <1>9
    <3>2. j \in 0..Keys /\ j < c /\ j \in Nat
      BY <1>2, <1>11, <3>1
    <3>3. j + 1 \in 1..c /\ j + 1 - 1 = j
      BY <1>16, <3>2
    <3>4. q[j + 1] = x
      BY <1>14, <3>1, <3>3
    <3>5. QED
      BY <3>3, <3>4
  <2>2. \A i \in 1..c : q[i] \in P
    BY <1>16
  <2>3. QED
    BY <1>17, <2>1, <2>2
<1>19. ASSUME NEW i \in 1..(Len(q) - 1) PROVE q[i] < q[i + 1]
  <2>1. i \in 1..c /\ i + 1 \in 1..c /\ i \in 1..Keys /\ i + 1 - 1 = i /\ i \in Nat
    BY <1>2, <1>16, <1>17
  <2>2. q[i] = f[i - 1] /\ q[i + 1] = f[i]
    BY <1>14, <2>1
  <2>3. f[i - 1] # 0 /\ f[i] # 0
    <3>1. q[i] \in P /\ q[i + 1] \in P
      BY <1>16, <2>1
    <3>2. QED
      BY <1>2, <2>2, <3>1
  <2>4. Follows(P, f[i - 1], f[i])
    BY <1>4, <2>1, <2>3
  <2>5. QED
    BY <2>2, <2>3, <2>4 DEF Follows
<1>20. QED
  BY <1>13, <1>18, <1>19

-----------------------------------------------------------------------------
(* Going down by comparing keys.                                              *)
PathFrom(f, k) ==
    f = [i \in 0..Keys |->
            IF i = 0 THEN tree.root
            ELSE LET m == f[i - 1] IN
                 IF m \in {0, k} THEN m ELSE tree.child[Toward(k, m)][m]]

GoesDown(f, rt, ch, k) ==
    /\ f \in [0..Keys -> RbNode] /\ f[0] = rt
    /\ \A i \in 1..Keys : f[i] = IF f[i - 1] \in {0, k} THEN f[i - 1]
                                 ELSE ch[Toward(k, f[i - 1])][f[i - 1]]

LEMMA TowardSide ==
    ASSUME NEW k \in RbKey, NEW m \in RbKey, m # k
    PROVE  Toward(k, m) \in Side /\ OnSide(Toward(k, m), k, m) /\ ~OnSide(Other(Toward(k, m)), k, m)
<1>1. k \in Int /\ m \in Int
  BY RbNumbers
<1>2. QED
  BY <1>1 DEF Toward, OnSide, Side, Other

LEMMA PathRepeats ==
    ASSUME NEW k \in RbKey, tree.root \in RbNode, tree.child \in [Side -> [RbKey -> RbNode]]
    PROVE  GoesDown(Path(k), tree.root, tree.child, k)
<1>1. Path(k) = CHOOSE f : PathFrom(f, k)
  BY Zenon DEF Path, PathFrom
<1>2. PICK g : g = [m \in RbNode |-> IF m \in {0, k} THEN m ELSE tree.child[Toward(k, m)][m]]
  OBVIOUS
<1>3. \A m \in RbNode : m \notin {0, k} => tree.child[Toward(k, m)][m] \in RbNode
  <2>1. ASSUME NEW m \in RbNode, m \notin {0, k} PROVE tree.child[Toward(k, m)][m] \in RbNode
    <3>1. m \in RbKey /\ Toward(k, m) \in Side
      BY <2>1, RbNumbers, TowardSide
    <3>2. QED
      BY <3>1
  <2>2. QED
    BY <2>1
<1>4. g \in [RbNode -> RbNode]
  BY <1>2, <1>3
<1>5. PICK e : Repeats(e, Keys, RbNode, tree.root, g)
  BY <1>4, Iterates, RbNumbers
<1>6. PathFrom(e, k)
  <2>1. \A i \in 0..Keys : i # 0 => i \in 1..Keys /\ i - 1 \in 0..Keys
    BY RbNumbers
  <2>2. \A i \in 0..Keys : e[i] = IF i = 0 THEN tree.root
            ELSE LET m == e[i - 1] IN IF m \in {0, k} THEN m ELSE tree.child[Toward(k, m)][m]
    BY <1>2, <1>5, <2>1 DEF Repeats
  <2>3. e = [i \in 0..Keys |-> e[i]]
    BY <1>5 DEF Repeats
  <2>4. QED
    BY <2>2, <2>3 DEF PathFrom
<1>7. PICK f : f = Path(k)
  OBVIOUS
<1>8. PathFrom(f, k)
  BY <1>1, <1>6, <1>7
<1>9. f[0] = tree.root /\ \A i \in 1..Keys : f[i] = IF f[i - 1] \in {0, k} THEN f[i - 1]
                                 ELSE tree.child[Toward(k, f[i - 1])][f[i - 1]]
  <2>1. \A i \in 0..Keys : f[i] = IF i = 0 THEN tree.root
            ELSE LET m == f[i - 1] IN IF m \in {0, k} THEN m ELSE tree.child[Toward(k, m)][m]
    BY Zenon, <1>8 DEF PathFrom
  <2>2. 0 \in 0..Keys /\ \A i \in 1..Keys : i \in 0..Keys /\ i # 0
    BY RbNumbers
  <2>3. QED
    BY <2>1, <2>2
<1>10. f \in [0..Keys -> RbNode]
  <2>1. PICK D : D = {i \in 0..Keys : f[i] \in RbNode}
    OBVIOUS
  <2>2. 0 \in D
    BY <1>9, <2>1, RbNumbers
  <2>3. ASSUME NEW i \in 1..Keys, i - 1 \in D PROVE i \in D
    <3>1. f[i - 1] \in RbNode /\ i \in 0..Keys
      BY <2>1, <2>3
    <3>2. QED
      BY <1>3, <1>9, <2>1, <3>1
  <2>4. \A i \in 0..Keys : i \in D
    BY <2>2, <2>3, UpTo, RbNumbers
  <2>5. QED
    BY <1>8, <2>1, <2>4 DEF PathFrom
<1>11. QED
  BY <1>7, <1>9, <1>10 DEF GoesDown

(* Every node on whose side m lies has k on the same side.                    *)
Guides(ch, P, U, k, m) == \A a \in P : \A s \in Side : m \in U[ch[s][a]] => OnSide(s, k, a)

LEMMA PathIs ==
    ASSUME NEW P, NEW U, TreeOf(tree, P, U), NEW k \in RbKey
    PROVE  /\ k \in P => Find(k) = k
           /\ k \notin P => /\ Find(k) = 0
                            /\ \A i \in 0..Keys :
                                 Path(k)[i] # 0 => /\ Path(k)[i] \in P
                                                   /\ Guides(tree.child, P, U, k, Path(k)[i])
<1>1. PICK rt, ch, up : /\ rt = tree.root /\ ch = tree.child /\ up = tree.up
                        /\ IsTree(rt, ch, up, P, U)
  BY DEF TreeOf
<1>2. /\ rt \in RbNode /\ ch \in [Side -> [RbKey -> RbNode]] /\ P \in SUBSET RbKey /\ 0 \notin P
      /\ Keys \in Nat
      /\ U[rt] = P /\ U[0] = {} /\ (rt # 0 => rt \in P)
      /\ \A m \in P : m \in RbKey
  BY <1>1, RbNumbers DEF IsTree
<1>3. PICK f : f = Path(k) /\ GoesDown(f, rt, ch, k)
  BY <1>1, <1>2, PathRepeats
<1>4. /\ f \in [0..Keys -> RbNode] /\ f[0] = rt
      /\ \A i \in 1..Keys : f[i] = IF f[i - 1] \in {0, k} THEN f[i - 1]
                                   ELSE ch[Toward(k, f[i - 1])][f[i - 1]]
  BY <1>3 DEF GoesDown
<1>5. PICK D : D = {i \in 0..Keys :
                      \/ f[i] = 0
                      \/ /\ f[i] \in P /\ Guides(ch, P, U, k, f[i])
                         /\ f[i] = k \/ Cardinality(U[f[i]]) <= Keys - i}
  OBVIOUS
<1>6. 0 \in D
  <2>1. SUFFICES ASSUME rt # 0 PROVE 0 \in D
    BY <1>2, <1>4, <1>5
  <2>2. Guides(ch, P, U, k, rt)
    <3>1. ASSUME NEW a \in P, NEW s \in Side, rt \in U[ch[s][a]] PROVE FALSE
      <4>1. a # rt /\ rt \in U[a]
        BY <1>1, <3>1, NodeFacts
      <4>2. QED
        BY <1>1, <4>1, Below
    <3>2. QED
      BY <3>1 DEF Guides
  <2>3. Cardinality(U[rt]) <= Keys - 0
    BY <1>1, <1>2, <2>1, Cards
  <2>4. QED
    BY <1>2, <1>4, <1>5, <2>1, <2>2, <2>3
<1>7. ASSUME NEW i \in 1..Keys, i - 1 \in D PROVE i \in D
  <2>1. i \in 0..Keys /\ i - 1 \in 0..Keys /\ i \in Nat
    BY <1>2
  <2>2. PICK m : m = f[i - 1]
    OBVIOUS
  <2>3. f[i] = IF m \in {0, k} THEN m ELSE ch[Toward(k, m)][m]
    BY <1>4, <2>2
  <2>4. CASE m = 0
    BY <1>5, <2>1, <2>3, <2>4
  <2>5. CASE m # 0
    <3>1. m \in P /\ m \in RbKey /\ Guides(ch, P, U, k, m)
          /\ (m = k \/ Cardinality(U[m]) <= Keys - (i - 1))
      BY <1>2, <1>5, <1>7, <2>2, <2>5
    <3>2. CASE m = k
      BY <1>5, <2>1, <2>3, <3>1, <3>2
    <3>3. CASE m # k
      <4>1. PICK s, c : s = Toward(k, m) /\ c = ch[s][m] /\ f[i] = c
        BY <2>3, <2>5, <3>3
      <4>2. s \in Side /\ OnSide(s, k, m) /\ ~OnSide(Other(s), k, m)
        BY <3>1, <3>3, <4>1, TowardSide
      <4>3. CASE c = 0
        BY <1>5, <2>1, <4>1, <4>3
      <4>4. CASE c # 0
        <5>1. c \in P /\ c \in U[c] /\ up[c] = m
          BY <1>1, <3>1, <4>1, <4>2, <4>4, NodeFacts
        <5>2. Cardinality(U[c]) <= Keys - i
          <6>1. Cardinality(U[c]) \in Nat /\ Cardinality(U[m]) \in Nat /\ Cardinality(U[c]) < Cardinality(U[m])
            BY <1>1, <3>1, <4>1, <4>2, <5>1, Cards
          <6>2. QED
            BY <1>2, <2>1, <3>1, <3>3, <6>1
        <5>3. Guides(ch, P, U, k, c)
          <6>1. ASSUME NEW a \in P, NEW u \in Side, c \in U[ch[u][a]] PROVE OnSide(u, k, a)
            <7>1. CASE ch[u][a] = c
              <8>1. a = m
                BY <1>1, <4>4, <5>1, <7>1, NodeFacts
              <8>2. u = s
                <9>1. ch[Other(s)][m] # c
                  BY <1>1, <3>1, <4>1, <4>2, <4>4, NodeFacts
                <9>2. QED
                  BY <4>2, <7>1, <8>1, <9>1, Sides
              <8>3. QED
                BY <4>2, <8>1, <8>2
            <7>2. CASE ch[u][a] # c
              <8>1. PICK b : b = ch[u][a] /\ b # 0
                BY <1>2, <6>1
              <8>2. b \in P
                BY <1>1, <8>1, NodeFacts
              <8>3. m \in U[b]
                BY <1>1, <5>1, <6>1, <7>2, <8>1, <8>2, Below
              <8>4. QED
                BY <3>1, <8>1, <8>3 DEF Guides
            <7>3. QED
              BY <7>1, <7>2
          <6>2. QED
            BY <6>1 DEF Guides
        <5>4. QED
          BY <1>5, <2>1, <4>1, <5>1, <5>2, <5>3
      <4>5. QED
        BY <4>3, <4>4
    <3>4. QED
      BY <3>2, <3>3
  <2>6. QED
    BY <2>4, <2>5
<1>8. \A i \in 0..Keys : i \in D
  BY <1>2, <1>6, <1>7, UpTo
<1>9. f[Keys] = 0 \/ f[Keys] = k
  <2>1. Keys \in D /\ Keys - Keys = 0
    BY <1>2, <1>8
  <2>2. ASSUME f[Keys] \in P PROVE ~(Cardinality(U[f[Keys]]) <= 0)
    BY <1>1, <2>2, Cards
  <2>3. QED
    BY <1>5, <2>1, <2>2
<1>10. ASSUME k \in P PROVE Find(k) = k
  <2>1. PICK E : E = {i \in 0..Keys : f[i] \in P /\ k \in U[f[i]]}
    OBVIOUS
  <2>2. 0 \in E
    <3>1. rt # 0
      BY <1>2, <1>10
    <3>2. QED
      BY <1>2, <1>4, <1>10, <2>1, <3>1
  <2>3. ASSUME NEW i \in 1..Keys, i - 1 \in E PROVE i \in E
    <3>1. PICK m : m = f[i - 1] /\ m \in P /\ k \in U[m] /\ m # 0 /\ i \in 0..Keys
      BY <1>2, <2>1, <2>3
    <3>2. CASE m = k
      BY <1>4, <2>1, <3>1, <3>2
    <3>3. CASE m # k
      <4>1. PICK s : s = Toward(k, m) /\ s \in Side /\ f[i] = ch[s][m] /\ ~OnSide(Other(s), k, m)
        BY <1>2, <1>4, <3>1, <3>3, TowardSide
      <4>2. U[m] = U[ch[s][m]] \cup {m} \cup U[ch[Other(s)][m]]
            /\ \A x \in U[ch[Other(s)][m]] : OnSide(Other(s), x, m)
        BY <1>1, <3>1, <4>1, NodeFacts, Sides
      <4>3. k \in U[ch[s][m]]
        BY <3>1, <3>3, <4>1, <4>2
      <4>4. ch[s][m] \in P
        BY <1>1, <1>2, <3>1, <4>1, <4>3, NodeFacts
      <4>5. QED
        BY <2>1, <3>1, <4>1, <4>3, <4>4
    <3>4. QED
      BY <3>2, <3>3
  <2>4. \A i \in 0..Keys : i \in E
    BY <1>2, <2>2, <2>3, UpTo
  <2>5. f[Keys] \in P
    BY <1>2, <2>1, <2>4
  <2>6. QED
    BY <1>2, <1>3, <1>9, <2>5 DEF Find
<1>11. ASSUME k \notin P
       PROVE  /\ Find(k) = 0
              /\ \A i \in 0..Keys : f[i] # 0 => f[i] \in P /\ Guides(ch, P, U, k, f[i])
  <2>1. \A i \in 0..Keys : f[i] # 0 => f[i] \in P /\ Guides(ch, P, U, k, f[i])
    BY <1>5, <1>8
  <2>2. f[Keys] # k
    BY <1>2, <1>11, <2>1, RbNumbers
  <2>3. QED
    BY <1>3, <1>9, <2>1, <2>2 DEF Find
<1>12. QED
  BY <1>1, <1>3, <1>10, <1>11

(* Where a new key is linked.                                                *)
LEMMA ParentIs ==
    ASSUME NEW P, NEW U, TreeOf(tree, P, U), NEW k \in RbKey, k \notin P
    PROVE  IF tree.root = 0 THEN ParentFor(k) = 0
           ELSE /\ ParentFor(k) \in P /\ tree.child[Toward(k, ParentFor(k))][ParentFor(k)] = 0
                /\ Guides(tree.child, P, U, k, ParentFor(k))
<1>1. PICK f : f = Path(k)
  OBVIOUS
<1>2. PICK ch : ch = tree.child
  OBVIOUS
<1>3. /\ P \in SUBSET RbKey /\ Keys \in Nat /\ tree.root \in RbNode
      /\ ch \in [Side -> [RbKey -> RbNode]]
  BY <1>2, RbNumbers DEF TreeOf, IsTree
<1>4. /\ f \in [0..Keys -> RbNode] /\ f[0] = tree.root
      /\ \A i \in 1..Keys : f[i] = IF f[i - 1] \in {0, k} THEN f[i - 1]
                                   ELSE ch[Toward(k, f[i - 1])][f[i - 1]]
  <2>1. GoesDown(f, tree.root, ch, k)
    BY <1>1, <1>2, <1>3, PathRepeats
  <2>2. QED
    BY <2>1 DEF GoesDown
<1>5. /\ f[Keys] = 0
      /\ \A i \in 0..Keys : f[i] # 0 => f[i] \in P /\ Guides(ch, P, U, k, f[i])
  BY <1>1, <1>2, PathIs DEF Find
<1>6. PICK met : met = {i \in 0..Keys : f[i] # 0}
  OBVIOUS
<1>7. ParentFor(k) = IF met = {} THEN 0 ELSE f[CHOOSE i \in met : \A j \in met : j <= i]
  BY <1>1, <1>6 DEF ParentFor
<1>8. CASE tree.root = 0
  <2>1. PICK D : D = {i \in 0..Keys : f[i] = 0}
    OBVIOUS
  <2>2. 0 \in D /\ \A i \in 1..Keys : i - 1 \in D => i \in D
    BY <1>3, <1>4, <1>8, <2>1
  <2>3. \A i \in 0..Keys : i \in D
    BY <1>3, <2>2, UpTo
  <2>4. met = {}
    BY <1>6, <2>1, <2>3
  <2>5. QED
    BY <1>7, <1>8, <2>4
<1>9. CASE tree.root # 0
  <2>1. 0 \in met
    BY <1>3, <1>4, <1>6, <1>9
  <2>2. \E i \in met : \A j \in met : j <= i
    <3>1. PICK T : T = {Keys - i : i \in met}
      OBVIOUS
    <3>2. T \in SUBSET Nat /\ T # {}
      BY <1>3, <1>6, <2>1, <3>1
    <3>3. PICK x \in T : \A y \in T : x <= y
      BY <3>2, LeastNatural
    <3>4. PICK i \in met : x = Keys - i
      BY <3>1
    <3>5. ASSUME NEW j \in met PROVE j <= i
      <4>1. Keys - i <= Keys - j
        BY <3>1, <3>3, <3>4
      <4>2. QED
        BY <1>3, <1>6, <4>1
    <3>6. QED
      BY <3>5
  <2>3. PICK i : i = CHOOSE h \in met : \A j \in met : j <= h
    OBVIOUS
  <2>4. i \in met /\ \A j \in met : j <= i
    BY <2>2, <2>3
  <2>5. ParentFor(k) = f[i]
    BY <1>7, <2>1, <2>3
  <2>6. f[i] # 0 /\ i \in 0..Keys /\ i # Keys
    BY <1>5, <1>6, <2>4
  <2>7. f[i] \in P /\ Guides(ch, P, U, k, f[i])
    BY <1>5, <2>6
  <2>8. i + 1 \in 0..Keys /\ i + 1 \in 1..Keys /\ ~(i + 1 <= i) /\ i + 1 - 1 = i
    BY <1>3, <2>6
  <2>9. f[i + 1] = 0
    BY <1>6, <2>4, <2>8
  <2>10. f[i + 1] = ch[Toward(k, f[i])][f[i]]
    BY <1>4, <2>6, <2>7, <2>8
  <2>11. QED
    BY <1>2, <1>9, <2>5, <2>7, <2>9, <2>10
<1>10. QED
  BY <1>8, <1>9

-----------------------------------------------------------------------------
(* The nodes from n up to the root.                                          *)
AboveFrom(f, n) ==
    f = [k \in 0..Keys |->
            IF k = 0 THEN {n}
            ELSE LET S == f[k - 1] IN (S \cup {tree.up[m] : m \in S}) \ {0}]
AboveVia(f) == Cardinality(f[Keys] \ tree.red)

GoesUp(f, up, n) ==
    /\ f \in [0..Keys -> SUBSET RbKey] /\ f[0] = {n}
    /\ \A k \in 1..Keys : f[k] = (f[k - 1] \cup {up[m] : m \in f[k - 1]}) \ {0}

Upward(P, U, n) == {m \in P : n \in U[m]}

LEMMA AboveRepeats ==
    ASSUME NEW n \in RbKey, tree.up \in [RbKey -> RbNode]
    PROVE  \E f : BlackAbove(n) = AboveVia(f) /\ GoesUp(f, tree.up, n)
<1>1. BlackAbove(n) = AboveVia(CHOOSE f : AboveFrom(f, n))
  BY Zenon DEF BlackAbove, AboveVia, AboveFrom
<1>2. PICK g : g = [S \in SUBSET RbKey |-> (S \cup {tree.up[m] : m \in S}) \ {0}]
  OBVIOUS
<1>3. \A S \in SUBSET RbKey : (S \cup {tree.up[m] : m \in S}) \ {0} \in SUBSET RbKey
  BY RbNumbers
<1>4. g \in [SUBSET RbKey -> SUBSET RbKey]
  BY <1>2, <1>3
<1>5. PICK e : Repeats(e, Keys, SUBSET RbKey, {n}, g)
  BY <1>4, Iterates, RbNumbers
<1>6. AboveFrom(e, n)
  <2>1. \A i \in 0..Keys : i # 0 => i \in 1..Keys /\ i - 1 \in 0..Keys
    BY RbNumbers
  <2>2. \A i \in 0..Keys : e[i] = IF i = 0 THEN {n}
            ELSE LET S == e[i - 1] IN (S \cup {tree.up[m] : m \in S}) \ {0}
    BY <1>2, <1>5, <2>1 DEF Repeats
  <2>3. e = [i \in 0..Keys |-> e[i]]
    BY <1>5 DEF Repeats
  <2>4. QED
    BY <2>2, <2>3 DEF AboveFrom
<1>7. PICK f : f = CHOOSE chosen : AboveFrom(chosen, n)
  OBVIOUS
<1>8. AboveFrom(f, n)
  BY <1>6, <1>7
<1>9. f[0] = {n} /\ \A i \in 1..Keys : f[i] = (f[i - 1] \cup {tree.up[m] : m \in f[i - 1]}) \ {0}
  <2>1. \A i \in 0..Keys : f[i] = IF i = 0 THEN {n}
            ELSE LET S == f[i - 1] IN (S \cup {tree.up[m] : m \in S}) \ {0}
    BY <1>8 DEF AboveFrom
  <2>2. 0 \in 0..Keys /\ \A i \in 1..Keys : i \in 0..Keys /\ i # 0
    BY RbNumbers
  <2>3. QED
    BY <2>1, <2>2
<1>10. f \in [0..Keys -> SUBSET RbKey]
  <2>1. PICK D : D = {i \in 0..Keys : f[i] \in SUBSET RbKey}
    OBVIOUS
  <2>2. 0 \in D
    BY <1>9, <2>1, RbNumbers
  <2>3. ASSUME NEW i \in 1..Keys, i - 1 \in D PROVE i \in D
    <3>1. f[i - 1] \in SUBSET RbKey /\ i \in 0..Keys
      BY <2>1, <2>3
    <3>2. f[i] \in SUBSET RbKey
      BY <1>3, <1>9, <3>1
    <3>3. QED
      BY <2>1, <3>1, <3>2
  <2>4. \A i \in 0..Keys : i \in D
    BY <2>2, <2>3, UpTo, RbNumbers
  <2>5. QED
    BY <1>8, <2>1, <2>4 DEF AboveFrom
<1>11. BlackAbove(n) = AboveVia(f)
  BY <1>1, <1>7, Zenon
<1>12. GoesUp(f, tree.up, n)
  BY <1>9, <1>10 DEF GoesUp
<1>13. QED
  BY <1>11, <1>12

LEMMA AboveIs ==
    ASSUME NEW P, NEW U, TreeOf(tree, P, U), NEW n \in P
    PROVE  BlackAbove(n) = Cardinality(Upward(P, U, n) \ tree.red)
<1>1. PICK rt, ch, up : /\ rt = tree.root /\ ch = tree.child /\ up = tree.up
                        /\ IsTree(rt, ch, up, P, U)
  BY DEF TreeOf
<1>2. n \in RbKey /\ P \in SUBSET RbKey /\ up \in [RbKey -> RbNode] /\ Keys \in Nat /\ 0 \notin P
  BY <1>1, RbNumbers DEF IsTree
<1>3. PICK f : BlackAbove(n) = AboveVia(f) /\ GoesUp(f, up, n)
  BY <1>1, <1>2, AboveRepeats
<1>4. /\ f[0] = {n}
      /\ \A k \in 1..Keys : f[k] = (f[k - 1] \cup {up[m] : m \in f[k - 1]}) \ {0}
  BY <1>3 DEF GoesUp
<1>5. PICK A : A = Upward(P, U, n)
  OBVIOUS
<1>6. /\ n \in A
      /\ \A m \in A : m \in P /\ n \in U[m]
      /\ \A m \in P : n \in U[m] => m \in A
  BY <1>1, <1>5, NodeFacts DEF Upward
<1>7. \A m \in A : up[m] # 0 => up[m] \in A
  <2>1. ASSUME NEW m \in A, up[m] # 0 PROVE up[m] \in A
    <3>1. PICK p : p = up[m]
      OBVIOUS
    <3>2. m # rt
      BY <1>1, <1>6, <2>1 DEF IsTree
    <3>3. p \in P /\ \E s \in Side : ch[s][p] = m
      BY <1>1, <1>6, <3>1, <3>2 DEF IsTree
    <3>4. U[m] \subseteq U[p]
      BY <1>1, <3>3, NodeFacts
    <3>5. QED
      BY <1>6, <3>1, <3>3, <3>4
  <2>2. QED
    BY <2>1
<1>8. PICK D : D = {k \in 0..Keys : /\ f[k] \subseteq A /\ n \in f[k]
                                    /\ \A m \in A : Cardinality(U[m]) <= k => m \in f[k]}
  OBVIOUS
<1>9. \A m \in P : Cardinality(U[m]) \in 1..Keys
  BY <1>1, Cards
<1>10. 0 \in D
  <2>1. \A m \in A : ~(Cardinality(U[m]) <= 0)
    BY <1>6, <1>9
  <2>2. QED
    BY <1>2, <1>4, <1>6, <1>8, <2>1
<1>11. ASSUME NEW k \in 1..Keys, k - 1 \in D PROVE k \in D
  <2>1. k \in 0..Keys /\ k \in Nat
    BY <1>2
  <2>2. PICK S : S = f[k - 1] /\ S \subseteq A /\ n \in S
                 /\ \A m \in A : Cardinality(U[m]) <= k - 1 => m \in S
    BY <1>8, <1>11
  <2>3. f[k] = (S \cup {up[m] : m \in S}) \ {0}
    BY <1>4, <2>2
  <2>4. f[k] \subseteq A
    BY <1>7, <2>2, <2>3
  <2>5. n \in f[k]
    BY <1>2, <2>2, <2>3
  <2>6. ASSUME NEW m \in A, Cardinality(U[m]) <= k PROVE m \in f[k]
    <3>1. m \in P /\ n \in U[m] /\ m # 0
      BY <1>2, <1>6
    <3>2. CASE m = n
      BY <2>5, <3>2
    <3>3. CASE m # n
      <4>1. PICK s \in Side : n \in U[ch[s][m]]
        <5>1. U[m] = U[ch["left"][m]] \cup {m} \cup U[ch["right"][m]]
          BY <1>1, <3>1 DEF IsTree
        <5>2. QED
          BY <3>1, <3>3, <5>1, Sides
      <4>2. PICK c : c = ch[s][m] /\ c # 0
        BY <1>1, <4>1 DEF IsTree
      <4>3. c \in P /\ up[c] = m
        BY <1>1, <3>1, <4>2, NodeFacts
      <4>4. Cardinality(U[c]) < Cardinality(U[m])
        BY <1>1, <3>1, <4>2, Cards
      <4>5. Cardinality(U[c]) <= k - 1
        BY <1>9, <2>1, <2>6, <3>1, <4>3, <4>4
      <4>6. c \in S
        BY <1>6, <2>2, <4>1, <4>2, <4>3, <4>5
      <4>7. QED
        BY <2>3, <3>1, <4>3, <4>6
    <3>4. QED
      BY <3>2, <3>3
  <2>7. QED
    BY <1>8, <2>1, <2>4, <2>5, <2>6
<1>12. f[Keys] = A
  <2>1. Keys \in D
    <3>1. \A k \in 0..Keys : k \in D
      BY <1>2, <1>10, <1>11, UpTo
    <3>2. QED
      BY <1>2, <3>1
  <2>2. \A m \in A : Cardinality(U[m]) <= Keys
    BY <1>2, <1>6, <1>9
  <2>3. QED
    BY <1>8, <2>1, <2>2
<1>13. QED
  BY <1>3, <1>5, <1>12 DEF AboveVia

-----------------------------------------------------------------------------
(* The number of black nodes on each path from a node down, of which one is    *)
(* missing on side sd of p while a deletion is under way.                     *)
Black(rd, n) == IF n \in rd THEN 0 ELSE 1
Missing(n, s, p, sd) == IF n = p /\ s = sd THEN 1 ELSE 0

Heights(ch, rd, P, H, p, sd) ==
    /\ H \in [RbNode -> Nat] /\ H[0] = 0
    /\ \A n \in P : \A s \in Side : H[n] = H[ch[s][n]] + Missing(n, s, p, sd) + Black(rd, n)

(* No red node has a red parent, but for x and its children.                  *)
RedsApart(up, rd, x) == \A n \in rd : n # x /\ up[n] # x => up[n] \notin rd

RootBlack(rt, rd, x) == rt \in rd => rt = x

LEMMA BlacksOfPath ==
    ASSUME NEW rt, NEW ch, NEW up, NEW P, NEW U, IsTree(rt, ch, up, P, U),
           NEW rd, rd \subseteq P, NEW H, Heights(ch, rd, P, H, 0, "left"), rt \notin rd
    PROVE  \A n \in P : \A s \in Side : Cardinality(Upward(P, U, n) \ rd) + H[ch[s][n]] = H[rt]
<1>1. /\ P \in SUBSET RbKey /\ 0 \notin P /\ IsFiniteSet(RbKey) /\ rt \in RbNode
      /\ H \in [RbNode -> Nat]
      /\ \A n \in P : n \in RbNode /\ n # 0 /\ \A s \in Side : ch[s][n] \in RbNode
  BY RbNumbers, NodeFacts DEF IsTree, Heights
<1>2. \A n \in P : \A s \in Side : H[n] = H[ch[s][n]] + Black(rd, n)
  <2>1. ASSUME NEW n \in P, NEW s \in Side PROVE H[n] = H[ch[s][n]] + Black(rd, n)
    <3>1. Missing(n, s, 0, "left") = 0
      BY <1>1 DEF Missing
    <3>2. H[n] = H[ch[s][n]] + Missing(n, s, 0, "left") + Black(rd, n)
      BY DEF Heights
    <3>3. H[ch[s][n]] \in Nat /\ Black(rd, n) \in Nat
      BY <1>1 DEF Black
    <3>4. QED
      BY <3>1, <3>2, <3>3
  <2>2. QED
    BY <2>1
<1>3. PICK B : B = {n \in P : ~(\A s \in Side : Cardinality(Upward(P, U, n) \ rd) + H[ch[s][n]] = H[rt])}
  OBVIOUS
<1>4. ASSUME NEW n \in B PROVE n # rt /\ up[n] \in B
  <2>1. n \in P /\ n \in U[n] /\ n # 0
    BY <1>1, <1>3, NodeFacts
  <2>2. PICK s \in Side : Cardinality(Upward(P, U, n) \ rd) + H[ch[s][n]] # H[rt]
    BY <1>3
  <2>3. H[n] = H[ch[s][n]] + Black(rd, n) /\ H[ch[s][n]] \in Nat /\ H[n] \in Nat /\ H[rt] \in Nat
        /\ Black(rd, n) \in Nat
    BY <1>1, <1>2, <2>1 DEF Black
  <2>4. CASE n = rt
    <3>1. ASSUME NEW m \in P, n \in U[m] PROVE m = n
      BY <2>4, <3>1, Below
    <3>2. Upward(P, U, n) = {n}
      BY <2>1, <3>1 DEF Upward
    <3>3. Upward(P, U, n) \ rd = {n}
      BY <2>4, <3>2
    <3>4. Cardinality({n}) = 1
      BY FS_Singleton
    <3>5. Black(rd, n) = 1
      BY <2>4 DEF Black
    <3>6. Cardinality(Upward(P, U, n) \ rd) = 1
      BY <3>3, <3>4
    <3>7. H[n] = H[ch[s][n]] + 1 /\ 1 + H[ch[s][n]] # H[n]
      <4>1. H[n] = H[rt]
        BY <2>4
      <4>2. QED
        BY <2>2, <2>3, <3>5, <3>6, <4>1
    <3>8. QED
      BY <2>3, <3>7
  <2>5. CASE n # rt
    <3>1. PICK p \in P, u \in Side : p = up[n] /\ ch[u][p] = n
      BY <2>1, <2>5 DEF IsTree
    <3>2. Upward(P, U, n) = Upward(P, U, p) \cup {n} /\ n \notin Upward(P, U, p)
      <4>1. ASSUME NEW m \in P, n \in U[m], m # n PROVE p \in U[m]
        BY <3>1, <4>1, Below
      <4>2. ASSUME NEW m \in P, p \in U[m] PROVE n \in U[m] /\ m # n
        <5>1. n \in U[p] /\ U[p] \subseteq U[m]
          BY <2>1, <3>1, <4>2, NodeFacts, Below
        <5>2. p \notin U[n]
          BY <3>1, NodeFacts
        <5>3. QED
          BY <4>2, <5>1, <5>2
      <4>3. QED
        BY <2>1, <4>1, <4>2 DEF Upward
    <3>3. PICK A : A = Upward(P, U, p) \ rd
      OBVIOUS
    <3>4. A \in SUBSET RbKey /\ IsFiniteSet(A) /\ Cardinality(A) \in Nat /\ n \notin A
      <4>1. A \in SUBSET RbKey
        BY <1>1, <3>3 DEF Upward
      <4>2. IsFiniteSet(A)
        BY <1>1, <4>1, FS_Subset
      <4>3. QED
        BY <3>2, <3>3, <4>1, <4>2, FS_CardinalityType
    <3>5. Cardinality(Upward(P, U, n) \ rd) = Cardinality(A) + Black(rd, n)
      <4>1. CASE n \in rd
        <5>1. Upward(P, U, n) \ rd = A
          BY <3>2, <3>3, <4>1
        <5>2. QED
          BY <3>4, <4>1, <5>1 DEF Black
      <4>2. CASE n \notin rd
        <5>1. Upward(P, U, n) \ rd = A \cup {n}
          BY <3>2, <3>3, <4>2
        <5>2. Cardinality(A \cup {n}) = Cardinality(A) + 1
          BY <3>4, FS_AddElement
        <5>3. QED
          BY <4>2, <5>1, <5>2 DEF Black
      <4>3. QED
        BY <4>1, <4>2
    <3>6. Cardinality(A) + H[n] # H[rt]
      BY <2>2, <2>3, <3>4, <3>5
    <3>7. p \in B
      BY <1>3, <3>1, <3>3, <3>6
    <3>8. QED
      BY <2>5, <3>1, <3>7
  <2>6. QED
    BY <2>4, <2>5
<1>5. B \in SUBSET P
  BY <1>3
<1>6. B = {}
  BY <1>4, <1>5, NoAscent
<1>7. QED
  BY <1>3, <1>6

LEMMA BalancedIs ==
    ASSUME NEW U, TreeOf(tree, present, U), tree.red \subseteq present,
           RedsApart(tree.up, tree.red, 0), RootBlack(tree.root, tree.red, 0),
           NEW H, Heights(tree.child, tree.red, present, H, 0, "left")
    PROVE  Balanced
<1>1. IsTree(tree.root, tree.child, tree.up, present, U) /\ 0 \notin present
  BY RbNumbers DEF TreeOf, IsTree
<1>2. tree.root \notin tree.red
  BY <1>1 DEF RootBlack
<1>3. ASSUME NEW n \in present \cap tree.red PROVE tree.up[n] \notin tree.red
  <2>1. 0 \notin tree.red
    BY <1>1
  <2>2. CASE tree.up[n] = 0
    BY <2>1, <2>2
  <2>3. CASE tree.up[n] # 0
    BY <1>1, <1>3, <2>3 DEF RedsApart
  <2>4. QED
    BY <2>2, <2>3
<1>4. ASSUME NEW n \in present, \E s \in Side : tree.child[s][n] = 0
      PROVE  BlackAbove(n) = H[tree.root]
  <2>1. PICK s \in Side : tree.child[s][n] = 0
    BY <1>4
  <2>2. Cardinality(Upward(present, U, n) \ tree.red) + H[tree.child[s][n]] = H[tree.root]
    BY <1>1, <1>2, BlacksOfPath
  <2>3. BlackAbove(n) = Cardinality(Upward(present, U, n) \ tree.red)
    BY AboveIs
  <2>4. Cardinality(Upward(present, U, n) \ tree.red) \in Nat
    <3>1. Upward(present, U, n) \ tree.red \in SUBSET RbKey /\ IsFiniteSet(RbKey)
      BY <1>1, RbNumbers DEF Upward, IsTree
    <3>2. QED
      BY <3>1, FS_Subset, FS_CardinalityType
  <2>5. H[0] = 0
    BY DEF Heights
  <2>6. QED
    BY <2>1, <2>2, <2>3, <2>4, <2>5
<1>5. QED
  BY <1>2, <1>3, <1>4 DEF Balanced

-----------------------------------------------------------------------------
(* What the assignments leave.                                               *)
Store == [root: RbNode, child: [Side -> [RbKey -> RbNode]], up: [RbKey -> RbNode],
          red: SUBSET RbKey]

IsSetChild(v, t, p, s, n) ==
    /\ v \in Store /\ v.root = t.root /\ v.up = t.up /\ v.red = t.red
    /\ \A u \in Side : \A x \in RbKey :
          v.child[u][x] = IF u = s /\ x = p THEN n ELSE t.child[u][x]

LEMMA SetChildIs ==
    ASSUME NEW t \in Store, NEW p \in RbKey, NEW s \in Side, NEW n \in RbNode
    PROVE  IsSetChild(SetChild(t, p, s, n), t, p, s, n)
<1>1. PICK ch : ch = [t.child EXCEPT ![s][p] = n]
  OBVIOUS
<1>2. t.child \in [Side -> [RbKey -> RbNode]]
  BY DEF Store
<1>3. /\ ch \in [Side -> [RbKey -> RbNode]]
      /\ \A u \in Side : \A x \in RbKey : ch[u][x] = IF u = s /\ x = p THEN n ELSE t.child[u][x]
  BY <1>1, <1>2
<1>4. PICK v : v = SetChild(t, p, s, n)
  OBVIOUS
<1>5. v = [t EXCEPT !.child = ch]
  BY <1>1, <1>4 DEF SetChild
<1>6. v \in Store /\ v.child = ch /\ v.root = t.root /\ v.up = t.up /\ v.red = t.red
  BY <1>3, <1>5 DEF Store
<1>7. QED
  BY <1>3, <1>4, <1>6 DEF IsSetChild

IsSetUp(v, t, n, p) ==
    /\ v \in Store /\ v.root = t.root /\ v.child = t.child /\ v.red = t.red
    /\ \A x \in RbKey : v.up[x] = IF x = n THEN p ELSE t.up[x]

LEMMA SetUpIs ==
    ASSUME NEW t \in Store, NEW n \in RbNode, NEW p \in RbNode
    PROVE  IsSetUp(SetUp(t, n, p), t, n, p)
<1>1. CASE n = 0
  BY <1>1, RbNumbers DEF SetUp, IsSetUp
<1>2. CASE n # 0
  <2>1. n \in RbKey /\ t.up \in [RbKey -> RbNode]
    BY <1>2, RbNumbers DEF Store
  <2>2. PICK up : up = [t.up EXCEPT ![n] = p]
    OBVIOUS
  <2>3. up \in [RbKey -> RbNode] /\ \A x \in RbKey : up[x] = IF x = n THEN p ELSE t.up[x]
    BY <2>1, <2>2
  <2>4. PICK v : v = SetUp(t, n, p)
    OBVIOUS
  <2>5. v = [t EXCEPT !.up = up]
    BY <1>2, <2>2, <2>4 DEF SetUp
  <2>6. v \in Store /\ v.up = up /\ v.root = t.root /\ v.child = t.child /\ v.red = t.red
    BY <2>3, <2>5 DEF Store
  <2>7. QED
    BY <2>3, <2>4, <2>6 DEF IsSetUp
<1>3. QED
  BY <1>1, <1>2

(* v is t with the colours rd.                                               *)
Recolored(v, t, rd) ==
    v \in Store /\ v.root = t.root /\ v.child = t.child /\ v.up = t.up /\ v.red = rd

LEMMA SetRedIs ==
    ASSUME NEW t \in Store, NEW n \in RbKey
    PROVE  Recolored(SetRed(t, n), t, t.red \cup {n})
  BY DEF SetRed, Store, Recolored

LEMMA SetBlackIs ==
    ASSUME NEW t \in Store, NEW n
    PROVE  Recolored(SetBlack(t, n), t, t.red \ {n})
  BY DEF SetBlack, Store, Recolored

LEMMA SameColorIs ==
    ASSUME NEW t \in Store, NEW n \in RbKey, NEW m
    PROVE  Recolored(SameColor(t, n, m), t, IF m \in t.red THEN t.red \cup {n} ELSE t.red \ {n})
<1>1. CASE m \in t.red
  BY <1>1, SetRedIs DEF SameColor
<1>2. CASE m \notin t.red
  BY <1>2, SetBlackIs DEF SameColor
<1>3. QED
  BY <1>1, <1>2

SideIs(ch, n, p) == IF ch["left"][p] = n THEN "left" ELSE "right"

IsRelink(v, t, n, m) ==
    /\ v \in Store /\ v.up = t.up /\ v.red = t.red
    /\ v.root = IF t.up[n] = 0 THEN m ELSE t.root
    /\ \A u \in Side : \A x \in RbKey :
          v.child[u][x] = IF x = t.up[n] /\ u = SideIs(t.child, n, x) THEN m ELSE t.child[u][x]

LEMMA RelinkIs ==
    ASSUME NEW t \in Store, NEW n \in RbKey, NEW m \in RbNode
    PROVE  IsRelink(Relink(t, n, m), t, n, m)
<1>1. t.up[n] \in RbNode
  BY DEF Store
<1>2. PICK v : v = Relink(t, n, m)
  OBVIOUS
<1>3. CASE t.up[n] = 0
  <2>1. v = [t EXCEPT !.root = m]
    BY <1>2, <1>3 DEF Relink
  <2>2. v \in Store /\ v.up = t.up /\ v.red = t.red /\ v.root = m /\ v.child = t.child
    BY <2>1 DEF Store
  <2>3. QED
    BY <1>2, <1>3, <2>2, RbNumbers DEF IsRelink
<1>4. CASE t.up[n] # 0
  <2>1. PICK p, s : p = t.up[n] /\ s = SideOf(t, n, p)
    OBVIOUS
  <2>2. p \in RbKey /\ s \in Side /\ s = SideIs(t.child, n, p)
    BY <1>1, <1>4, <2>1, RbNumbers, Sides DEF SideOf, SideIs
  <2>3. v = SetChild(t, p, s, m)
    BY <1>2, <1>4, <2>1 DEF Relink
  <2>4. IsSetChild(v, t, p, s, m)
    BY <2>2, <2>3, SetChildIs
  <2>5. QED
    BY <1>2, <1>4, <2>1, <2>2, <2>4 DEF IsSetChild, IsRelink
<1>5. QED
  BY <1>3, <1>4

IsFreed(v, t, n) ==
    /\ v \in Store /\ v.root = t.root /\ v.red = t.red \ {n}
    /\ \A x \in RbKey : v.up[x] = IF x = n THEN 0 ELSE t.up[x]
    /\ \A u \in Side : \A x \in RbKey : v.child[u][x] = IF x = n THEN 0 ELSE t.child[u][x]

LEMMA FreedIs ==
    ASSUME NEW t \in Store, NEW n \in RbKey
    PROVE  IsFreed(Freed(t, n), t, n)
<1>1. 0 \in RbNode /\ t.up \in [RbKey -> RbNode]
  BY RbNumbers DEF Store
<1>2. PICK l \in Side, r \in Side : l = "left" /\ r = "right"
  BY Sides
<1>3. PICK a : a = SetChild(t, n, l, 0)
  OBVIOUS
<1>4. IsSetChild(a, t, n, l, 0)
  BY <1>1, <1>3, SetChildIs
<1>5. a \in Store
  BY <1>4 DEF IsSetChild
<1>6. PICK b : b = SetChild(a, n, r, 0)
  OBVIOUS
<1>7. IsSetChild(b, a, n, r, 0)
  BY <1>1, <1>5, <1>6, SetChildIs
<1>8. PICK up : up = [t.up EXCEPT ![n] = 0]
  OBVIOUS
<1>9. b.up = t.up /\ b.red = t.red /\ b.root = t.root /\ b \in Store
  BY <1>4, <1>7 DEF IsSetChild
<1>10. PICK v : v = Freed(t, n)
  OBVIOUS
<1>11. v = [b EXCEPT !.up = up, !.red = t.red \ {n}]
  BY <1>2, <1>3, <1>5, <1>6, <1>8, <1>9, <1>10 DEF Freed, SetChild, Store
<1>12. up \in [RbKey -> RbNode] /\ \A x \in RbKey : up[x] = IF x = n THEN 0 ELSE t.up[x]
  BY <1>1, <1>8
<1>13. v \in Store /\ v.child = b.child /\ v.root = t.root /\ v.red = t.red \ {n} /\ v.up = up
  BY <1>9, <1>11, <1>12 DEF Store
<1>14. \A u \in Side : \A x \in RbKey : a.child[u][x] = IF u = l /\ x = n THEN 0 ELSE t.child[u][x]
  BY <1>4 DEF IsSetChild
<1>15. \A u \in Side : \A x \in RbKey : b.child[u][x] = IF u = r /\ x = n THEN 0 ELSE a.child[u][x]
  BY <1>7 DEF IsSetChild
<1>16. \A u \in Side : u = l \/ u = r
  BY <1>2, Sides
<1>17. QED
  BY <1>10, <1>12, <1>13, <1>14, <1>15, <1>16 DEF IsFreed

-----------------------------------------------------------------------------
(* The parent of a node.                                                      *)
LEMMA ParentFacts ==
    ASSUME NEW rt, NEW ch, NEW up, NEW P, NEW U, IsTree(rt, ch, up, P, U), NEW n \in P
    PROVE  /\ up[n] = 0 <=> n = rt
           /\ up[n] # 0 => /\ up[n] \in P /\ up[n] # n /\ n \in U[up[n]] /\ up[n] \notin U[n]
                           /\ SideIs(ch, n, up[n]) \in Side
                           /\ ch[SideIs(ch, n, up[n])][up[n]] = n
                           /\ ch[Other(SideIs(ch, n, up[n]))][up[n]] # n
<1>1. n # 0 /\ 0 \notin P
  BY RbNumbers DEF IsTree
<1>2. n = rt => up[n] = 0
  BY DEF IsTree
<1>3. ASSUME n # rt
      PROVE  /\ up[n] \in P /\ up[n] # n /\ n \in U[up[n]] /\ up[n] \notin U[n]
             /\ SideIs(ch, n, up[n]) \in Side
             /\ ch[SideIs(ch, n, up[n])][up[n]] = n
             /\ ch[Other(SideIs(ch, n, up[n]))][up[n]] # n
  <2>1. PICK p \in P, s \in Side : p = up[n] /\ ch[s][p] = n
    BY <1>3 DEF IsTree
  <2>2. n # p /\ p \notin U[n] /\ n \in U[p] /\ ch[Other(s)][p] # n
    BY <1>1, <2>1, NodeFacts
  <2>3. SideIs(ch, n, p) = s
    BY <2>1, <2>2, Sides DEF SideIs
  <2>4. QED
    BY <2>1, <2>2, <2>3
<1>4. QED
  BY <1>1, <1>2, <1>3

(* The nodes a rotation moves differ.                                        *)
LEMMA Apart4 ==
    ASSUME NEW rt, NEW ch, NEW up, NEW P, NEW U, IsTree(rt, ch, up, P, U), NEW n \in P,
           NEW s \in Side, ch[Other(s)][n] # 0
    PROVE  LET c == ch[Other(s)][n] i == ch[s][c] p == up[n] IN
           /\ c \in P /\ c # n /\ i \in RbNode /\ p \in RbNode
           /\ i # c /\ i # n /\ p # n /\ p # c
           /\ i # 0 => i \in P /\ i # p
<1>1. PICK c, i, p : c = ch[Other(s)][n] /\ i = ch[s][c] /\ p = up[n]
  OBVIOUS
<1>2. Other(s) \in Side
  BY Sides
<1>3. c \in P /\ c # n /\ n \notin U[c] /\ c \in U[c]
  BY <1>1, <1>2, NodeFacts
<1>4. i \in RbNode /\ i # c /\ (i # 0 => i \in P /\ i \in U[c])
  BY <1>1, <1>3, NodeFacts
<1>5. i # n
  BY <1>3, <1>4, RbNumbers DEF IsTree
<1>6. p \in RbNode
  BY <1>1 DEF IsTree
<1>7. ASSUME p # 0 PROVE p # n /\ p \notin U[c]
  <2>1. p \in P /\ p # n /\ n \in U[p]
    BY <1>1, <1>7, ParentFacts
  <2>2. p \in U[c] => U[p] \subseteq U[c]
    BY <1>3, Below
  <2>3. QED
    BY <1>3, <2>1, <2>2
<1>8. p # n /\ p # c /\ (i # 0 => i # p)
  BY <1>3, <1>4, <1>7, RbNumbers DEF IsTree
<1>9. QED
  BY <1>1, <1>3, <1>4, <1>5, <1>6, <1>8

(* v is t after n has gone down on side s, where c has come up.               *)
IsTurn(v, t, n, s, c, i, p) ==
    /\ v \in Store
    /\ v.root = IF p = 0 THEN c ELSE t.root
    /\ \A u \in Side : \A x \in RbKey :
          v.child[u][x] = IF x = n /\ u = Other(s) THEN i
                          ELSE IF x = c /\ u = s THEN n
                          ELSE IF x = p /\ u = SideIs(t.child, n, x) THEN c
                          ELSE t.child[u][x]
    /\ \A x \in RbKey :
          v.up[x] = IF x = n THEN c ELSE IF x = c THEN p ELSE IF x = i THEN n ELSE t.up[x]

(* A rotation by the nodes that it moves.                                      *)
RotationOf(t, n, s, c, i, p) ==
    LET k == SetUp(SetChild(t, n, Other(s), i), i, n)
    IN  SetUp(SetUp(SetChild(Relink(k, n, c), c, s, n), c, p), n, c)

LEMMA Rotation ==
    ASSUME NEW t, NEW n, NEW s
    PROVE  Rotate(t, n, s) = RotationOf(t, n, s, t.child[Other(s)][n],
                                        t.child[s][t.child[Other(s)][n]], t.up[n])
BY Zenon DEF Rotate, RotationOf

LEMMA RotateIs ==
    ASSUME NEW t \in Store, NEW P, NEW U, TreeOf(t, P, U), NEW n \in P,
           NEW s \in Side, t.child[Other(s)][n] # 0
    PROVE  /\ IsTurn(Rotate(t, n, s), t, n, s, t.child[Other(s)][n],
                     t.child[s][t.child[Other(s)][n]], t.up[n])
           /\ Rotate(t, n, s).red = t.red
<1>1. PICK c, i, p : c = t.child[Other(s)][n] /\ i = t.child[s][c] /\ p = t.up[n]
  OBVIOUS
<1>2. /\ c \in P /\ c # n /\ i \in RbNode /\ p \in RbNode
      /\ i # c /\ i # n /\ p # n /\ p # c
      /\ i # 0 => i \in P /\ i # p
  <2>1. IsTree(t.root, t.child, t.up, P, U)
    BY DEF TreeOf
  <2>2. QED
    BY <1>1, <2>1, Apart4
<1>3. c \in RbKey /\ n \in RbKey /\ Other(s) \in Side /\ Other(s) # s /\ c \in RbNode /\ n \in RbNode
  BY <1>2, RbNumbers, Sides DEF TreeOf, IsTree
<1>4. PICK o : o = Other(s) /\ o \in Side /\ o # s
  BY <1>3
<1>5. PICK t0 : t0 = SetChild(t, n, o, i)
  OBVIOUS
<1>6. IsSetChild(t0, t, n, o, i)
  BY <1>2, <1>3, <1>4, <1>5, SetChildIs
<1>7. PICK t1 : t1 = SetUp(t0, i, n)
  OBVIOUS
<1>8. IsSetUp(t1, t0, i, n)
  <2>1. t0 \in Store
    BY <1>6 DEF IsSetChild
  <2>2. QED
    BY <1>2, <1>3, <1>7, <2>1, SetUpIs
<1>9. PICK t2 : t2 = Relink(t1, n, c)
  OBVIOUS
<1>10. IsRelink(t2, t1, n, c)
  <2>1. t1 \in Store
    BY <1>8 DEF IsSetUp
  <2>2. QED
    BY <1>3, <1>9, <2>1, RelinkIs
<1>11. PICK t3 : t3 = SetChild(t2, c, s, n)
  OBVIOUS
<1>12. IsSetChild(t3, t2, c, s, n)
  <2>1. t2 \in Store
    BY <1>10 DEF IsRelink
  <2>2. QED
    BY <1>3, <1>11, <2>1, SetChildIs
<1>13. PICK t4 : t4 = SetUp(t3, c, p)
  OBVIOUS
<1>14. IsSetUp(t4, t3, c, p)
  <2>1. t3 \in Store
    BY <1>12 DEF IsSetChild
  <2>2. QED
    BY <1>2, <1>3, <1>13, <2>1, SetUpIs
<1>15. PICK v : v = SetUp(t4, n, c)
  OBVIOUS
<1>16. IsSetUp(v, t4, n, c)
  <2>1. t4 \in Store
    BY ZenonT(60), <1>14 DEF IsSetUp
  <2>2. QED
    BY <1>3, <1>15, <2>1, SetUpIs
<1>17. v = Rotate(t, n, s)
  <2>1. t1 = SetUp(SetChild(t, n, o, i), i, n)
    BY Zenon, <1>5, <1>7
  <2>2. v = SetUp(SetUp(SetChild(Relink(t1, n, c), c, s, n), c, p), n, c)
    BY Zenon, <1>9, <1>11, <1>13, <1>15
  <2>3. Rotate(t, n, s) = LET k == SetUp(SetChild(t, n, Other(s), i), i, n)
                          IN  SetUp(SetUp(SetChild(Relink(k, n, c), c, s, n), c, p), n, c)
    BY Zenon, <1>1, Rotation DEF RotationOf
  <2>4. QED
    BY ZenonT(60), <1>4, <2>1, <2>2, <2>3
<1>18. \A x \in RbKey : t1.up[x] = IF x = i THEN n ELSE t.up[x]
  BY <1>6, <1>8 DEF IsSetChild, IsSetUp
<1>19. t1.up[n] = p
  BY <1>1, <1>2, <1>3, <1>18
<1>20. \A u \in Side : \A x \in RbKey : t1.child[u][x] = IF x = n /\ u = o THEN i ELSE t.child[u][x]
  BY <1>6, <1>8 DEF IsSetChild, IsSetUp
<1>21. \A x \in RbKey : x = p => SideIs(t1.child, n, x) = SideIs(t.child, n, x)
  BY <1>2, <1>20, Sides DEF SideIs
<1>22. \A u \in Side : \A x \in RbKey :
          t2.child[u][x] = IF x = p /\ u = SideIs(t.child, n, x) THEN c ELSE t1.child[u][x]
  BY <1>10, <1>19, <1>21 DEF IsRelink
<1>23. \A u \in Side : \A x \in RbKey :
          v.child[u][x] = IF x = n /\ u = o THEN i
                          ELSE IF x = c /\ u = s THEN n
                          ELSE IF x = p /\ u = SideIs(t.child, n, x) THEN c
                          ELSE t.child[u][x]
  <2>1. \A u \in Side : \A x \in RbKey :
          v.child[u][x] = IF u = s /\ x = c THEN n ELSE t2.child[u][x]
    BY <1>12, <1>14, <1>16 DEF IsSetChild, IsSetUp
  <2>2. QED
    BY <1>2, <1>20, <1>22, <2>1
<1>24. \A x \in RbKey :
          v.up[x] = IF x = n THEN c ELSE IF x = c THEN p ELSE IF x = i THEN n ELSE t.up[x]
  <2>1. t3.up = t1.up
    BY <1>10, <1>12 DEF IsRelink, IsSetChild
  <2>2. QED
    BY <1>14, <1>16, <1>18, <2>1 DEF IsSetUp
<1>25. v.red = t.red /\ v \in Store /\ v.root = IF p = 0 THEN c ELSE t.root
  BY <1>6, <1>8, <1>10, <1>12, <1>14, <1>16, <1>19 DEF IsSetChild, IsSetUp, IsRelink
<1>26. IsTurn(v, t, n, s, c, i, p)
  BY <1>4, <1>23, <1>24, <1>25 DEF IsTurn
<1>27. QED
  BY <1>1, <1>17, <1>25, <1>26

(* A rotation leaves a search tree of the same keys.                          *)
Turned(U, n, c, i, b) == [U EXCEPT ![n] = U[i] \cup {n} \cup U[b], ![c] = U[n]]

(* The nodes around n and the child c that comes up.                          *)
TurnAt(t, n, s, c, i, p, b, d) ==
    /\ c = t.child[Other(s)][n] /\ c # 0 /\ i = t.child[s][c] /\ p = t.up[n]
    /\ b = t.child[s][n] /\ d = t.child[Other(s)][c]

LEMMA RotateTree ==
    ASSUME NEW t \in Store, NEW P, NEW U, TreeOf(t, P, U), NEW n \in P, NEW s \in Side,
           NEW c, NEW i, NEW p, NEW b, NEW d, TurnAt(t, n, s, c, i, p, b, d),
           NEW v, IsTurn(v, t, n, s, c, i, p)
    PROVE  TreeOf(v, P, Turned(U, n, c, i, b))
<1>1. PICK rt, ch, up : /\ rt = t.root /\ ch = t.child /\ up = t.up
                        /\ IsTree(rt, ch, up, P, U)
  BY DEF TreeOf
<1>2. PICK rt2, ch2, up2 : rt2 = v.root /\ ch2 = v.child /\ up2 = v.up
  OBVIOUS
<1>3. PICK o : o = Other(s) /\ o \in Side /\ o # s /\ Other(o) = s /\ \A u \in Side : u = s \/ u = o
  BY SMTT(60), Sides
<1>4. /\ c \in P /\ c # n /\ i \in RbNode /\ p \in RbNode
      /\ i # c /\ i # n /\ p # n /\ p # c /\ (i # 0 => i \in P /\ i # p)
  BY <1>1, Apart4 DEF TurnAt
<1>5. d = ch[o][c]
  BY <1>1, <1>3 DEF TurnAt
<1>6. c = ch[o][n] /\ i = ch[s][c] /\ p = up[n] /\ b = ch[s][n]
  BY <1>1, <1>3 DEF TurnAt
<1>7. /\ P \in SUBSET RbKey /\ 0 \notin P /\ U \in [RbNode -> SUBSET P] /\ U[0] = {} /\ U[rt] = P
      /\ n \in RbKey /\ c \in RbKey /\ rt \in RbNode
      /\ \A x \in P : x \in RbKey /\ x \in RbNode
  BY <1>1, <1>4, RbNumbers DEF IsTree
<1>8. PICK V : V = Turned(U, n, c, i, b)
  OBVIOUS
<1>9. /\ U[n] = U[c] \cup {n} \cup U[b] /\ U[c] = U[i] \cup {c} \cup U[d]
      /\ b \in RbNode /\ d \in RbNode
      /\ b # n /\ b # c /\ d # n /\ d # c
      /\ d # 0 => d \in P /\ up[d] = c /\ d # i
      /\ b # 0 => b \in P /\ up[b] = n
      /\ up[c] = n /\ (i # 0 => up[i] = c)
      /\ \A y \in U[c] : OnSide(o, y, n) /\ y \in RbKey
      /\ \A y \in U[b] : OnSide(s, y, n) /\ y \in RbKey
      /\ \A y \in U[i] : OnSide(s, y, c) /\ y \in RbKey
      /\ \A y \in U[d] : OnSide(o, y, c) /\ y \in RbKey
      /\ c \in U[c]
  <2>1. /\ U[n] = U[ch[s][n]] \cup {n} \cup U[ch[o][n]]
        /\ b \in RbNode /\ b # n /\ (b # 0 => b \in P /\ up[b] = n /\ ch[o][n] # b)
        /\ \A y \in U[b] : OnSide(s, y, n) /\ y \in RbKey
    <3>1. /\ U[n] = U[ch[s][n]] \cup {n} \cup U[ch[o][n]]
          /\ ch[s][n] \in RbNode /\ ch[s][n] # n
          /\ ch[s][n] # 0 => ch[s][n] \in P /\ up[ch[s][n]] = n /\ ch[o][n] # ch[s][n]
          /\ \A y \in U[ch[s][n]] : OnSide(s, y, n) /\ y \in RbKey
      BY <1>1, <1>3, NodeFacts
    <3>2. b = ch[s][n]
      BY <1>6
    <3>3. QED
      BY <3>1, <3>2
  <2>2. up[c] = n /\ (\A y \in U[c] : OnSide(o, y, n) /\ y \in RbKey) /\ n \notin U[c]
    <3>1. /\ ch[o][n] # 0 => up[ch[o][n]] = n
          /\ \A y \in U[ch[o][n]] : OnSide(o, y, n) /\ y \in RbKey
          /\ n \notin U[ch[o][n]]
      BY <1>1, <1>3, NodeFacts
    <3>2. c = ch[o][n] /\ c # 0
      BY <1>4, <1>6, <1>7
    <3>3. QED
      BY <3>1, <3>2
  <2>3. /\ U[c] = U[ch[s][c]] \cup {c} \cup U[ch[o][c]] /\ c \in U[c]
        /\ (i # 0 => up[i] = c /\ ch[o][c] # i)
        /\ \A y \in U[i] : OnSide(s, y, c) /\ y \in RbKey
    <3>1. /\ U[c] = U[ch[s][c]] \cup {c} \cup U[ch[o][c]] /\ c \in U[c]
          /\ (ch[s][c] # 0 => up[ch[s][c]] = c /\ ch[o][c] # ch[s][c])
          /\ \A y \in U[ch[s][c]] : OnSide(s, y, c) /\ y \in RbKey
      BY <1>1, <1>3, <1>4, NodeFacts
    <3>2. i = ch[s][c]
      BY <1>6
    <3>3. QED
      BY <3>1, <3>2
  <2>4. /\ d \in RbNode /\ d # c /\ (d # 0 => d \in P /\ up[d] = c /\ d \in U[d])
        /\ \A y \in U[d] : OnSide(o, y, c) /\ y \in RbKey
    BY SMTT(60), <1>1, <1>3, <1>4, <1>5, NodeFacts
  <2>5. d # n
    BY ZenonT(60), <1>5, <1>6, <1>7, <2>2, <2>3, <2>4
  <2>6. U[n] = U[c] \cup {n} \cup U[b] /\ U[c] = U[i] \cup {c} \cup U[d]
    BY ZenonT(60), <1>5, <1>6, <2>1, <2>3
  <2>7. b # c /\ (d # 0 => d # i)
    BY ZenonT(60), <1>4, <1>5, <1>6, <1>7, <2>1, <2>3
  <2>8. QED
    BY <2>1, <2>2, <2>3, <2>4, <2>5, <2>6, <2>7
<1>10. /\ V \in [RbNode -> SUBSET P] /\ V[n] = U[i] \cup {n} \cup U[b] /\ V[c] = U[n]
       /\ \A x \in RbNode : x # n /\ x # c => V[x] = U[x]
  <2>1. U[i] \cup {n} \cup U[b] \in SUBSET P /\ U[n] \in SUBSET P
    BY <1>4, <1>7, <1>9
  <2>2. QED
    BY <1>4, <1>7, <1>8, <2>1 DEF Turned
<1>11. PICK q : q = SideIs(ch, n, p)
  BY SMTT(60)
<1>12. /\ p = 0 <=> n = rt
       /\ p # 0 => p \in P /\ n \in U[p] /\ q \in Side /\ ch[q][p] = n
  BY <1>1, <1>6, <1>11, ParentFacts
<1>13. /\ \A u \in Side : \A x \in RbKey :
             ch2[u][x] = IF x = n /\ u = o THEN i
                         ELSE IF x = c /\ u = s THEN n
                         ELSE IF x = p /\ u = q THEN c
                         ELSE ch[u][x]
       /\ \A x \in RbKey :
             up2[x] = IF x = n THEN c ELSE IF x = c THEN p ELSE IF x = i THEN n ELSE up[x]
       /\ rt2 = IF p = 0 THEN c ELSE rt
  BY <1>1, <1>2, <1>3, <1>11 DEF IsTurn
<1>14. rt2 \in RbNode /\ ch2 \in [Side -> [RbKey -> RbNode]] /\ up2 \in [RbKey -> RbNode]
  BY <1>2 DEF IsTurn, Store
<1>a. /\ rt # c /\ (i # 0 => rt # i) /\ 0 # n /\ 0 # c /\ (rt # 0 => up[rt] = 0 /\ rt \in P)
      /\ (p # 0 => rt # n) /\ (p = 0 => rt = n)
  <2>1. rt # 0 => up[rt] = 0 /\ rt \in P
    BY <1>1 DEF IsTree
  <2>2. 0 # n /\ 0 # c
    BY <1>4, <1>7
  <2>3. rt # c /\ (i # 0 => rt # i)
    BY <1>9, <2>1, <2>2
  <2>4. QED
    BY <1>12, <2>1, <2>2, <2>3
<1>15. V[0] = {} /\ V[rt2] = P
  <2>1. V[0] = {}
    BY <1>7, <1>10, <1>a, RbNumbers
  <2>2. CASE p = 0
    <3>1. rt2 = c /\ U[n] = P
      BY <1>7, <1>13, <1>a, <2>2
    <3>2. QED
      BY <1>10, <2>1, <3>1
  <2>3. CASE p # 0
    <3>1. rt2 = rt /\ V[rt] = U[rt]
      BY <1>7, <1>10, <1>13, <1>a, <2>3
    <3>2. QED
      BY <1>7, <2>1, <3>1
  <2>4. QED
    BY <2>2, <2>3
<1>16. rt2 # 0 => rt2 \in P /\ up2[rt2] = 0
  <2>1. CASE p = 0
    <3>1. rt2 = c /\ up2[c] = p
      BY <1>4, <1>7, <1>13, <2>1
    <3>2. QED
      BY <1>4, <2>1, <3>1
  <2>2. CASE p # 0
    <3>1. rt2 = rt /\ (rt # 0 => rt \in P /\ up[rt] = 0)
      BY <1>13, <1>a, <2>2
    <3>2. rt # 0 => rt # n /\ rt # c /\ rt # i
      BY <1>a, <2>2
    <3>3. rt # 0 => up2[rt] = up[rt]
      BY <1>7, <1>13, <3>1, <3>2
    <3>4. QED
      BY <3>1, <3>3
  <2>3. QED
    BY <2>1, <2>2
<1>17. ASSUME NEW x \in P, NEW u \in Side PROVE Hangs(ch2, up2, P, V, u, x)
  <2>1. CASE x = n /\ u = o
    <3>1. ch2[u][x] = i
      BY <1>7, <1>13, <2>1
    <3>2. i = 0 \/ (i \in P /\ up2[i] = n)
      BY <1>4, <1>7, <1>13
    <3>3. V[i] = U[i] /\ \A y \in U[i] : OnSide(o, y, n)
      BY <1>4, <1>9, <1>10
    <3>4. QED
      BY <2>1, <3>1, <3>2, <3>3 DEF Hangs
  <2>2. CASE x = n /\ u = s
    <3>1. ch2[u][x] = b
      BY <1>3, <1>4, <1>6, <1>7, <1>13, <2>2
    <3>2. b = 0 \/ (b \in P /\ up2[b] = n)
      BY <1>4, <1>7, <1>9, <1>13
    <3>3. V[b] = U[b] /\ \A y \in U[b] : OnSide(s, y, n)
      BY <1>9, <1>10
    <3>4. QED
      BY SMTT(60), <2>2, <3>1, <3>2, <3>3 DEF Hangs
  <2>3. CASE x = c /\ u = s
    <3>1. ch2[u][x] = n
      BY <1>4, <1>7, <1>13, <2>3
    <3>2. n \in P /\ up2[n] = c
      BY <1>7, <1>13
    <3>3. ASSUME NEW y \in V[n] PROVE OnSide(s, y, c)
      <4>1. OnSide(s, n, c)
        BY <1>3, <1>7, <1>9, SideOrder
      <4>2. y \in U[i] \/ y = n \/ y \in U[b]
        BY <1>10
      <4>3. y \in U[b] => OnSide(s, y, n) /\ y \in RbKey
        BY <1>9
      <4>4. y \in U[b] => OnSide(s, y, c)
        BY <1>7, <4>1, <4>3, SideOrder
      <4>5. QED
        BY <1>9, <4>1, <4>2, <4>4
    <3>4. QED
      BY <2>3, <3>1, <3>2, <3>3 DEF Hangs
  <2>4. CASE x = c /\ u = o
    <3>1. ch2[u][x] = d
      BY <1>3, <1>4, <1>5, <1>7, <1>13, <2>4
    <3>2. d = 0 \/ (d \in P /\ up2[d] = c)
      BY <1>7, <1>9, <1>13
    <3>3. V[d] = U[d] /\ \A y \in U[d] : OnSide(o, y, c)
      BY <1>9, <1>10
    <3>4. QED
      BY <2>4, <3>1, <3>2, <3>3 DEF Hangs
  <2>5. CASE x # n /\ x # c /\ x = p /\ u = q
    <3>1. ch2[u][x] = c
      BY <1>7, <1>13, <2>5
    <3>2. c \in P /\ up2[c] = x
      BY <1>4, <1>7, <1>13, <2>5
    <3>3. V[c] = U[n] /\ \A y \in U[n] : OnSide(q, y, p)
      <4>1. q \in Side /\ p \in P /\ ch[q][p] = n
        BY <1>7, <1>12, <2>5
      <4>2. \A y \in U[ch[q][p]] : OnSide(q, y, p)
        BY <1>1, <4>1, NodeFacts
      <4>3. QED
        BY <1>10, <4>1, <4>2
    <3>4. QED
      BY <2>5, <3>1, <3>2, <3>3 DEF Hangs
  <2>6. CASE x # n /\ x # c /\ ~(x = p /\ u = q)
    <3>1. PICK e : e = ch[u][x]
      OBVIOUS
    <3>2. ch2[u][x] = e
      BY <1>7, <1>13, <2>6, <3>1
    <3>3. e \in RbNode /\ (e # 0 => e \in P /\ up[e] = x) /\ \A y \in U[e] : OnSide(u, y, x)
      BY <1>1, <3>1, NodeFacts
    <3>4. e # n
      <4>1. SUFFICES ASSUME e = n PROVE FALSE
        OBVIOUS
      <4>2. x = p /\ p # 0
        BY <1>6, <1>7, <3>3, <4>1
      <4>3. ch[Other(q)][p] # n
        BY <1>1, <1>6, <1>11, <4>2, ParentFacts
      <4>4. QED
        BY <1>12, <2>6, <3>1, <4>1, <4>2, <4>3, Sides
    <3>5. e # c /\ (i # 0 => e # i)
      BY <1>7, <1>9, <2>6, <3>3
    <3>6. V[e] = U[e]
      BY <1>10, <3>3, <3>4, <3>5
    <3>7. e # 0 => up2[e] = x
      BY <1>7, <1>13, <3>3, <3>4, <3>5
    <3>8. QED
      BY <3>2, <3>3, <3>6, <3>7 DEF Hangs
  <2>7. QED
    BY <1>3, <1>4, <2>1, <2>2, <2>3, <2>4, <2>5, <2>6
<1>18. ASSUME NEW x \in P PROVE V[x] = V[ch2["left"][x]] \cup {x} \cup V[ch2["right"][x]]
  <2>0. s \in {"left", "right"} /\ o \in {"left", "right"} /\ "left" \in Side /\ "right" \in Side
    BY <1>3, Sides
  <2>1. CASE x = n
    <3>1. ch2[o][n] = i /\ ch2[s][n] = b /\ V[i] = U[i] /\ V[b] = U[b]
      BY ZenonT(60), <1>3, <1>4, <1>6, <1>7, <1>9, <1>10, <1>13
    <3>2. QED
      BY SMTT(60), <1>3, <1>10, <2>0, <2>1, <3>1
  <2>2. CASE x = c
    <3>1. ch2[s][c] = n /\ ch2[o][c] = d /\ V[d] = U[d]
      BY ZenonT(60), <1>3, <1>4, <1>5, <1>6, <1>7, <1>9, <1>10, <1>13
    <3>2. V[c] = V[n] \cup {c} \cup V[d]
      BY <1>9, <1>10, <3>1
    <3>3. QED
      BY SMTT(60), <1>3, <2>0, <2>2, <3>1, <3>2
  <2>3. CASE x # n /\ x # c
    <3>1. ASSUME NEW u \in Side PROVE V[ch2[u][x]] = U[ch[u][x]]
      <4>1. CASE x = p /\ u = q
        BY <1>7, <1>10, <1>12, <1>13, <2>3, <4>1
      <4>2. CASE ~(x = p /\ u = q)
        <5>1. PICK e : e = ch[u][x] /\ ch2[u][x] = e
          BY <1>7, <1>13, <2>3, <4>2
        <5>2. e \in RbNode /\ (e # 0 => e \in P /\ up[e] = x)
          BY <1>1, <5>1, NodeFacts
        <5>3. e # n
          <6>1. SUFFICES ASSUME e = n PROVE FALSE
            OBVIOUS
          <6>2. x = p /\ p # 0
            BY <1>6, <1>7, <5>2, <6>1
          <6>3. ch[Other(q)][p] # n
            BY <1>1, <1>6, <1>11, <6>2, ParentFacts
          <6>4. QED
            BY <1>12, <4>2, <5>1, <6>1, <6>2, <6>3, Sides
        <5>4. e # c
          BY <1>7, <1>9, <2>3, <5>2
        <5>5. QED
          BY <1>10, <5>1, <5>2, <5>3, <5>4
      <4>3. QED
        BY <4>1, <4>2
    <3>2. U[x] = U[ch["left"][x]] \cup {x} \cup U[ch["right"][x]]
      BY <1>1 DEF IsTree
    <3>3. QED
      BY <1>7, <1>10, <2>0, <2>3, <3>1, <3>2
  <2>4. QED
    BY <2>1, <2>2, <2>3
<1>19. ASSUME NEW x \in P PROVE x = rt2 \/ (up2[x] \in P /\ \E u \in Side : ch2[u][up2[x]] = x)
  <2>1. CASE x = n
    BY <1>4, <1>7, <1>13, <2>1
  <2>2. CASE x = c
    <3>1. p # 0 => ch2[q][p] = c /\ p \in P /\ q \in Side
      BY <1>4, <1>7, <1>12, <1>13
    <3>2. QED
      BY <1>4, <1>7, <1>13, <2>2, <3>1
  <2>3. CASE x = i
    <3>1. up2[x] = n
      BY <1>4, <1>7, <1>13, <2>3
    <3>2. ch2[o][n] = i
      BY <1>3, <1>7, <1>13
    <3>3. QED
      BY <1>3, <2>3, <3>1, <3>2
  <2>4. CASE x # n /\ x # c /\ x # i
    <3>1. up2[x] = up[x]
      BY <1>7, <1>13, <2>4
    <3>2. CASE x = rt
      BY <1>12, <1>13, <2>4, <3>2
    <3>3. CASE x # rt
      <4>0. up[x] \in P /\ \E u \in Side : ch[u][up[x]] = x
        BY <1>1, <3>3 DEF IsTree
      <4>1. PICK y \in P, u \in Side : y = up[x] /\ ch[u][y] = x
        BY <4>0
      <4>2. ~(y = n /\ u = o) /\ ~(y = c /\ u = s) /\ ~(y = p /\ u = q)
        BY <1>6, <1>7, <1>12, <2>4, <4>1
      <4>3. ch2[u][y] = x
        BY <1>7, <1>13, <4>1, <4>2
      <4>4. QED
        BY <3>1, <4>1, <4>3
    <3>4. QED
      BY <3>2, <3>3
  <2>5. QED
    BY <2>1, <2>2, <2>3, <2>4
<1>20. ASSUME NEW x \in RbKey \ P, NEW u \in Side PROVE ch2[u][x] = 0
  <2>1. ch[u][x] = 0
    BY <1>1 DEF IsTree
  <2>2. x # n /\ x # c /\ x # p
    BY <1>4, <1>12, <1>7, RbNumbers
  <2>3. QED
    BY <1>13, <2>1, <2>2
<1>21. IsTree(rt2, ch2, up2, P, V)
  BY <1>7, <1>10, <1>14, <1>15, <1>16, <1>17, <1>18, <1>19, <1>20 DEF IsTree
<1>22. QED
  BY <1>2, <1>8, <1>21 DEF TreeOf

(* Heights after a rotation.                                                 *)
(* The heights after the rotation, by the children from before.                *)
Turning(t, P, G, rd, mp, ms, n, s, c, i, b, d) ==
    /\ G \in [RbNode -> Nat] /\ G[0] = 0
    /\ \A x \in P : \A u \in Side : x # n /\ x # c =>
          G[x] = G[IF t.child[u][x] = n THEN c ELSE t.child[u][x]]
                 + Missing(x, u, mp, ms) + Black(rd, x)
    /\ G[n] = G[i] + Missing(n, Other(s), mp, ms) + Black(rd, n)
    /\ G[n] = G[b] + Missing(n, s, mp, ms) + Black(rd, n)
    /\ G[c] = G[n] + Missing(c, s, mp, ms) + Black(rd, c)
    /\ G[c] = G[d] + Missing(c, Other(s), mp, ms) + Black(rd, c)

LEMMA TurnHeights ==
    ASSUME NEW t \in Store, NEW P, NEW U, TreeOf(t, P, U), NEW n \in P, NEW s \in Side,
           NEW c, NEW i, NEW p, NEW b, NEW d, TurnAt(t, n, s, c, i, p, b, d),
           NEW v, IsTurn(v, t, n, s, c, i, p),
           NEW G, NEW rd, NEW mp, NEW ms, Turning(t, P, G, rd, mp, ms, n, s, c, i, b, d)
    PROVE  Heights(v.child, rd, P, G, mp, ms)
<1>1. PICK ch, up : /\ ch = t.child /\ up = t.up
                    /\ IsTree(t.root, ch, up, P, U)
  BY DEF TreeOf
<1>2. PICK o : o = Other(s) /\ o \in Side /\ o # s /\ \A u \in Side : u = s \/ u = o
  BY SMTT(60), Sides
<1>3. /\ c \in P /\ c # n /\ i # c /\ i # n /\ p # n /\ p # c
  <2>1. ch[Other(s)][n] # 0
    BY Zenon, <1>1 DEF TurnAt
  <2>2. PICK c1, i1, p1 : c1 = ch[Other(s)][n] /\ i1 = ch[s][c1] /\ p1 = up[n]
    OBVIOUS
  <2>3. c1 \in P /\ c1 # n /\ i1 # c1 /\ i1 # n /\ p1 # n /\ p1 # c1
    BY <1>1, <2>1, <2>2, Apart4
  <2>4. c1 = c /\ i1 = i /\ p1 = p
    BY Zenon, <1>1, <2>2 DEF TurnAt
  <2>5. QED
    BY Zenon, <2>3, <2>4
<1>4. P \in SUBSET RbKey /\ 0 \notin P /\ \A x \in P : x \in RbKey
  BY <1>1, RbNumbers DEF IsTree
<1>5. \A u \in Side : \A x \in RbKey :
         v.child[u][x] = IF x = n /\ u = o THEN i
                         ELSE IF x = c /\ u = s THEN n
                         ELSE IF x = p /\ u = SideIs(ch, n, x) THEN c
                         ELSE ch[u][x]
  BY SMTT(60), <1>1, <1>2 DEF IsTurn
<1>t. c = ch[o][n] /\ i = ch[s][c] /\ p = up[n] /\ b = ch[s][n] /\ d = ch[o][c]
  BY <1>1, <1>2 DEF TurnAt
<1>g. /\ G \in [RbNode -> Nat] /\ G[0] = 0
      /\ \A x \in P : \A u \in Side : x # n /\ x # c =>
            G[x] = G[IF ch[u][x] = n THEN c ELSE ch[u][x]] + Missing(x, u, mp, ms) + Black(rd, x)
      /\ G[n] = G[i] + Missing(n, o, mp, ms) + Black(rd, n)
      /\ G[n] = G[b] + Missing(n, s, mp, ms) + Black(rd, n)
      /\ G[c] = G[n] + Missing(c, s, mp, ms) + Black(rd, c)
      /\ G[c] = G[d] + Missing(c, o, mp, ms) + Black(rd, c)
  BY <1>1, <1>2 DEF Turning
<1>6. ASSUME NEW x \in P, NEW u \in Side
      PROVE  G[x] = G[v.child[u][x]] + Missing(x, u, mp, ms) + Black(rd, x)
  <2>1. CASE x = n /\ u = o
    <3>1. v.child[u][x] = i
      BY <1>4, <1>5, <2>1
    <3>2. QED
      BY <1>g, <2>1, <3>1
  <2>2. CASE x = n /\ u = s
    <3>1. v.child[u][x] = b
      BY <1>2, <1>3, <1>4, <1>5, <1>t, <2>2
    <3>2. QED
      BY <1>g, <2>2, <3>1
  <2>3. CASE x = c /\ u = s
    <3>1. v.child[u][x] = n
      BY <1>3, <1>4, <1>5, <2>3
    <3>2. QED
      BY <1>g, <2>3, <3>1
  <2>4. CASE x = c /\ u = o
    <3>1. v.child[u][x] = d
      BY <1>2, <1>3, <1>4, <1>5, <1>t, <2>4
    <3>2. QED
      BY <1>g, <2>4, <3>1
  <2>5. CASE x # n /\ x # c
    <3>1. v.child[u][x] = IF ch[u][x] = n THEN c ELSE ch[u][x]
      <4>1. CASE x = p /\ u = SideIs(ch, n, x)
        <5>1. ch[u][x] = n
          <6>1. p # 0 => ch[SideIs(ch, n, p)][p] = n
            <7>1. up[n] # 0 => ch[SideIs(ch, n, up[n])][up[n]] = n
              BY <1>1, ParentFacts
            <7>2. QED
              BY Zenon, <1>t, <7>1
          <6>2. QED
            BY SMTT(60), <1>4, <4>1, <6>1
        <5>2. v.child[u][x] = c
          BY <1>4, <1>5, <2>5, <4>1
        <5>3. QED
          BY <5>1, <5>2
      <4>2. CASE ~(x = p /\ u = SideIs(ch, n, x))
        <5>1. v.child[u][x] = ch[u][x]
          BY <1>4, <1>5, <2>5, <4>2
        <5>2. ch[u][x] # n
          <6>1. SUFFICES ASSUME ch[u][x] = n PROVE FALSE
            OBVIOUS
          <6>2. up[n] = x /\ n # 0
            BY <1>1, <1>4, <6>1, NodeFacts
          <6>3. p = x /\ p # 0
            BY <1>4, <1>t, <6>2
          <6>4. /\ SideIs(ch, n, x) \in Side /\ ch[Other(SideIs(ch, n, x))][x] # n
            BY <1>1, <6>2, <6>3, ParentFacts
          <6>5. u = SideIs(ch, n, x)
            BY <6>1, <6>4, Sides
          <6>6. QED
            BY <4>2, <6>3, <6>5
        <5>3. QED
          BY <5>1, <5>2
      <4>3. QED
        BY <4>1, <4>2
    <3>2. G[x] = G[IF ch[u][x] = n THEN c ELSE ch[u][x]] + Missing(x, u, mp, ms) + Black(rd, x)
      BY <1>g, <2>5
    <3>3. QED
      BY <3>1, <3>2
  <2>6. QED
    BY <1>2, <2>1, <2>2, <2>3, <2>4, <2>5
<1>7. QED
  BY <1>6, <1>g DEF Heights

-----------------------------------------------------------------------------
(* A tree with its keys, colours and heights.                                *)
Colored(t, P, U, H, p, sd) ==
    /\ t \in Store /\ TreeOf(t, P, U) /\ t.red \subseteq P
    /\ Heights(t.child, t.red, P, H, p, sd)

Separate(up, rd) == \A m \in rd : up[m] \notin rd

LEMMA ColoredFacts ==
    ASSUME NEW t, NEW P, NEW U, NEW H, NEW p, NEW sd, Colored(t, P, U, H, p, sd)
    PROVE  /\ P \in SUBSET RbKey /\ 0 \notin P /\ 0 \notin t.red /\ H[0] = 0
           /\ \A x \in P : /\ x \in RbKey /\ x \in RbNode /\ H[x] \in Nat
                           /\ x \in t.red => Black(t.red, x) = 0
                           /\ x \notin t.red => Black(t.red, x) = 1
           /\ \A x \in RbNode : H[x] \in Nat
           /\ \A x \in P : \A u \in Side :
                 /\ t.child[u][x] \in RbNode /\ H[t.child[u][x]] \in Nat
                 /\ t.child[u][x] # 0 => t.child[u][x] \in P /\ t.up[t.child[u][x]] = x
                 /\ t.child[u][x] # x /\ t.child[Other(u)][x] # x
                 /\ t.child[u][x] # 0 => t.child[Other(u)][x] # t.child[u][x]
                 /\ H[x] = H[t.child[u][x]] + Missing(x, u, p, sd) + Black(t.red, x)
<1>1. IsTree(t.root, t.child, t.up, P, U) /\ Heights(t.child, t.red, P, H, p, sd) /\ t.red \subseteq P
  BY DEF Colored, TreeOf
<1>2. P \in SUBSET RbKey /\ 0 \notin P /\ 0 \notin t.red /\ H[0] = 0 /\ H \in [RbNode -> Nat]
  BY <1>1, RbNumbers DEF IsTree, Heights
<1>3. ASSUME NEW x \in P
      PROVE  /\ x \in RbKey /\ x \in RbNode /\ H[x] \in Nat
             /\ x \in t.red => Black(t.red, x) = 0
             /\ x \notin t.red => Black(t.red, x) = 1
  BY <1>2, RbNumbers DEF Black
<1>4. ASSUME NEW x \in P, NEW u \in Side
      PROVE  /\ t.child[u][x] \in RbNode /\ H[t.child[u][x]] \in Nat
             /\ t.child[u][x] # 0 => t.child[u][x] \in P /\ t.up[t.child[u][x]] = x
             /\ t.child[u][x] # x /\ t.child[Other(u)][x] # x
             /\ t.child[u][x] # 0 => t.child[Other(u)][x] # t.child[u][x]
             /\ H[x] = H[t.child[u][x]] + Missing(x, u, p, sd) + Black(t.red, x)
  <2>1. /\ t.child[u][x] \in RbNode /\ t.child[u][x] # x
        /\ t.child[u][x] # 0 => /\ t.child[u][x] \in P /\ t.up[t.child[u][x]] = x
                                /\ t.child[Other(u)][x] # t.child[u][x]
    BY <1>1, NodeFacts
  <2>2. Other(u) \in Side
    BY Sides
  <2>3. t.child[Other(u)][x] # x
    BY <1>1, <2>2, NodeFacts
  <2>4. H[x] = H[t.child[u][x]] + Missing(x, u, p, sd) + Black(t.red, x)
    BY <1>1 DEF Heights
  <2>5. QED
    BY <1>2, <2>1, <2>3, <2>4
<1>5. QED
  BY <1>2, <1>3, <1>4

(* A child, or the 0 in its place, of a node.                                *)
ChildIs(t, P, H, x, u, p, sd, y) ==
    /\ y \in RbNode /\ H[y] \in Nat /\ y # x /\ t.child[Other(u)][x] # x
    /\ y # 0 => y \in P /\ t.up[y] = x /\ t.child[Other(u)][x] # y
    /\ H[x] = H[y] + Missing(x, u, p, sd) + Black(t.red, x)

LEMMA ColoredChild ==
    ASSUME NEW t, NEW P, NEW U, NEW H, NEW p, NEW sd, Colored(t, P, U, H, p, sd),
           NEW x \in P, NEW u \in Side
    PROVE  ChildIs(t, P, H, x, u, p, sd, t.child[u][x])
BY ColoredFacts DEF ChildIs

(* A rotation that brings a red child up in the place and colour of its black  *)
(* parent: the heights stay, and no red node gets a red parent.               *)
SwapNext(t, n, c, s) == Rotate(SetRed(SetBlack(t, c), n), n, s)

Swapped(v, t, P, mp, ms, n, s, c) ==
    /\ \E U, H : Colored(v, P, U, H, mp, ms)
    /\ v.root \notin v.red /\ Separate(v.up, v.red)
    /\ IsTurn(v, t, n, s, c, t.child[s][c], t.up[n])
    /\ v.red = (t.red \ {c}) \cup {n}

LEMMA SwapTurn ==
    ASSUME NEW t, NEW P, NEW U, NEW H, NEW mp, NEW ms, Colored(t, P, U, H, mp, ms),
           NEW n \in P, NEW s \in Side, NEW c, c = t.child[Other(s)][n],
           n \notin t.red, c \in t.red, t.child[s][c] \notin t.red, t.child[s][n] \notin t.red,
           mp # c, mp = n => ms = s, t.root \notin t.red,
           \A m \in t.red : t.up[m] \in t.red => t.up[m] = c
    PROVE  Swapped(SwapNext(t, n, c, s), t, P, mp, ms, n, s, c)
<1>1. PICK i, p, b, d, o : /\ i = t.child[s][c] /\ p = t.up[n] /\ b = t.child[s][n] /\ o = Other(s)
                           /\ d = t.child[o][c]
  OBVIOUS
<1>2. /\ t \in Store /\ TreeOf(t, P, U) /\ t.red \subseteq P /\ o \in Side /\ o # s /\ Other(o) = s
      /\ \A u \in Side : u = s \/ u = o
  BY <1>1, Sides DEF Colored
<1>3. c \in P /\ c # 0
  BY SMTT(60), <1>2, ColoredFacts
<1>4. /\ c # n /\ i \in RbNode /\ p \in RbNode /\ i # c /\ i # n /\ p # n /\ p # c
      /\ i # 0 => i \in P /\ i # p
  BY SMTT(60), <1>1, <1>2, <1>3, Apart4 DEF TreeOf
<1>5. /\ b \in RbNode /\ b # n /\ b # c /\ (b # 0 => t.up[b] = n)
      /\ d \in RbNode /\ d # c /\ (d # 0 => d \in P /\ t.up[d] = c)
      /\ t.up[c] = n /\ (i # 0 => t.up[i] = c)
      /\ n \in RbKey /\ c \in RbKey /\ n # 0
  <2>1. b \in RbNode /\ b # n /\ (b # 0 => t.up[b] = n) /\ (b # 0 => t.child[o][n] # b)
    BY SMTT(60), <1>1, <1>2, ColoredFacts
  <2>2. d \in RbNode /\ d # c /\ (d # 0 => d \in P /\ t.up[d] = c)
    BY SMTT(60), <1>1, <1>2, <1>3, ColoredFacts
  <2>3. t.up[c] = n /\ (i # 0 => t.up[i] = c) /\ n \in RbKey /\ c \in RbKey /\ n # 0
    BY <1>1, <1>2, <1>3, ColoredFacts
  <2>4. QED
    BY ZenonT(60), <1>1, <1>3, <2>1, <2>2, <2>3
<1>6. d # n
  <2>1. \A x \in U[c] : x # n
    BY SMTT(60), <1>1, <1>2, <1>3, NodeFacts DEF TreeOf
  <2>2. d # 0 => d \in U[d] /\ U[d] \subseteq U[c]
    BY <1>1, <1>2, <1>3, NodeFacts DEF TreeOf
  <2>3. QED
    BY <1>5, <2>1, <2>2
<1>7. PICK e : e = SetRed(SetBlack(t, c), n)
  OBVIOUS
<1>8. Recolored(e, t, (t.red \ {c}) \cup {n})
  <2>1. PICK a : a = SetBlack(t, c)
    OBVIOUS
  <2>2. Recolored(a, t, t.red \ {c})
    BY <1>2, <2>1, SetBlackIs
  <2>3. a \in Store
    BY <2>2 DEF Recolored
  <2>4. Recolored(e, a, a.red \cup {n})
    BY <1>5, <1>7, <2>1, <2>3, SetRedIs
  <2>5. QED
    BY <2>2, <2>4 DEF Recolored
<1>9. /\ e \in Store /\ e.root = t.root /\ e.child = t.child /\ e.up = t.up
      /\ e.red = (t.red \ {c}) \cup {n}
  BY <1>8 DEF Recolored
<1>10. TreeOf(e, P, U)
  BY <1>2, <1>9 DEF TreeOf
<1>11. PICK v : v = Rotate(e, n, s)
  OBVIOUS
<1>12. IsTurn(v, e, n, s, c, i, p) /\ v.red = e.red
  <2>1. c = e.child[Other(s)][n] /\ i = e.child[s][c] /\ p = e.up[n]
    BY <1>1, <1>9
  <2>2. /\ IsTurn(Rotate(e, n, s), e, n, s, e.child[Other(s)][n],
                  e.child[s][e.child[Other(s)][n]], e.up[n])
        /\ Rotate(e, n, s).red = e.red
    BY <1>3, <1>9, <1>10, <2>1, RotateIs
  <2>3. QED
    BY <1>11, <2>1, <2>2
<1>13. IsTurn(v, t, n, s, c, i, p)
  BY <1>9, <1>12 DEF IsTurn
<1>t. TurnAt(t, n, s, c, i, p, b, d)
  BY <1>1, <1>3 DEF TurnAt
<1>14. TreeOf(v, P, Turned(U, n, c, i, b))
  BY <1>2, <1>13, <1>t, RotateTree
<1>15. v.red = (t.red \ {c}) \cup {n} /\ v \in Store
  BY <1>9, <1>12 DEF IsTurn
<1>16. PICK G : G = [H EXCEPT ![n] = H[c], ![c] = H[n]]
  OBVIOUS
<1>17. /\ \A x \in RbNode : H[x] \in Nat
       /\ H \in [RbNode -> Nat] /\ H[0] = 0
       /\ H[n] = H[c] + 1 /\ H[n] = H[b] + Missing(n, s, mp, ms) + 1
       /\ H[c] = H[i] /\ H[c] = H[d]
       /\ Missing(n, o, mp, ms) = 0 /\ Missing(c, s, mp, ms) = 0 /\ Missing(c, o, mp, ms) = 0
       /\ Missing(n, s, mp, ms) \in Nat
  <2>1. Missing(n, o, mp, ms) = 0 /\ Missing(c, s, mp, ms) = 0 /\ Missing(c, o, mp, ms) = 0
        /\ Missing(n, s, mp, ms) \in Nat
    BY <1>2 DEF Missing
  <2>2. H \in [RbNode -> Nat] /\ H[0] = 0
    BY DEF Colored, Heights
  <2>3. H[n] = H[c] + Missing(n, o, mp, ms) + Black(t.red, n) /\ Black(t.red, n) = 1
    BY <1>1, <1>2, ColoredFacts
  <2>4. H[n] = H[b] + Missing(n, s, mp, ms) + Black(t.red, n)
    BY SMTT(60), <1>1, <1>2, ColoredFacts
  <2>5. /\ H[c] = H[i] + Missing(c, s, mp, ms) + Black(t.red, c)
        /\ H[c] = H[d] + Missing(c, o, mp, ms) + Black(t.red, c) /\ Black(t.red, c) = 0
    BY <1>1, <1>2, <1>3, ColoredFacts
  <2>6. H[c] \in Nat /\ H[b] \in Nat /\ H[i] \in Nat /\ H[d] \in Nat
    BY <1>3, <1>4, <1>5, <2>2, RbNumbers DEF RbNode
  <2>7. QED
    BY <2>1, <2>2, <2>3, <2>4, <2>5, <2>6
<1>18. /\ G \in [RbNode -> Nat] /\ G[0] = 0 /\ G[n] = H[c] /\ G[c] = H[n]
       /\ \A x \in RbNode : x # n /\ x # c => G[x] = H[x]
  <2>1. n \in RbNode /\ c \in RbNode /\ 0 \in RbNode
    BY <1>5, RbNumbers
  <2>2. QED
    BY <1>3, <1>4, <1>5, <1>16, <1>17, <2>1
<1>19. Heights(v.child, v.red, P, G, mp, ms)
  <2>1. ASSUME NEW x \in P, NEW u \in Side, x # n, x # c
        PROVE  G[x] = G[IF t.child[u][x] = n THEN c ELSE t.child[u][x]]
                      + Missing(x, u, mp, ms) + Black(v.red, x)
    <3>1. H[x] = H[t.child[u][x]] + Missing(x, u, mp, ms) + Black(t.red, x)
          /\ t.child[u][x] \in RbNode /\ x \in RbNode
          /\ (t.child[u][x] # 0 => t.up[t.child[u][x]] = x)
      BY ColoredFacts
    <3>2. Black(v.red, x) = Black(t.red, x)
      BY <1>15, <2>1 DEF Black
    <3>3. t.child[u][x] # c
      BY <1>3, <1>5, <2>1, <3>1
    <3>4. G[x] = H[x]
      BY <1>18, <2>1, <3>1
    <3>5. G[IF t.child[u][x] = n THEN c ELSE t.child[u][x]] = H[t.child[u][x]]
      BY <1>18, <3>1, <3>3
    <3>6. QED
      BY <3>1, <3>2, <3>4, <3>5
  <2>2. Black(v.red, n) = 0 /\ Black(v.red, c) = 1
    BY <1>4, <1>15 DEF Black
  <2>3. G[i] = H[i] /\ G[b] = H[b] /\ G[d] = H[d]
    BY <1>4, <1>5, <1>6, <1>18
  <2>4. H[c] \in Nat /\ H[b] \in Nat /\ H[n] \in Nat
    BY <1>3, <1>5, <1>17, RbNumbers
  <2>5. G[n] = G[i] + Missing(n, Other(s), mp, ms) + Black(v.red, n)
    <3>1. Missing(n, Other(s), mp, ms) = 0
      BY <1>1, <1>17
    <3>2. G[n] = H[c] /\ G[i] = H[c]
      BY <1>17, <1>18, <2>3
    <3>3. QED
      BY <2>2, <2>4, <3>1, <3>2
  <2>6. G[n] = G[b] + Missing(n, s, mp, ms) + Black(v.red, n)
    BY <1>17, <1>18, <2>2, <2>3, <2>4
  <2>7. G[c] = G[n] + Missing(c, s, mp, ms) + Black(v.red, c)
    BY <1>17, <1>18, <2>2, <2>4
  <2>8. G[c] = G[d] + Missing(c, Other(s), mp, ms) + Black(v.red, c)
    <3>1. Missing(c, Other(s), mp, ms) = 0 /\ Black(v.red, c) = 1
      BY <1>1, <1>17, <2>2
    <3>2. G[c] = H[c] + 1 /\ G[d] = H[c]
      BY SMTT(60), <1>17, <1>18, <2>3
    <3>3. QED
      BY <2>4, <3>1, <3>2
  <2>9. Turning(t, P, G, v.red, mp, ms, n, s, c, i, b, d)
    BY ZenonT(60), <1>18, <2>1, <2>5, <2>6, <2>7, <2>8 DEF Turning
  <2>10. QED
    BY <1>2, <1>13, <1>t, <2>9, TurnHeights
<1>20. v.red \subseteq P
  BY <1>2, <1>15
<1>21. Colored(v, P, Turned(U, n, c, i, b), G, mp, ms)
  BY <1>14, <1>15, <1>19, <1>20 DEF Colored
<1>22. Separate(v.up, v.red)
  <2>1. ASSUME NEW m \in v.red PROVE v.up[m] \notin v.red
    <3>1. /\ \A x \in RbKey : v.up[x] = IF x = n THEN c ELSE IF x = c THEN p ELSE IF x = i THEN n ELSE t.up[x]
      BY <1>13 DEF IsTurn
    <3>2. m \in P /\ m \in RbKey
      BY <1>20, ColoredFacts
    <3>3. CASE m = n
      <4>1. v.up[m] = c
        BY <3>1, <3>2, <3>3
      <4>2. QED
        BY <1>4, <1>15, <4>1
    <3>4. CASE m # n
      <4>1. m \in t.red /\ m # c /\ m # i
        BY <1>1, <1>15, <2>1, <3>4
      <4>2. v.up[m] = t.up[m]
        BY <3>1, <3>2, <3>4, <4>1
      <4>3. t.up[m] # n
        <5>1. SUFFICES ASSUME t.up[m] = n PROVE FALSE
          OBVIOUS
        <5>2. m # t.root
          BY <4>1
        <5>3. \E u \in Side : t.child[u][n] = m
          BY <1>2, <3>2, <5>1, <5>2 DEF TreeOf, IsTree
        <5>4. QED
          BY <1>1, <1>2, <4>1, <5>3
      <4>4. t.up[m] \notin t.red \/ t.up[m] = c
        BY <4>1
      <4>5. QED
        BY <1>4, <1>15, <4>2, <4>3, <4>4
    <3>5. QED
      BY <3>3, <3>4
  <2>2. QED
    BY <2>1 DEF Separate
<1>23. v.root \notin v.red
  <2>1. v.root = IF p = 0 THEN c ELSE t.root
    BY <1>13 DEF IsTurn
  <2>2. p # 0 => t.root # n
    BY SMTT(60), <1>1, <1>2, ParentFacts DEF TreeOf
  <2>3. QED
    BY <1>4, <1>15, <2>1, <2>2
<1>24. Swapped(v, t, P, mp, ms, n, s, c)
  BY ZenonT(60), <1>1, <1>13, <1>15, <1>21, <1>22, <1>23 DEF Swapped
<1>25. QED
  BY <1>7, <1>11, <1>24 DEF SwapNext

(* The tree while the paths through n, on side s of p, are one node short.      *)
Short(t, P, U, H, n, p, s) ==
    /\ Colored(t, P, U, H, p, s) /\ p \in P /\ s \in Side /\ n = t.child[s][p]
    /\ n \notin t.red /\ t.root \notin t.red /\ Separate(t.up, t.red)

IsShort(t, P, n, p, s) == \E U, H : Short(t, P, U, H, n, p, s)

LEMMA ShortFacts ==
    ASSUME NEW t, NEW P, NEW U, NEW H, NEW n, NEW p, NEW s, Short(t, P, U, H, n, p, s),
           NEW o, o = t.child[Other(s)][p]
    PROVE  /\ o \in P /\ o # 0 /\ o # p /\ o # n /\ n # p /\ p # 0 /\ t.up[o] = p /\ n \in RbNode
           /\ H[n] \in Nat /\ H[o] = H[n] + 1 /\ H[p] = H[n] + 1 + Black(t.red, p)
           /\ n # 0 => t.up[n] = p /\ n \in P
<1>1. Colored(t, P, U, H, p, s) /\ p \in P /\ s \in Side /\ Other(s) \in Side /\ Other(s) # s
  BY Sides DEF Short
<1>2. n = t.child[s][p]
  BY DEF Short
<1>3. Missing(p, s, p, s) = 1 /\ Missing(p, Other(s), p, s) = 0
  BY <1>1 DEF Missing
<1>4. Black(t.red, p) \in Nat
  BY DEF Black
<1>5. /\ n \in RbNode /\ H[n] \in Nat /\ n # p /\ (n # 0 => t.up[n] = p /\ n \in P)
      /\ H[p] = H[n] + 1 + Black(t.red, p)
      /\ n # 0 => t.child[Other(s)][p] # n
  BY <1>1, <1>2, <1>3, ColoredFacts
<1>6. /\ o \in RbNode /\ H[o] \in Nat /\ o # p /\ (o # 0 => t.up[o] = p /\ o \in P)
      /\ H[p] = H[o] + 0 + Black(t.red, p)
  BY <1>1, <1>3, ColoredFacts
<1>7. H[o] = H[n] + 1
  BY <1>4, <1>5, <1>6
<1>8. H[0] = 0 /\ p # 0
  BY <1>1, ColoredFacts
<1>9. o # 0
  BY <1>5, <1>7, <1>8
<1>10. QED
  BY <1>5, <1>6, <1>7, <1>8, <1>9

(* The first step of __rb_erase_color: the sibling becomes black.               *)
LEMMA SiblingStep ==
    ASSUME NEW t, NEW P, NEW n, NEW p, NEW s, IsShort(t, P, n, p, s),
           NEW o, o = t.child[Other(s)][p],
           NEW w, w = IF o \in t.red THEN SwapNext(t, p, o, s) ELSE t
    PROVE  IsShort(w, P, n, p, s) /\ w.child[Other(s)][p] \notin w.red
<1>1. PICK U, H : Short(t, P, U, H, n, p, s)
  BY DEF IsShort
<1>2. CASE o \notin t.red
  <2>1. w = t
    BY <1>2
  <2>2. QED
    BY <1>2, <2>1
<1>3. CASE o \in t.red
  <2>1. /\ o \in P /\ o # 0 /\ o # p /\ o # n /\ n # p /\ p # 0 /\ t.up[o] = p /\ n \in RbNode
    BY <1>1, ShortFacts
  <2>2. /\ Colored(t, P, U, H, p, s) /\ p \in P /\ s \in Side /\ n = t.child[s][p]
        /\ n \notin t.red /\ t.root \notin t.red /\ Separate(t.up, t.red)
        /\ Other(s) \in Side /\ Other(s) # s /\ Other(Other(s)) = s
    BY <1>1, Sides DEF Short
  <2>3. p \notin t.red
    BY SMTT(60), <1>3, <2>1, <2>2 DEF Separate
  <2>4. t.child[s][o] \notin t.red
    <3>1. t.child[s][o] # 0 => t.up[t.child[s][o]] = o
      BY <2>1, <2>2, ColoredFacts
    <3>2. 0 \notin t.red
      BY <2>2, ColoredFacts
    <3>3. QED
      BY SMTT(60), <1>3, <2>2, <3>1, <3>2 DEF Separate
  <2>5. \A m \in t.red : t.up[m] \in t.red => t.up[m] = o
    BY <2>2 DEF Separate
  <2>6. Swapped(SwapNext(t, p, o, s), t, P, p, s, p, s, o)
    <3>1. t.child[s][p] \notin t.red
      BY <2>2
    <3>2. QED
      BY <1>3, <2>1, <2>2, <2>3, <2>4, <2>5, <3>1, SwapTurn
  <2>7. Swapped(w, t, P, p, s, p, s, o)
    BY SMTT(60), <1>3, <2>6
  <2>8. PICK V, G : Colored(w, P, V, G, p, s)
    BY ZenonT(60), <2>7 DEF Swapped
  <2>9. /\ w.root \notin w.red /\ Separate(w.up, w.red) /\ w.red = (t.red \ {o}) \cup {p}
        /\ IsTurn(w, t, p, s, o, t.child[s][o], t.up[p])
    BY ZenonT(60), <2>7 DEF Swapped
  <2>10. p \in RbKey /\ t.up[p] # p /\ o \in RbKey
    <3>1. TreeOf(t, P, U)
      BY <2>2 DEF Colored
    <3>2. p \in RbKey /\ o \in RbKey
      BY SMTT(60), <2>1, <2>2, ColoredFacts
    <3>3. QED
      BY <2>1, <2>2, <3>1, <3>2, ParentFacts DEF TreeOf
  <2>11. w.child[s][p] = n
    BY ZenonT(60), <2>1, <2>2, <2>9, <2>10 DEF IsTurn
  <2>12. n \notin w.red
    BY ZenonT(60), <2>1, <2>2, <2>9
  <2>13. Short(w, P, V, G, n, p, s)
    BY ZenonT(60), <2>2, <2>8, <2>9, <2>11, <2>12 DEF Short
  <2>14. PICK q : q = w.child[Other(s)][p]
    BY SMTT(60)
  <2>15. q # 0 /\ w.up[q] = p
    BY SMTT(60), <2>13, <2>14, ShortFacts
  <2>16. q \notin w.red
    BY ZenonT(60), <2>9, <2>15 DEF Separate
  <2>17. QED
    BY <2>13, <2>14, <2>16 DEF IsShort
<1>4. QED
  BY <1>2, <1>3

(* The second step: the nephew on the near side takes the sibling's place.      *)
NephewNext(t, s, o) ==
    IF t.child[Other(s)][o] \notin t.red THEN SwapNext(t, o, t.child[s][o], Other(s)) ELSE t

FarIsRed(t, P, n, p, s) ==
    /\ IsShort(t, P, n, p, s) /\ t.child[Other(s)][p] \notin t.red
    /\ t.child[Other(s)][t.child[Other(s)][p]] \in t.red

LEMMA NephewStep ==
    ASSUME NEW t, NEW P, NEW n, NEW p, NEW s, IsShort(t, P, n, p, s),
           NEW o, o = t.child[Other(s)][p], o \notin t.red, ~BothBlack(t, o)
    PROVE  FarIsRed(NephewNext(t, s, o), P, n, p, s)
<1> DEFINE w == NephewNext(t, s, o)
<1>1. PICK U, H : Short(t, P, U, H, n, p, s)
  BY DEF IsShort
<1> HIDE DEF w
<1>0. SUFFICES FarIsRed(w, P, n, p, s)
  BY DEF w
<1>2. CASE t.child[Other(s)][o] \in t.red
  <2>1. w = t
    BY <1>2 DEF w, NephewNext
  <2>2. QED
    BY <1>1, <1>2, <2>1 DEF FarIsRed, IsShort
<1>3. CASE t.child[Other(s)][o] \notin t.red
  <2>1. /\ o \in P /\ o # 0 /\ o # p /\ o # n /\ n # p /\ p # 0 /\ t.up[o] = p /\ n \in RbNode
    BY <1>1, ShortFacts
  <2>2. PICK f : f = Other(s)
    OBVIOUS
  <2>3. /\ Colored(t, P, U, H, p, s) /\ p \in P /\ s \in Side /\ n = t.child[s][p]
        /\ n \notin t.red /\ t.root \notin t.red /\ Separate(t.up, t.red)
        /\ f \in Side /\ f # s /\ Other(f) = s /\ o = t.child[f][p]
    BY <1>1, <2>2, Sides DEF Short
  <2>4. PICK a : a = t.child[s][o]
    OBVIOUS
  <2>5. a \in t.red
    BY <1>3, <2>2, <2>3, <2>4, Sides DEF BothBlack
  <2>6. TreeOf(t, P, U) /\ 0 \notin t.red
    <3>1. TreeOf(t, P, U)
      BY <2>3 DEF Colored
    <3>2. QED
      BY <2>3, <3>1, ColoredFacts
  <2>7. /\ a \in P /\ t.up[a] = o /\ a # o /\ a \in RbKey /\ p \in RbKey
        /\ t.child[f][a] # 0 => t.up[t.child[f][a]] = a
    <3>1. /\ a # 0 => a \in P /\ t.up[a] = o
          /\ a # o
      BY <2>1, <2>3, <2>4, ColoredFacts
    <3>2. a \in P /\ t.up[a] = o
      BY <2>5, <2>6, <3>1
    <3>3. QED
      BY SMTT(60), <2>3, <3>1, <3>2, ColoredFacts
  <2>8. a # p
    BY <2>1, <2>2, <2>3, <2>4, <2>6, Apart4 DEF TreeOf
  <2>9. t.child[f][a] \notin t.red
    BY <2>3, <2>5, <2>6, <2>7 DEF Separate
  <2>10. \A m \in t.red : t.up[m] \in t.red => t.up[m] = a
    BY SMTT(60), <2>3 DEF Separate
  <2>11. Swapped(SwapNext(t, o, a, f), t, P, p, s, o, f, a)
    <3>1. a = t.child[Other(f)][o] /\ t.child[f][o] \notin t.red /\ p # a /\ (p = o => s = f)
      BY <1>3, <2>1, <2>2, <2>3, <2>4, <2>8
    <3>2. QED
      BY <2>1, <2>3, <2>5, <2>9, <2>10, <3>1, SwapTurn
  <2>12. w = SwapNext(t, o, a, f)
    BY <1>3, <2>2, <2>4 DEF w, NephewNext
  <2>13. Swapped(w, t, P, p, s, o, f, a)
    BY <2>11, <2>12
  <2>14. PICK V, G : Colored(w, P, V, G, p, s)
    BY <2>13 DEF Swapped
  <2>15. /\ w.root \notin w.red /\ Separate(w.up, w.red) /\ w.red = (t.red \ {a}) \cup {o}
         /\ IsTurn(w, t, o, f, a, t.child[f][a], p)
    BY <2>1, <2>13 DEF Swapped
  <2>16. SideIs(t.child, o, p) = f
    <3>1. t.child[s][p] # o
      BY <2>1, <2>3
    <3>2. t.child["left"][p] = o <=> f = "left"
      BY <2>2, <2>3, <3>1, Sides
    <3>3. QED
      BY <2>3, <3>2, Sides DEF SideIs
  <2>17. w.child[s][p] = n
    BY <2>1, <2>3, <2>7, <2>8, <2>15, <2>16 DEF IsTurn
  <2>18. w.child[f][p] = a /\ w.child[f][a] = o
    BY <2>1, <2>3, <2>7, <2>8, <2>15, <2>16 DEF IsTurn
  <2>19. n \notin w.red /\ a \notin w.red /\ o \in w.red
    BY <2>1, <2>3, <2>7, <2>15
  <2>20. Short(w, P, V, G, n, p, s)
    BY <2>3, <2>14, <2>15, <2>17, <2>19 DEF Short
  <2>21. QED
    BY <2>2, <2>18, <2>19, <2>20 DEF FarIsRed, IsShort
<1>4. QED
  BY <1>2, <1>3

LEMMA UnderChild ==
    ASSUME NEW rt, NEW ch, NEW up, NEW P, NEW U, IsTree(rt, ch, up, P, U), NEW n \in P,
           NEW s \in Side, NEW m, m = ch[s][n], m # 0
    PROVE  m \in U[m] /\ U[m] \subseteq U[n] /\ n \notin U[m] /\ m \in U[n]
<1>1. /\ U[n] = U[ch[s][n]] \cup {n} \cup U[ch[Other(s)][n]]
      /\ n \notin U[ch[s][n]]
      /\ ch[s][n] # 0 => ch[s][n] \in U[ch[s][n]]
  BY NodeFacts
<1>2. QED
  BY <1>1

LEMMA ChildFacts ==
    ASSUME NEW rt, NEW ch, NEW up, NEW P, NEW U, IsTree(rt, ch, up, P, U), NEW n \in P,
           NEW s \in Side, NEW m, m = ch[s][n]
    PROVE  m \in RbNode /\ m # n /\ (m # 0 => m \in P /\ up[m] = n)
  BY NodeFacts

(* A search tree of the keys P that is balanced.                               *)
Sound(t, P) == /\ \E U, H : Colored(t, P, U, H, 0, "left")
               /\ Separate(t.up, t.red) /\ t.root \notin t.red

(* The last step: the far nephew, which is red, makes up for the missing node.  *)
FarNext(t, p, s, o, f) == Rotate(SetBlack(SetBlack(SameColor(t, o, p), p), f), p, s)

LEMMA FarStep ==
    ASSUME NEW t, NEW P, NEW n, NEW p, NEW s, IsShort(t, P, n, p, s),
           NEW o, o = t.child[Other(s)][p], o \notin t.red,
           NEW f, f = t.child[Other(s)][o], f \in t.red
    PROVE  Sound(FarNext(t, p, s, o, f), P)
<1>1. PICK U, H : Short(t, P, U, H, n, p, s)
  BY DEF IsShort
<1>2. /\ o \in P /\ o # 0 /\ o # p /\ o # n /\ n # p /\ p # 0 /\ t.up[o] = p /\ n \in RbNode
      /\ H[n] \in Nat /\ H[o] = H[n] + 1 /\ H[p] = H[n] + 1 + Black(t.red, p)
  BY <1>1, ShortFacts
<1>3. PICK far : far = Other(s)
  OBVIOUS
<1>4. /\ Colored(t, P, U, H, p, s) /\ p \in P /\ s \in Side /\ n = t.child[s][p]
      /\ n \notin t.red /\ t.root \notin t.red /\ Separate(t.up, t.red)
      /\ far \in Side /\ far # s /\ Other(far) = s /\ o = t.child[far][p] /\ f = t.child[far][o]
      /\ \A u \in Side : u = s \/ u = far
  BY SMTT(60), <1>1, <1>3, Sides DEF Short
<1>5. /\ TreeOf(t, P, U) /\ t \in Store /\ t.red \subseteq P /\ 0 \notin t.red
      /\ H \in [RbNode -> Nat] /\ H[0] = 0 /\ 0 \notin P /\ P \in SUBSET RbKey
  <2>1. TreeOf(t, P, U) /\ t \in Store /\ t.red \subseteq P /\ H \in [RbNode -> Nat]
    BY <1>4 DEF Colored, Heights
  <2>2. QED
    BY <1>4, <2>1, ColoredFacts
<1>6. PICK i, q : i = t.child[s][o] /\ q = t.up[p]
  OBVIOUS
<1>7. /\ f \in P /\ f # 0 /\ f # o /\ t.up[f] = o /\ i \in RbNode /\ i # o /\ f # i
      /\ i # 0 => t.up[i] = o /\ i \in P
      /\ H[f] \in Nat /\ H[i] \in Nat /\ H[o] = H[f] + 1 /\ H[o] = H[i] + 1
  <2>1. Missing(o, far, p, s) = 0 /\ Missing(o, s, p, s) = 0 /\ Black(t.red, o) = 1
    BY <1>2 DEF Missing, Black
  <2>2. f # 0
    BY SMTT(60), <1>5
  <2>3. /\ f \in P /\ f # o /\ t.up[f] = o /\ t.child[Other(far)][o] # f
        /\ H[f] \in Nat /\ H[o] = H[f] + Missing(o, far, p, s) + Black(t.red, o)
    <3>1. ChildIs(t, P, H, o, far, p, s, f)
      BY ZenonT(60), <1>2, <1>4, ColoredChild
    <3>2. f \in P /\ f # o /\ t.up[f] = o
      BY ZenonT(60), <2>2, <3>1 DEF ChildIs
    <3>3. t.child[Other(far)][o] # f
      BY ZenonT(60), <2>2, <3>1 DEF ChildIs
    <3>4. H[f] \in Nat /\ H[o] = H[f] + Missing(o, far, p, s) + Black(t.red, o)
      BY ZenonT(60), <3>1 DEF ChildIs
    <3>5. QED
      BY ZenonT(60), <3>2, <3>3, <3>4
  <2>4. /\ i \in RbNode /\ i # o /\ (i # 0 => t.up[i] = o /\ i \in P)
        /\ H[i] \in Nat /\ H[o] = H[i] + Missing(o, s, p, s) + Black(t.red, o)
    <3>1. ChildIs(t, P, H, o, s, p, s, i)
      BY ZenonT(60), <1>2, <1>4, <1>6, ColoredChild
    <3>2. QED
      BY ZenonT(60), <3>1 DEF ChildIs
  <2>5. f # i
    BY ZenonT(60), <1>4, <1>6, <2>3
  <2>6. QED
    BY <2>1, <2>2, <2>3, <2>4, <2>5
<1>8. /\ i # p /\ q # p /\ q # o /\ q \in RbNode /\ (i # 0 => i # q)
      /\ f # p /\ f # q
  <2>1. i # p /\ q # p /\ q # o /\ q \in RbNode /\ (i # 0 => i # q)
    BY SMTT(60), <1>2, <1>3, <1>4, <1>5, <1>6, Apart4 DEF TreeOf
  <2>2. \A x \in U[o] : x # p
    BY <1>2, <1>4, <1>5, NodeFacts DEF TreeOf
  <2>3. f \in U[f] /\ U[f] \subseteq U[o] /\ U[o] \subseteq U[p]
    <3>1. f \in U[f] /\ U[f] \subseteq U[o]
      <4>1. IsTree(t.root, t.child, t.up, P, U)
        BY SMTT(60), <1>5 DEF TreeOf
      <4>2. o \in P /\ far \in Side /\ f = t.child[far][o] /\ f # 0
        BY ZenonT(60), <1>2, <1>4, <1>7
      <4>3. QED
        BY <4>1, <4>2, UnderChild
    <3>2. U[o] \subseteq U[p]
      BY <1>2, <1>4, <1>5, UnderChild DEF TreeOf
    <3>3. QED
      BY Zenon, <3>1, <3>2
  <2>4. q # 0 => q \notin U[p]
    BY <1>4, <1>5, <1>6, ParentFacts DEF TreeOf
  <2>5. QED
    BY ZenonT(60), <1>7, <2>1, <2>2, <2>3, <2>4
<1>9. PICK rd : rd = ((IF p \in t.red THEN t.red \cup {o} ELSE t.red \ {o}) \ {p}) \ {f}
  OBVIOUS
<1>10. PICK e : e = SetBlack(SetBlack(SameColor(t, o, p), p), f)
  OBVIOUS
<1>11. Recolored(e, t, rd)
  <2>1. PICK e1, r1 : e1 = SameColor(t, o, p) /\ r1 = IF p \in t.red THEN t.red \cup {o} ELSE t.red \ {o}
    OBVIOUS
  <2>2. o \in RbKey
    BY <1>2, <1>5
  <2>3. Recolored(e1, t, r1)
    BY <1>5, <2>1, <2>2, SameColorIs
  <2>4. PICK e2 : e2 = SetBlack(e1, p)
    OBVIOUS
  <2>5. e1 \in Store
    BY <2>3 DEF Recolored
  <2>6. Recolored(e2, e1, e1.red \ {p})
    BY <2>4, <2>5, SetBlackIs
  <2>7. e2 \in Store
    BY <2>6 DEF Recolored
  <2>8. e = SetBlack(e2, f)
    BY <1>10, <2>1, <2>4
  <2>9. Recolored(e, e2, e2.red \ {f})
    BY <2>7, <2>8, SetBlackIs
  <2>10. QED
    BY <1>9, <2>1, <2>3, <2>6, <2>9 DEF Recolored
<1>12. e \in Store /\ e.root = t.root /\ e.child = t.child /\ e.up = t.up /\ e.red = rd
  BY <1>11 DEF Recolored
<1>13. PICK v : v = Rotate(e, p, s)
  OBVIOUS
<1>14. IsTurn(v, t, p, s, o, i, q) /\ v.red = rd
  <2>1. TreeOf(e, P, U)
    BY <1>5, <1>12 DEF TreeOf
  <2>2. o = e.child[Other(s)][p] /\ i = e.child[s][o] /\ q = e.up[p]
    BY <1>3, <1>4, <1>6, <1>12
  <2>3. /\ IsTurn(Rotate(e, p, s), e, p, s, e.child[Other(s)][p],
                  e.child[s][e.child[Other(s)][p]], e.up[p])
        /\ Rotate(e, p, s).red = e.red
    BY <1>2, <1>4, <1>12, <2>1, <2>2, RotateIs
  <2>4. IsTurn(v, e, p, s, o, i, q) /\ v.red = rd
    BY <1>12, <1>13, <2>2, <2>3
  <2>5. QED
    BY <1>12, <2>4 DEF IsTurn
<1>15. PICK V : TreeOf(v, P, V)
  <2>1. /\ n = t.child[s][p] /\ o = t.child[Other(s)][p] /\ i = t.child[s][o] /\ q = t.up[p]
    BY <1>4, <1>6
  <2>2. TreeOf(v, P, Turned(U, p, o, i, n))
    <3>1. TurnAt(t, p, s, o, i, q, n, f) /\ p \in P /\ s \in Side
      BY <1>2, <1>3, <1>4, <2>1 DEF TurnAt
    <3>2. QED
      BY <1>5, <1>14, <3>1, RotateTree
  <2>3. QED
    BY <2>2
<1>16. PICK G : G = [H EXCEPT ![p] = H[o], ![o] = H[p], ![f] = H[f] + 1]
  OBVIOUS
<1>17. /\ p \in RbNode /\ o \in RbNode /\ f \in RbNode /\ q \in RbNode
       /\ p \in RbKey /\ o \in RbKey /\ f \in RbKey
  BY ZenonT(60), <1>2, <1>4, <1>5, <1>7, <1>8, RbNumbers
<1>18. H[p] \in Nat /\ H[o] \in Nat /\ H[f] \in Nat
  BY SMTT(60), <1>5, <1>17
<1>19. /\ G \in [RbNode -> Nat] /\ G[0] = 0
       /\ G[p] = H[o] /\ G[o] = H[p] /\ G[f] = H[f] + 1
       /\ \A x \in RbNode : x # p /\ x # o /\ x # f => G[x] = H[x]
  <2>1. H[f] + 1 \in Nat
    BY <1>18
  <2>2. p # o /\ p # f /\ o # f /\ p # 0 /\ o # 0 /\ f # 0 /\ H \in [RbNode -> Nat] /\ H[0] = 0
    BY <1>2, <1>5, <1>7, <1>8
  <2>3. PICK a, b, c : a = H[o] /\ b = H[p] /\ c = H[f] + 1 /\ a \in Nat /\ b \in Nat /\ c \in Nat
    BY <1>18, <2>1
  <2>4. G = [H EXCEPT ![p] = a, ![o] = b, ![f] = c]
    BY SMTT(60), <1>16, <2>3
  <2>5. G \in [RbNode -> Nat]
    BY ZenonT(60), <1>17, <2>2, <2>3, <2>4
  <2>6. G[0] = 0 /\ G[p] = a /\ G[o] = b /\ G[f] = c
    BY <1>17, <2>2, <2>4, RbNumbers
  <2>7. \A x \in RbNode : x # p /\ x # o /\ x # f => G[x] = H[x]
    BY SMTT(60), <2>2, <2>4
  <2>8. QED
    BY ZenonT(60), <2>3, <2>5, <2>6, <2>7
<1>20. /\ Black(rd, p) = 1 /\ Black(rd, f) = 1 /\ Black(rd, o) = Black(t.red, p)
       /\ Black(t.red, f) = 0
       /\ \A x : x # p /\ x # o /\ x # f => Black(rd, x) = Black(t.red, x)
  BY ZenonT(60), <1>2, <1>7, <1>8, <1>9 DEF Black
<1>21. \A x \in P : \A u \in Side : Missing(x, u, 0, "left") = 0
  BY SMTT(60), <1>5 DEF Missing
<1>22. G[n] = H[n] /\ G[i] = H[i]
  <2>1. n # f
    <3>1. n # 0 => t.up[n] = p
      BY <1>1, <1>2, ShortFacts
    <3>2. QED
      BY <1>2, <1>7, <3>1
  <2>2. QED
    BY ZenonT(60), <1>2, <1>7, <1>8, <1>19, <2>1
<1>23. \A x \in P : \A u \in Side : x # p /\ x # o =>
          G[x] = G[IF t.child[u][x] = p THEN o ELSE t.child[u][x]]
                 + Missing(x, u, 0, "left") + Black(rd, x)
  <2>1. SUFFICES ASSUME NEW x \in P, NEW u \in Side, x # p, x # o
                 PROVE  G[x] = G[IF t.child[u][x] = p THEN o ELSE t.child[u][x]]
                               + Missing(x, u, 0, "left") + Black(rd, x)
    OBVIOUS
  <2>2. PICK y : y = t.child[u][x]
    OBVIOUS
  <2>3. /\ y \in RbNode /\ H[y] \in Nat /\ (y # 0 => t.up[y] = x) /\ y # x /\ x \in RbNode
        /\ H[x] = H[y] + Missing(x, u, p, s) + Black(t.red, x)
    BY <1>4, <2>2, ColoredFacts
  <2>4. Missing(x, u, p, s) = 0 /\ Missing(x, u, 0, "left") = 0
    BY <1>21, <2>1 DEF Missing
  <2>5. y # o
    BY SMTT(60), <1>2, <2>1, <2>3
  <2>6. CASE x = f
    <3>1. y # p
      BY SMTT(60), <1>6, <1>8, <2>3, <2>6, <1>2
    <3>2. G[y] = H[y]
      BY SMTT(60), <1>19, <2>3, <2>5, <2>6, <3>1
    <3>3. G[x] = H[y] + 0 + 1
      BY <1>19, <1>20, <2>3, <2>4, <2>6
    <3>4. QED
      BY ZenonT(60), <1>20, <2>2, <2>4, <2>6, <3>1, <3>2, <3>3
  <2>7. CASE x # f
    <3>1. y # f
      BY SMTT(60), <1>7, <2>1, <2>3
    <3>2. G[x] = H[x] /\ Black(rd, x) = Black(t.red, x)
      BY <1>19, <1>20, <2>1, <2>3, <2>7
    <3>3. G[IF y = p THEN o ELSE y] = H[y]
      BY SMTT(60), <1>19, <2>3, <2>5, <3>1
    <3>4. QED
      BY <2>2, <2>3, <2>4, <3>2, <3>3
  <2>8. QED
    BY <2>6, <2>7
<1>24. /\ G[p] = G[i] + Missing(p, Other(s), 0, "left") + Black(rd, p)
       /\ G[p] = G[n] + Missing(p, s, 0, "left") + Black(rd, p)
       /\ G[o] = G[p] + Missing(o, s, 0, "left") + Black(rd, o)
       /\ G[o] = G[f] + Missing(o, Other(s), 0, "left") + Black(rd, o)
  <2>1. /\ Missing(p, Other(s), 0, "left") = 0 /\ Missing(p, s, 0, "left") = 0
        /\ Missing(o, Other(s), 0, "left") = 0 /\ Missing(o, s, 0, "left") = 0
    BY <1>2, <1>3, <1>4, <1>21
  <2>2. Black(t.red, p) \in Nat
    BY SMTT(60) DEF Black
  <2>3. G[p] = H[i] + 0 + 1 /\ G[p] = H[n] + 0 + 1
    BY <1>2, <1>7, <1>19
  <2>4. H[p] = H[o] + 0 + Black(t.red, p) /\ H[p] = (H[f] + 1) + 0 + Black(t.red, p)
    BY <1>2, <1>7, <1>18, <2>2
  <2>5. QED
    BY ZenonT(60), <1>19, <1>20, <1>22, <2>1, <2>3, <2>4
<1>25. Heights(v.child, rd, P, G, 0, "left")
  <2>1. /\ n = t.child[s][p] /\ o = t.child[Other(s)][p] /\ f = t.child[Other(s)][o]
        /\ i = t.child[s][o] /\ q = t.up[p]
    BY <1>3, <1>4, <1>6
  <2>2. TurnAt(t, p, s, o, i, q, n, f) /\ p \in P /\ s \in Side
    BY SMTT(60), <1>2, <1>4, <2>1 DEF TurnAt
  <2>3. Turning(t, P, G, rd, 0, "left", p, s, o, i, n, f)
    BY ZenonT(60), <1>19, <1>23, <1>24 DEF Turning
  <2>4. QED
    BY <1>5, <1>14, <2>2, <2>3, TurnHeights
<1>26. Colored(v, P, V, G, 0, "left")
  <2>1. v \in Store
    BY <1>14 DEF IsTurn
  <2>2. rd \subseteq P
    BY <1>2, <1>5, <1>9
  <2>3. QED
    BY <1>14, <1>15, <1>25, <2>1, <2>2 DEF Colored
<1>27. Separate(v.up, v.red)
  <2>1. ASSUME NEW m \in rd PROVE v.up[m] \notin rd
    <3>1. m \in P /\ m \in RbKey /\ m # p /\ m # f /\ p \notin rd
      BY <1>2, <1>5, <1>9
    <3>2. v.up[m] = IF m = p THEN o ELSE IF m = o THEN q ELSE IF m = i THEN p ELSE t.up[m]
      BY <1>14, <3>1 DEF IsTurn
    <3>3. CASE m = o
      <4>1. p \in t.red
        BY <1>2, <1>9, <2>1, <3>3
      <4>2. q \notin t.red
        BY <1>4, <1>6, <4>1 DEF Separate
      <4>3. QED
        BY <1>2, <1>8, <1>9, <3>2, <3>3, <4>2
    <3>4. CASE m = i /\ m # o
      BY <3>1, <3>2, <3>4
    <3>5. CASE m # i /\ m # o
      <4>1. m \in t.red
        BY <1>9, <2>1, <3>5
      <4>2. t.up[m] \notin t.red
        BY <1>4, <4>1 DEF Separate
      <4>3. t.up[m] # o
        <5>1. SUFFICES ASSUME t.up[m] = o PROVE FALSE
          OBVIOUS
        <5>2. m # t.root
          BY <1>4, <4>1
        <5>3. \E u \in Side : t.child[u][o] = m
          BY <1>5, <3>1, <5>1, <5>2 DEF TreeOf, IsTree
        <5>4. QED
          BY <1>4, <1>6, <3>1, <3>5, <5>3
      <4>4. QED
        BY <1>9, <3>1, <3>2, <3>5, <4>2, <4>3
    <3>6. QED
      BY <3>3, <3>4, <3>5
  <2>2. QED
    BY <1>14, <2>1 DEF Separate
<1>28. v.root \notin v.red
  <2>1. v.root = IF q = 0 THEN o ELSE t.root
    BY <1>14 DEF IsTurn
  <2>2. q = 0 => p = t.root
    <3>1. t.up[p] = 0 <=> p = t.root
      BY <1>4, <1>5, ParentFacts DEF TreeOf
    <3>2. QED
      BY <1>6, <3>1
  <2>3. q = 0 => o \notin rd
    BY <1>4, <1>9, <2>2
  <2>4. t.root # o
    BY <1>2, <1>5, ParentFacts DEF TreeOf
  <2>5. t.root \notin rd
    BY <1>4, <1>9, <2>4
  <2>6. QED
    BY <1>14, <2>1, <2>3, <2>5
<1>29. Sound(v, P)
  BY <1>26, <1>27, <1>28 DEF Sound
<1>30. QED
  BY <1>10, <1>13, <1>29 DEF FarNext

(* What holds at a turn of __rb_erase_color at node n of parent p.              *)
Erasing(t, P, n, p) ==
    /\ IF p = 0 THEN n = t.root /\ \E U, H : Colored(t, P, U, H, 0, "left")
       ELSE /\ p \in P /\ n = t.child[SideIs(t.child, n, p)][p]
            /\ \E U, H : Colored(t, P, U, H, p, SideIs(t.child, n, p))
    /\ RedsApart(t.up, t.red, n) /\ RootBlack(t.root, t.red, n)

(* A black sibling with black children becomes red; its parent is next.         *)
LEMMA BothBlackStep ==
    ASSUME NEW t, NEW P, NEW n, NEW p, NEW s, IsShort(t, P, n, p, s),
           NEW o, o = t.child[Other(s)][p], o \notin t.red, BothBlack(t, o)
    PROVE  Erasing(SetRed(t, o), P, p, t.up[p])
<1>1. PICK U, H : Short(t, P, U, H, n, p, s)
  BY DEF IsShort
<1>2. /\ o \in P /\ o # 0 /\ o # p /\ o # n /\ n # p /\ p # 0 /\ t.up[o] = p /\ n \in RbNode
      /\ H[n] \in Nat /\ H[o] = H[n] + 1 /\ H[p] = H[n] + 1 + Black(t.red, p)
  BY <1>1, ShortFacts
<1>3. PICK far : far = Other(s)
  OBVIOUS
<1>4. /\ Colored(t, P, U, H, p, s) /\ p \in P /\ s \in Side /\ n = t.child[s][p]
      /\ n \notin t.red /\ t.root \notin t.red /\ Separate(t.up, t.red)
      /\ far \in Side /\ far # s /\ Other(far) = s /\ o = t.child[far][p]
      /\ \A u \in Side : u = s \/ u = far
  BY <1>1, <1>3, Sides DEF Short
<1>5. /\ TreeOf(t, P, U) /\ t \in Store /\ t.red \subseteq P /\ 0 \notin t.red
      /\ H \in [RbNode -> Nat] /\ H[0] = 0 /\ 0 \notin P /\ P \in SUBSET RbKey
  <2>1. TreeOf(t, P, U) /\ t \in Store /\ t.red \subseteq P /\ H \in [RbNode -> Nat]
    BY <1>4 DEF Colored, Heights
  <2>2. QED
    BY <1>4, <2>1, ColoredFacts
<1>6. PICK v, q : v = SetRed(t, o) /\ q = t.up[p]
  OBVIOUS
<1>7. v \in Store /\ v.root = t.root /\ v.child = t.child /\ v.up = t.up /\ v.red = t.red \cup {o}
  <2>1. o \in RbKey
    BY <1>2, <1>5
  <2>2. Recolored(v, t, t.red \cup {o})
    BY <1>5, <1>6, <2>1, SetRedIs
  <2>3. QED
    BY <2>2 DEF Recolored
<1>8. /\ q # 0 => q \in P /\ q # p /\ SideIs(t.child, p, q) \in Side
                  /\ t.child[SideIs(t.child, p, q)][q] = p
      /\ q = 0 <=> p = t.root
  BY <1>4, <1>5, <1>6, ParentFacts DEF TreeOf
<1>9. PICK r, d : r = (IF q = 0 THEN 0 ELSE q)
                  /\ d = IF q = 0 THEN "left" ELSE SideIs(t.child, p, q)
  OBVIOUS
<1>10. PICK a, b : a = H[n] /\ b = H[n] + Black(t.red, p)
                   /\ H[o] = a + 1 /\ H[p] = b + 1 /\ a \in Nat /\ b \in Nat
  <2>1. Black(t.red, p) \in Nat
    BY DEF Black
  <2>2. H[n] + Black(t.red, p) \in Nat /\ H[n] + 1 + Black(t.red, p) = (H[n] + Black(t.red, p)) + 1
    BY <1>2, <2>1
  <2>3. QED
    BY <1>2, <2>2
<1>11. PICK G : G = [H EXCEPT ![o] = a, ![p] = b]
  OBVIOUS
<1>12. p \in RbNode /\ o \in RbNode /\ p \in RbKey /\ o \in RbKey
  BY <1>2, <1>4, <1>5, RbNumbers
<1>13. /\ G \in [RbNode -> Nat] /\ G[0] = 0 /\ G[o] = a /\ G[p] = b
       /\ \A x \in RbNode : x # o /\ x # p => G[x] = H[x]
  BY <1>2, <1>5, <1>10, <1>11, <1>12, RbNumbers
<1>14. /\ Black(v.red, o) = 0 /\ Black(t.red, o) = 1
       /\ \A x : x # o => Black(v.red, x) = Black(t.red, x)
  BY <1>7 DEF Black
<1>15. ASSUME NEW x \in P, NEW u \in Side
       PROVE  G[x] = G[t.child[u][x]] + Missing(x, u, r, d) + Black(v.red, x)
  <2>1. PICK y : y = t.child[u][x]
    OBVIOUS
  <2>2. /\ y \in RbNode /\ H[y] \in Nat /\ (y # 0 => t.up[y] = x) /\ y # x /\ x \in RbNode
        /\ H[x] = H[y] + Missing(x, u, p, s) + Black(t.red, x) /\ H[x] \in Nat
    BY SMTT(60), <1>4, <2>1, ColoredFacts
  <2>3. CASE x = o
    <3>1. y # p /\ y # o
      <4>1. q # o
        BY <1>2, <1>3, <1>4, <1>5, <1>6, Apart4 DEF TreeOf
      <4>2. QED
        BY SMTT(60), <1>2, <1>6, <2>2, <2>3, <4>1
    <3>2. Missing(x, u, p, s) = 0
      BY <1>2, <2>3 DEF Missing
    <3>3. Missing(x, u, r, d) = 0
      <4>1. q # o
        BY <1>2, <1>3, <1>4, <1>5, <1>6, Apart4 DEF TreeOf
      <4>2. QED
        BY <1>2, <1>9, <2>3, <4>1 DEF Missing
    <3>4. G[y] = H[y]
      BY <1>13, <2>2, <3>1
    <3>5. H[o] = H[y] + 0 + 1
      BY <1>14, <2>2, <2>3, <3>2
    <3>6. a = H[y]
      BY <1>10, <2>2, <3>5
    <3>7. QED
      <4>1. G[x] = a /\ G[t.child[u][x]] = a /\ a \in Nat
        BY Zenon, <1>10, <1>13, <2>1, <2>3, <3>4, <3>6
      <4>2. Missing(x, u, r, d) = 0 /\ Black(v.red, x) = 0
        BY Zenon, <1>14, <2>3, <3>3
      <4>3. QED
        BY <4>1, <4>2
  <2>4. CASE x = p
    <3>1. Missing(x, u, r, d) = 0
      BY <1>2, <1>8, <1>9, <2>4 DEF Missing
    <3>2. Black(v.red, x) = Black(t.red, p) /\ Black(t.red, p) \in Nat
      BY <1>2, <1>14, <2>4 DEF Black
    <3>3. G[y] = a
      <4>1. CASE u = s
        BY <1>2, <1>4, <1>10, <1>13, <2>1, <2>4, <4>1
      <4>2. CASE u = far
        BY <1>4, <1>13, <2>1, <2>4, <4>2
      <4>3. QED
        BY SMTT(60), <1>4, <4>1, <4>2
    <3>4. b = a + 0 + Black(t.red, p)
      BY <1>10, <3>2
    <3>5. QED
      BY <1>13, <2>1, <2>4, <3>1, <3>2, <3>3, <3>4
  <2>5. CASE x # o /\ x # p
    <3>1. y # o
      BY <1>2, <2>2, <2>5
    <3>2. Missing(x, u, p, s) = 0 /\ Black(v.red, x) = Black(t.red, x) /\ Black(t.red, x) \in Nat
      BY <1>14, <2>5 DEF Missing, Black
    <3>3. G[x] = H[y] + 0 + Black(t.red, x)
      BY <1>13, <2>2, <2>5, <3>2
    <3>4. CASE y = p
      <4>1. x = q /\ x # 0
        BY <1>2, <1>5, <1>6, <2>2, <3>4
      <4>2. u = SideIs(t.child, p, q)
        <5>1. t.child[Other(SideIs(t.child, p, q))][q] # p
          BY <1>4, <1>5, <1>6, <4>1, ParentFacts DEF TreeOf
        <5>2. QED
          BY <1>8, <2>1, <3>4, <4>1, <5>1, Sides
      <4>3. Missing(x, u, r, d) = 1
        BY <1>9, <4>1, <4>2 DEF Missing
      <4>4. G[y] = b /\ H[y] = b + 1
        BY <1>10, <1>13, <3>4
      <4>5. G[x] = b + 1 + Black(t.red, x)
        BY <1>10, <3>2, <3>3, <4>4
      <4>6. QED
        BY <2>1, <3>2, <4>3, <4>4, <4>5
    <3>5. CASE y # p
      <4>1. Missing(x, u, r, d) = 0
        <5>1. SUFFICES ASSUME x = r, u = d PROVE FALSE
          BY DEF Missing
        <5>2. x = q /\ q # 0
          BY <1>5, <1>9, <5>1
        <5>3. QED
          BY <1>8, <1>9, <2>1, <3>5, <5>1, <5>2
      <4>2. G[y] = H[y]
        BY <1>13, <2>2, <3>1, <3>5
      <4>3. QED
        BY <2>1, <3>2, <3>3, <4>1, <4>2
    <3>6. QED
      BY <3>4, <3>5
  <2>6. QED
    BY <2>3, <2>4, <2>5
<1>16. Heights(v.child, v.red, P, G, r, d)
  BY <1>7, <1>13, <1>15 DEF Heights
<1>17. Colored(v, P, U, G, r, d)
  <2>1. TreeOf(v, P, U)
    BY <1>5, <1>7 DEF TreeOf
  <2>2. QED
    BY <1>2, <1>5, <1>7, <1>16, <2>1 DEF Colored
<1>18. RedsApart(v.up, v.red, p)
  <2>1. ASSUME NEW m \in v.red, m # p, v.up[m] # p PROVE v.up[m] \notin v.red
    <3>1. m \in t.red
      BY <1>2, <1>7, <2>1
    <3>2. t.up[m] \notin t.red
      BY <1>4, <3>1 DEF Separate
    <3>3. t.up[m] # o
      <4>1. SUFFICES ASSUME t.up[m] = o PROVE FALSE
        OBVIOUS
      <4>2. m # t.root /\ m \in P
        BY <1>4, <1>5, <3>1
      <4>3. \E u \in Side : t.child[u][o] = m
        BY <1>5, <4>1, <4>2 DEF TreeOf, IsTree
      <4>4. QED
        BY <3>1, <4>3 DEF BothBlack
    <3>4. QED
      BY <1>7, <3>2, <3>3
  <2>2. QED
    BY <2>1 DEF RedsApart
<1>19. RootBlack(v.root, v.red, p)
  <2>1. t.root # o
    BY <1>2, <1>5, ParentFacts DEF TreeOf
  <2>2. QED
    BY <1>4, <1>7, <2>1 DEF RootBlack
<1>20. Erasing(v, P, p, q)
  BY <1>7, <1>8, <1>9, <1>17, <1>18, <1>19, <1>4 DEF Erasing
<1>21. QED
  BY <1>6, <1>20

(* A turn of __rb_erase_color.                                                *)
Recoloring(op, n, p) == [op |-> op, node |-> n, parent |-> p]

LEMMA EraseTurn ==
    ASSUME NEW t, NEW P, NEW n, NEW p, Erasing(t, P, n, p), n \notin t.red, n # t.root
    PROVE  IsShort(t, P, n, p, SideIs(t.child, n, p)) /\ SideIs(t.child, n, p) \in Side
<1>1. p # 0
  BY DEF Erasing
<1>2. PICK s : s = SideIs(t.child, n, p)
  OBVIOUS
<1>3. s \in Side
  BY <1>2, Sides DEF SideIs
<1>4. PICK U, H : Colored(t, P, U, H, p, s)
  BY <1>1, <1>2 DEF Erasing
<1>5. p \in P /\ n = t.child[s][p] /\ RedsApart(t.up, t.red, n) /\ RootBlack(t.root, t.red, n)
  BY <1>1, <1>2 DEF Erasing
<1>6. t.root \notin t.red
  BY <1>5 DEF RootBlack
<1>7. Separate(t.up, t.red)
  BY <1>5 DEF RedsApart, Separate
<1>8. Short(t, P, U, H, n, p, s)
  BY <1>3, <1>4, <1>5, <1>6, <1>7 DEF Short
<1>9. QED
  BY <1>2, <1>3, <1>8 DEF IsShort

LEMMA SoundErases ==
    ASSUME NEW t, NEW P, Sound(t, P)
    PROVE  Erasing(t, P, t.root, 0)
  BY DEF Sound, Erasing, RedsApart, RootBlack, Separate

LEMMA EraseColorIs ==
    ASSUME NEW P, NEW n, NEW p, recolor = Recoloring("erase", n, p), Erasing(tree, P, n, p),
           EraseColor
    PROVE  \E m, q : recolor' = Recoloring("erase", m, q) /\ Erasing(tree', P, m, q)
<1> DEFINE x == recolor.node
           y == recolor.parent
           s == SideOf(tree, x, y)
           far == Other(s)
           o == tree.child[far][y]
           t1 == IF o \in tree.red THEN Rotate(SetRed(SetBlack(tree, o), y), y, s) ELSE tree
           o1 == t1.child[far][y]
           t2 == IF t1.child[far][o1] \notin t1.red
                 THEN Rotate(SetRed(SetBlack(t1, t1.child[s][o1]), o1), o1, far) ELSE t1
           o2 == t2.child[far][y]
           f == t2.child[far][o2]
           t3 == SetBlack(SetBlack(SameColor(t2, o2, y), y), f)
<1>1. x \notin tree.red /\ x # tree.root
  BY ZenonT(60) DEF EraseColor
<1>2. BothBlack(t1, o1) => /\ tree' = SetRed(t1, o1)
                           /\ recolor' = [recolor EXCEPT !.node = y, !.parent = t1.up[y]]
  BY ZenonT(60) DEF EraseColor
<1>3. ~BothBlack(t1, o1) => /\ tree' = Rotate(t3, y, s)
                            /\ recolor' = [recolor EXCEPT !.node = tree'.root, !.parent = 0]
  BY ZenonT(60) DEF EraseColor
<1>4. x = n /\ y = p
  BY DEF Recoloring
<1>5. s = SideIs(tree.child, x, y)
  BY DEF SideOf, SideIs
<1> HIDE DEF s, x, y
<1>6. far = Other(s) /\ o = tree.child[far][y]
  OBVIOUS
<1>7. t1 = IF o \in tree.red THEN SwapNext(tree, y, o, s) ELSE tree
  BY DEF SwapNext
<1> HIDE DEF o
<1>8. o1 = t1.child[far][y]
  OBVIOUS
<1> HIDE DEF t1
<1>9. t2 = IF t1.child[far][o1] \notin t1.red THEN SwapNext(t1, o1, t1.child[s][o1], far) ELSE t1
  BY DEF SwapNext
<1> HIDE DEF o1
<1>10. o2 = t2.child[far][y] /\ f = t2.child[far][o2]
  OBVIOUS
<1>11. Rotate(t3, y, s) = FarNext(t2, y, s, o2, f)
  BY DEF FarNext
<1> HIDE DEF far, t2, o2, f, t3
<1>12. IsShort(tree, P, n, p, s) /\ s \in Side
  <2>1. IsShort(tree, P, n, p, SideIs(tree.child, n, p)) /\ SideIs(tree.child, n, p) \in Side
    BY <1>1, <1>4, EraseTurn
  <2>2. QED
    BY <1>4, <1>5, <2>1
<1>13. o1 = t1.child[Other(s)][p]
  BY <1>4, <1>6, <1>8
<1>14. IsShort(t1, P, n, p, s) /\ o1 \notin t1.red
  <2>1. o = tree.child[Other(s)][p]
    BY <1>4, <1>6
  <2>2. t1 = IF o \in tree.red THEN SwapNext(tree, p, o, s) ELSE tree
    BY <1>4, <1>7
  <2>3. IsShort(t1, P, n, p, s) /\ t1.child[Other(s)][p] \notin t1.red
    BY <1>12, <2>1, <2>2, SiblingStep
  <2>4. QED
    BY <1>13, <2>3
<1>15. CASE BothBlack(t1, o1)
  <2>1. Erasing(SetRed(t1, o1), P, p, t1.up[p])
    BY <1>13, <1>14, <1>15, BothBlackStep
  <2>2. tree' = SetRed(t1, o1) /\ recolor' = [recolor EXCEPT !.node = p, !.parent = t1.up[p]]
    BY <1>2, <1>4, <1>15
  <2>3. recolor' = Recoloring("erase", p, t1.up[p])
    BY <2>2 DEF Recoloring
  <2>4. QED
    BY <2>1, <2>2, <2>3
<1>16. CASE ~BothBlack(t1, o1)
  <2>1. FarIsRed(NephewNext(t1, s, o1), P, n, p, s)
    BY <1>13, <1>14, <1>16, NephewStep
  <2>2. t2 = NephewNext(t1, s, o1)
    BY <1>6, <1>9 DEF SwapNext, NephewNext
  <2>3. o2 = t2.child[Other(s)][p] /\ f = t2.child[Other(s)][o2]
    BY <1>4, <1>6, <1>10
  <2>4. /\ IsShort(t2, P, n, p, s) /\ t2.child[Other(s)][p] \notin t2.red
        /\ t2.child[Other(s)][t2.child[Other(s)][p]] \in t2.red
    BY <2>1, <2>2 DEF FarIsRed
  <2>5. Sound(FarNext(t2, p, s, o2, f), P)
    BY <2>3, <2>4, FarStep
  <2>6. /\ tree' = FarNext(t2, p, s, o2, f)
        /\ recolor' = [recolor EXCEPT !.node = tree'.root, !.parent = 0]
    BY <1>3, <1>4, <1>11, <1>16
  <2>7. PICK w : w = tree'
    OBVIOUS
  <2>8. Erasing(w, P, w.root, 0)
    BY <2>5, <2>6, <2>7, SoundErases
  <2>9. recolor' = Recoloring("erase", w.root, 0)
    BY <2>6, <2>7 DEF Recoloring
  <2>10. QED
    BY <2>7, <2>8, <2>9
<1>17. QED
  BY Zenon, <1>15, <1>16

(* A red node turned black makes up for the missing node above it; at the root    *)
(* it only makes all paths longer.                                            *)
LEMMA Blackened ==
    ASSUME NEW t, NEW P, NEW U, NEW H, NEW p, NEW s, Colored(t, P, U, H, p, s), NEW n \in t.red,
           \/ n = t.root /\ p = 0
           \/ n # t.root /\ p = t.up[n] /\ s = SideIs(t.child, n, p)
    PROVE  /\ \E G : Colored(SetBlack(t, n), P, U, G, 0, "left")
           /\ Recolored(SetBlack(t, n), t, t.red \ {n})
<1>1. /\ TreeOf(t, P, U) /\ t \in Store /\ t.red \subseteq P /\ 0 \notin t.red
      /\ H \in [RbNode -> Nat] /\ H[0] = 0 /\ 0 \notin P /\ P \in SUBSET RbKey
  <2>1. TreeOf(t, P, U) /\ t \in Store /\ t.red \subseteq P /\ H \in [RbNode -> Nat]
    BY DEF Colored, Heights
  <2>2. QED
    BY <2>1, ColoredFacts
<1>2. PICK v : v = SetBlack(t, n)
  OBVIOUS
<1>3. Recolored(v, t, t.red \ {n})
  BY <1>1, <1>2, SetBlackIs
<1>4. v \in Store /\ v.root = t.root /\ v.child = t.child /\ v.up = t.up /\ v.red = t.red \ {n}
  BY <1>3 DEF Recolored
<1>5. n \in P /\ n # 0 /\ n \in RbNode /\ H[n] \in Nat
  BY <1>1, RbNumbers
<1>6. PICK a : a = H[n] + 1 /\ a \in Nat
  BY <1>5
<1>7. PICK G : G = [H EXCEPT ![n] = a]
  OBVIOUS
<1>8. /\ G \in [RbNode -> Nat] /\ G[0] = 0 /\ G[n] = a
      /\ \A x \in RbNode : x # n => G[x] = H[x]
  BY <1>1, <1>5, <1>6, <1>7
<1>9. /\ Black(v.red, n) = 1 /\ Black(t.red, n) = 0
      /\ \A x : x # n => Black(v.red, x) = Black(t.red, x)
  BY <1>4 DEF Black
<1>10. /\ t.up[n] = 0 <=> n = t.root
       /\ t.up[n] # 0 => t.up[n] # n
  BY <1>1, <1>5, ParentFacts DEF TreeOf
<1>11. ASSUME NEW x \in P, NEW u \in Side
       PROVE  G[x] = G[t.child[u][x]] + Missing(x, u, 0, "left") + Black(v.red, x)
  <2>1. PICK y : y = t.child[u][x]
    OBVIOUS
  <2>2. /\ y \in RbNode /\ H[y] \in Nat /\ (y # 0 => t.up[y] = x) /\ y # x /\ x \in RbNode
        /\ H[x] = H[y] + Missing(x, u, p, s) + Black(t.red, x) /\ H[x] \in Nat
    BY <2>1, ColoredFacts
  <2>3. Missing(x, u, 0, "left") = 0
    BY <1>1 DEF Missing
  <2>4. CASE x = n
    <3>1. Missing(x, u, p, s) = 0
      BY <1>5, <1>10, <2>4 DEF Missing
    <3>2. G[y] = H[y] /\ H[x] = H[y] + 0 + 0
      BY <1>8, <1>9, <2>2, <2>4, <3>1
    <3>3. QED
      BY <1>6, <1>8, <1>9, <2>1, <2>2, <2>3, <2>4, <3>2
  <2>5. CASE x # n /\ y = n
    <3>1. x = t.up[n] /\ x # 0
      BY <1>1, <1>5, <2>2, <2>5
    <3>2. p = x /\ s = SideIs(t.child, n, p)
      BY <1>10, <3>1
    <3>3. t.child[Other(SideIs(t.child, n, x))][x] # n /\ SideIs(t.child, n, x) \in Side
      BY <1>1, <1>5, <3>1, ParentFacts DEF TreeOf
    <3>4. u = s
      BY <2>1, <2>5, <3>2, <3>3, Sides
    <3>5. Missing(x, u, p, s) = 1 /\ Black(v.red, x) = Black(t.red, x) /\ Black(t.red, x) \in Nat
      BY <1>9, <2>5, <3>2, <3>4 DEF Missing, Black
    <3>6. G[x] = H[n] + 1 + Black(t.red, x) /\ G[y] = H[n] + 1
      BY <1>6, <1>8, <2>2, <2>5, <3>5
    <3>7. QED
      BY <1>5, <2>1, <2>3, <3>5, <3>6
  <2>6. CASE x # n /\ y # n
    <3>1. Missing(x, u, p, s) = 0
      <4>1. SUFFICES ASSUME x = p, u = s PROVE FALSE
        BY DEF Missing
      <4>2. p # 0
        BY <1>1, <4>1
      <4>3. t.child[SideIs(t.child, n, p)][p] = n /\ s = SideIs(t.child, n, p)
        BY <1>1, <1>5, <4>2, ParentFacts DEF TreeOf
      <4>4. QED
        BY <2>1, <2>6, <4>1, <4>3
    <3>2. G[y] = H[y] /\ G[x] = H[x] /\ Black(v.red, x) = Black(t.red, x)
      BY <1>8, <1>9, <2>2, <2>6
    <3>3. QED
      BY <2>1, <2>2, <2>3, <3>1, <3>2
  <2>7. QED
    BY <2>4, <2>5, <2>6
<1>12. Heights(v.child, v.red, P, G, 0, "left")
  BY <1>4, <1>8, <1>11 DEF Heights
<1>13. TreeOf(v, P, U)
  BY <1>1, <1>4 DEF TreeOf
<1>14. Colored(v, P, U, G, 0, "left")
  BY <1>1, <1>4, <1>12, <1>13 DEF Colored
<1>15. QED
  BY <1>2, <1>3, <1>14

LEMMA UnchangedBlack ==
    ASSUME NEW t \in Store, NEW n, n \notin t.red
    PROVE  SetBlack(t, n) = t
<1>1. t.red \ {n} = t.red
  OBVIOUS
<1>2. t = [t EXCEPT !.red = t.red]
  BY DEF Store
<1>3. QED
  BY <1>1, <1>2 DEF SetBlack

(* The end of __rb_erase_color.                                               *)
LEMMA ErasingEnds ==
    ASSUME NEW t, NEW P, NEW n, NEW p, Erasing(t, P, n, p), n \in t.red \/ n = t.root
    PROVE  Sound(SetBlack(t, n), P)
<1>1. PICK q, s : q = p /\ s = IF p = 0 THEN "left" ELSE SideIs(t.child, n, p)
  OBVIOUS
<1>2. PICK U, H : Colored(t, P, U, H, q, s)
  BY <1>1 DEF Erasing
<1>3. TreeOf(t, P, U) /\ t \in Store /\ t.red \subseteq P /\ 0 \notin t.red /\ 0 \notin P /\ P \in SUBSET RbKey
  <2>1. TreeOf(t, P, U) /\ t \in Store /\ t.red \subseteq P
    BY <1>2 DEF Colored
  <2>2. QED
    BY <1>2, <2>1, ColoredFacts
<1>4. RedsApart(t.up, t.red, n) /\ RootBlack(t.root, t.red, n)
  BY DEF Erasing
<1>5. p = 0 => n = t.root
  BY DEF Erasing
<1>6. p # 0 => p \in P /\ SideIs(t.child, n, p) \in Side /\ n = t.child[SideIs(t.child, n, p)][p]
  BY Sides DEF Erasing, SideIs
<1>7. p # 0 => n # t.root
  <2>1. SUFFICES ASSUME p # 0, n = t.root PROVE FALSE
    OBVIOUS
  <2>2. n # 0 => t.up[n] = p
    BY <1>3, <1>6, <2>1, NodeFacts DEF TreeOf
  <2>3. n # 0 => t.up[n] = 0
    BY <1>3, <2>1 DEF TreeOf, IsTree
  <2>4. t.root = 0 => P = {}
    BY <1>3 DEF TreeOf, IsTree
  <2>5. QED
    BY <1>6, <2>1, <2>2, <2>3, <2>4
<1>8. CASE n \in t.red
  <2>1. p # 0 => t.up[n] = p
    BY <1>3, <1>6, <1>8, NodeFacts DEF TreeOf
  <2>2. \/ n = t.root /\ q = 0
        \/ n # t.root /\ q = t.up[n] /\ s = SideIs(t.child, n, q)
    BY <1>1, <1>5, <1>7, <2>1
  <2>3. /\ \E G : Colored(SetBlack(t, n), P, U, G, 0, "left")
        /\ Recolored(SetBlack(t, n), t, t.red \ {n})
    BY <1>2, <1>8, <2>2, Blackened
  <2>4. PICK v : v = SetBlack(t, n)
    OBVIOUS
  <2>5. v.root = t.root /\ v.up = t.up /\ v.red = t.red \ {n}
    BY <2>3, <2>4 DEF Recolored
  <2>6. Separate(v.up, v.red) /\ v.root \notin v.red
    BY <1>4, <2>5 DEF RedsApart, RootBlack, Separate
  <2>7. Sound(v, P)
    BY <2>3, <2>4, <2>6 DEF Sound
  <2>8. QED
    BY <2>4, <2>7
<1>9. CASE n \notin t.red
  <2>1. n = t.root /\ p = 0 /\ q = 0 /\ s = "left"
    BY <1>1, <1>7, <1>9
  <2>2. Separate(t.up, t.red) /\ t.root \notin t.red
    BY <1>4, <1>9, <2>1 DEF RedsApart, RootBlack, Separate
  <2>3. Sound(t, P)
    BY SMTT(60), <1>2, <2>1, <2>2 DEF Sound
  <2>4. QED
    BY <1>3, <1>9, <2>3, UnchangedBlack
<1>10. QED
  BY <1>8, <1>9

(* What holds at a turn of rb_insert_color at node n.                           *)
InsertingAt(t, P, U, H, n) ==
    /\ Colored(t, P, U, H, 0, "left") /\ n \in t.red
    /\ \A m \in t.red : m # n => t.up[m] \notin t.red
    /\ RootBlack(t.root, t.red, n)

Inserting(t, P, n) == \E U, H : InsertingAt(t, P, U, H, n)

(* Where a red node with a red parent is.                                       *)
UnderRed(t, P, n, p, g) ==
    /\ n \in P /\ p \in P /\ g \in P /\ p # 0 /\ g # 0 /\ n # p /\ p # g /\ n # g
    /\ p # t.root /\ n # t.root /\ t.root \notin t.red /\ g \notin t.red
    /\ SideIs(t.child, p, g) \in Side /\ t.child[SideIs(t.child, p, g)][g] = p
    /\ t.child[Other(SideIs(t.child, p, g))][g] # p
    /\ \E s \in Side : t.child[s][p] = n

LEMMA InsertFacts ==
    ASSUME NEW t, NEW P, NEW U, NEW H, NEW n, InsertingAt(t, P, U, H, n),
           NEW p, p = t.up[n], p \in t.red, NEW g, g = t.up[p]
    PROVE  UnderRed(t, P, n, p, g)
<1>1. /\ Colored(t, P, U, H, 0, "left") /\ n \in t.red
      /\ \A m \in t.red : m # n => t.up[m] \notin t.red
      /\ RootBlack(t.root, t.red, n)
  BY DEF InsertingAt
<1>2. TreeOf(t, P, U) /\ t.red \subseteq P /\ 0 \notin t.red
  <2>1. TreeOf(t, P, U) /\ t.red \subseteq P
    BY <1>1 DEF Colored
  <2>2. QED
    BY <1>1, <2>1, ColoredFacts
<1>3. n \in P /\ p \in P /\ p # 0
  BY <1>1, <1>2
<1>4. n # p /\ n # t.root
  BY <1>2, <1>3, ParentFacts DEF TreeOf
<1>5. n # p /\ n # t.root
  BY <1>4
<1>6. t.root \notin t.red
  BY <1>1, <1>5 DEF RootBlack
<1>7. p # t.root
  BY SMTT(60), <1>6
<1>8. g # 0 /\ g \in P /\ g # p /\ g \notin t.red
      /\ SideIs(t.child, p, g) \in Side /\ t.child[SideIs(t.child, p, g)][g] = p
      /\ t.child[Other(SideIs(t.child, p, g))][g] # p
  <2>1. g # 0
    BY <1>2, <1>3, <1>7, ParentFacts DEF TreeOf
  <2>2. /\ g \in P /\ g # p
        /\ SideIs(t.child, p, g) \in Side /\ t.child[SideIs(t.child, p, g)][g] = p
        /\ t.child[Other(SideIs(t.child, p, g))][g] # p
    BY <1>2, <1>3, <2>1, ParentFacts DEF TreeOf
  <2>3. g \notin t.red
    BY <1>1, <1>5
  <2>4. QED
    BY <2>1, <2>2, <2>3
<1>9. n # g
  BY <1>1, <1>8
<1>10. \E s \in Side : t.child[s][p] = n
  BY <1>2, <1>3, <1>5 DEF TreeOf, IsTree
<1>11. QED
  BY ZenonT(60), <1>3, <1>5, <1>6, <1>7, <1>8, <1>9, <1>10 DEF UnderRed

(* A red uncle and the parent turn black, the grandparent red.                  *)
RedUncleNext(t, u, p, g) == SetRed(SetBlack(SetBlack(t, u), p), g)

RedUncle(t, n, p, g, u) ==
    /\ p = t.up[n] /\ p \in t.red /\ g = t.up[p]
    /\ u = t.child[Other(SideIs(t.child, p, g))][g] /\ u \in t.red

LEMMA RedUncleStep ==
    ASSUME NEW t, NEW P, NEW n, Inserting(t, P, n), NEW p, NEW g, NEW u, RedUncle(t, n, p, g, u)
    PROVE  Inserting(RedUncleNext(t, u, p, g), P, g)
<1>1. PICK U, H : InsertingAt(t, P, U, H, n)
  BY DEF Inserting
<1>2. PICK s, f : s = SideIs(t.child, p, g) /\ f = Other(s)
  BY Zenon
<1>3. /\ n \in P /\ p \in P /\ g \in P /\ p # 0 /\ g # 0 /\ n # p /\ p # g /\ n # g
      /\ p # t.root /\ n # t.root /\ t.root \notin t.red /\ g \notin t.red
      /\ s \in Side /\ t.child[s][g] = p /\ t.child[f][g] # p /\ u = t.child[f][g]
      /\ f \in Side /\ f # s /\ Other(f) = s
      /\ (\A w \in Side : w = s \/ w = f) /\ p \in t.red /\ u \in t.red
  <2>0. p = t.up[n] /\ p \in t.red /\ g = t.up[p] /\ u \in t.red
        /\ u = t.child[Other(SideIs(t.child, p, g))][g]
    BY Zenon DEF RedUncle
  <2>1. /\ n \in P /\ p \in P /\ g \in P /\ p # 0 /\ g # 0 /\ n # p /\ p # g /\ n # g
        /\ p # t.root /\ n # t.root /\ t.root \notin t.red /\ g \notin t.red
        /\ SideIs(t.child, p, g) \in Side /\ t.child[SideIs(t.child, p, g)][g] = p
        /\ t.child[Other(SideIs(t.child, p, g))][g] # p
    <3>1. UnderRed(t, P, n, p, g)
      BY Zenon, <1>1, <2>0, InsertFacts
    <3>2. QED
      BY ZenonT(60), <3>1 DEF UnderRed
  <2>2. QED
    BY ZenonT(60), <1>2, <2>0, <2>1, Sides
<1>4. /\ Colored(t, P, U, H, 0, "left") /\ n \in t.red
      /\ \A m \in t.red : m # n => t.up[m] \notin t.red
  BY <1>1 DEF InsertingAt
<1>5. /\ TreeOf(t, P, U) /\ t \in Store /\ t.red \subseteq P /\ 0 \notin t.red
      /\ H \in [RbNode -> Nat] /\ H[0] = 0 /\ 0 \notin P /\ P \in SUBSET RbKey
  <2>1. TreeOf(t, P, U) /\ t \in Store /\ t.red \subseteq P /\ H \in [RbNode -> Nat]
    BY <1>4 DEF Colored, Heights
  <2>2. QED
    BY <1>4, <2>1, ColoredFacts
<1>6. u \in P /\ u # 0 /\ t.up[u] = g /\ u # g /\ u # p /\ u # t.root
  <2>1. u \in P /\ u # 0
    BY <1>3, <1>5
  <2>2. t.up[u] = g /\ u # g
    BY <1>3, <1>4, <2>1, ColoredFacts
  <2>3. QED
    BY <1>3, <2>1, <2>2
<1>7. PICK v, rd : v = RedUncleNext(t, u, p, g) /\ rd = ((t.red \ {u}) \ {p}) \cup {g}
  OBVIOUS
<1>8. v \in Store /\ v.root = t.root /\ v.child = t.child /\ v.up = t.up /\ v.red = rd
  <2>1. PICK e1 : e1 = SetBlack(t, u)
    OBVIOUS
  <2>2. Recolored(e1, t, t.red \ {u})
    BY <1>5, <2>1, SetBlackIs
  <2>3. PICK e2 : e2 = SetBlack(e1, p)
    OBVIOUS
  <2>4. e1 \in Store /\ g \in RbKey
    BY <1>3, <1>5, <2>2 DEF Recolored
  <2>5. Recolored(e2, e1, e1.red \ {p})
    BY <2>3, <2>4, SetBlackIs
  <2>6. e2 \in Store
    BY <2>5 DEF Recolored
  <2>7. v = SetRed(e2, g)
    BY <1>7, <2>1, <2>3 DEF RedUncleNext
  <2>8. Recolored(v, e2, e2.red \cup {g})
    BY <2>4, <2>6, <2>7, SetRedIs
  <2>9. QED
    BY <1>7, <2>2, <2>5, <2>8 DEF Recolored
<1>9. p \in RbNode /\ u \in RbNode /\ g \in RbNode /\ H[p] \in Nat /\ H[u] \in Nat /\ H[g] \in Nat
  BY <1>3, <1>5, <1>6, RbNumbers
<1>10. PICK a \in Nat, b \in Nat : a = H[p] + 1 /\ b = H[u] + 1
  <2>1. H[p] + 1 \in Nat /\ H[u] + 1 \in Nat
    BY <1>9
  <2>2. QED
    BY <2>1
<1>11. PICK G : G = [H EXCEPT ![p] = a, ![u] = b]
  OBVIOUS
<1>12. /\ G \in [RbNode -> Nat] /\ G[0] = 0 /\ G[p] = a /\ G[u] = b
       /\ \A x \in RbNode : x # p /\ x # u => G[x] = H[x]
  <2>1. p # 0 /\ u # 0 /\ u # p /\ H \in [RbNode -> Nat] /\ H[0] = 0
    BY <1>3, <1>5, <1>6
  <2>2. QED
    BY <1>9, <1>11, <2>1, RbNumbers
<1>13. /\ Black(rd, p) = 1 /\ Black(t.red, p) = 0 /\ Black(rd, u) = 1 /\ Black(t.red, u) = 0
       /\ Black(rd, g) = 0 /\ Black(t.red, g) = 1
       /\ \A x : x # p /\ x # u /\ x # g => Black(rd, x) = Black(t.red, x)
  BY <1>3, <1>6, <1>7 DEF Black
<1>14. ASSUME NEW x \in P, NEW w \in Side
       PROVE  G[x] = G[t.child[w][x]] + Missing(x, w, 0, "left") + Black(rd, x)
  <2>1. PICK y : y = t.child[w][x]
    OBVIOUS
  <2>2. /\ y \in RbNode /\ H[y] \in Nat /\ (y # 0 => t.up[y] = x) /\ y # x /\ x \in RbNode
        /\ H[x] = H[y] + Missing(x, w, 0, "left") + Black(t.red, x) /\ H[x] \in Nat
    BY <1>4, <2>1, ColoredFacts
  <2>3. Missing(x, w, 0, "left") = 0
    BY <1>5 DEF Missing
  <2>4. CASE x = g
    <3>1. y = p \/ y = u
      BY <1>3, <2>1, <2>4
    <3>2. G[y] = H[y] + 1 /\ G[x] = H[x]
      BY <1>3, <1>6, <1>10, <1>12, <2>2, <2>4, <3>1
    <3>3. H[x] = H[y] + 0 + 1
      BY <1>13, <2>2, <2>3, <2>4
    <3>4. Black(rd, x) = 0
      BY <1>13, <2>4
    <3>5. QED
      BY <2>1, <2>2, <2>3, <3>2, <3>3, <3>4
  <2>5. CASE x # g
    <3>1. y # p /\ y # u
      <4>1. t.up[p] = g
        BY DEF RedUncle
      <4>2. QED
        BY <1>3, <1>6, <2>2, <2>5, <4>1
    <3>2. G[y] = H[y]
      BY <1>12, <2>2, <3>1
    <3>3. CASE x = p \/ x = u
      <4>1. G[x] = H[x] + 1 /\ Black(rd, x) = 1 /\ Black(t.red, x) = 0
        BY <1>10, <1>12, <1>13, <3>3
      <4>2. QED
        BY <2>1, <2>2, <2>3, <3>2, <4>1
    <3>4. CASE x # p /\ x # u
      <4>1. G[x] = H[x] /\ Black(rd, x) = Black(t.red, x)
        BY <1>12, <1>13, <2>2, <2>5, <3>4
      <4>2. QED
        BY <2>1, <2>2, <2>3, <3>2, <4>1
    <3>5. QED
      BY <3>3, <3>4
  <2>6. QED
    BY <2>4, <2>5
<1>15. Heights(v.child, v.red, P, G, 0, "left")
  BY <1>8, <1>12, <1>14 DEF Heights
<1>16. TreeOf(v, P, U)
  BY <1>5, <1>8 DEF TreeOf
<1>17. Colored(v, P, U, G, 0, "left")
  BY <1>3, <1>5, <1>7, <1>8, <1>15, <1>16 DEF Colored
<1>18. ASSUME NEW m \in rd, m # g PROVE t.up[m] \notin rd
  <2>1. m \in t.red /\ m # p /\ m # u /\ m \in P /\ m # t.root
    BY <1>3, <1>5, <1>7, <1>18
  <2>2. t.up[m] # g
    <3>1. SUFFICES ASSUME t.up[m] = g PROVE FALSE
      OBVIOUS
    <3>2. \E w \in Side : t.child[w][g] = m
      BY <1>5, <2>1, <3>1 DEF TreeOf, IsTree
    <3>3. QED
      BY <1>3, <2>1, <3>2
  <2>3. CASE m = n
    <3>1. t.up[n] = p
      BY DEF RedUncle
    <3>2. QED
      BY <1>3, <1>7, <2>3, <3>1
  <2>4. CASE m # n
    BY <1>4, <1>7, <2>1, <2>2, <2>4
  <2>5. QED
    BY <2>3, <2>4
<1>19. RootBlack(v.root, v.red, g)
  BY <1>3, <1>7, <1>8 DEF RootBlack
<1>20. g \in rd
  BY <1>7
<1>21. InsertingAt(v, P, U, G, g)
  BY SMTT(60), <1>8, <1>17, <1>18, <1>19, <1>20 DEF InsertingAt
<1>22. QED
  BY <1>7, <1>21 DEF Inserting

(* Of a black uncle and an outer node, the parent takes the grandparent's place.  *)
LEMMA OuterStep ==
    ASSUME NEW t, NEW P, NEW n, Inserting(t, P, n), NEW p, p = t.up[n], p \in t.red,
           NEW g, g = t.up[p], NEW s, s = SideIs(t.child, p, g),
           t.child[Other(s)][g] \notin t.red, t.child[Other(s)][p] # n
    PROVE  Inserting(SwapNext(t, g, p, Other(s)), P, n)
<1>1. PICK U, H : InsertingAt(t, P, U, H, n)
  BY DEF Inserting
<1>2. PICK f : f = Other(s)
  BY SMTT(60)
<1>3. /\ n \in P /\ p \in P /\ g \in P /\ p # 0 /\ g # 0 /\ n # p /\ p # g /\ n # g
      /\ p # t.root /\ n # t.root /\ t.root \notin t.red /\ g \notin t.red
      /\ s \in Side /\ t.child[s][g] = p /\ t.child[f][g] # p
      /\ f \in Side /\ f # s /\ Other(f) = s
  <2>1. /\ n \in P /\ p \in P /\ g \in P /\ p # 0 /\ g # 0 /\ n # p /\ p # g /\ n # g
        /\ p # t.root /\ n # t.root /\ t.root \notin t.red /\ g \notin t.red
        /\ SideIs(t.child, p, g) \in Side /\ t.child[SideIs(t.child, p, g)][g] = p
        /\ t.child[Other(SideIs(t.child, p, g))][g] # p
    <3>1. UnderRed(t, P, n, p, g)
      BY Zenon, <1>1, InsertFacts
    <3>2. QED
      BY ZenonT(60), <3>1 DEF UnderRed
  <2>2. QED
    BY ZenonT(60), <1>2, <2>1, Sides
<1>4. /\ Colored(t, P, U, H, 0, "left") /\ n \in t.red
      /\ \A m \in t.red : m # n => t.up[m] \notin t.red
  BY SMTT(60), <1>1 DEF InsertingAt
<1>5. 0 \notin t.red
  BY ZenonT(60), <1>4, ColoredFacts
<1>6. t.child[f][p] \notin t.red
  <2>1. t.child[f][p] # 0 => t.up[t.child[f][p]] = p
    <3>1. ChildIs(t, P, H, p, f, 0, "left", t.child[f][p])
      BY ZenonT(60), <1>3, <1>4, ColoredChild
    <3>2. QED
      BY ZenonT(60), <3>1 DEF ChildIs
  <2>2. t.child[f][p] # n
    BY <1>2
  <2>3. QED
    BY SMTT(60), <1>4, <1>5, <2>1, <2>2
<1>7. \A m \in t.red : t.up[m] \in t.red => t.up[m] = p
  BY SMTT(60), <1>4
<1>8. Swapped(SwapNext(t, g, p, f), t, P, 0, "left", g, f, p)
  <2>1. p = t.child[Other(f)][g] /\ t.child[f][g] \notin t.red /\ 0 # p /\ (0 = g => "left" = f)
    BY ZenonT(60), <1>2, <1>3
  <2>2. QED
    BY ZenonT(60), <1>3, <1>4, <1>6, <1>7, <2>1, SwapTurn
<1>9. PICK v : v = SwapNext(t, g, p, f)
  BY SMTT(60)
<1>10. PICK V, G : Colored(v, P, V, G, 0, "left")
  BY ZenonT(60), <1>8, <1>9 DEF Swapped
<1>11. v.root \notin v.red /\ Separate(v.up, v.red) /\ v.red = (t.red \ {p}) \cup {g}
  BY ZenonT(60), <1>8, <1>9 DEF Swapped
<1>12. n \in v.red
  BY ZenonT(60), <1>3, <1>4, <1>11
<1>13. InsertingAt(v, P, V, G, n)
  BY ZenonT(60), <1>10, <1>11, <1>12 DEF InsertingAt, Separate, RootBlack
<1>14. QED
  BY ZenonT(60), <1>2, <1>9, <1>13 DEF Inserting

(* A rotation of a red parent and its red child leaves all heights.              *)
RedTurned(v, t, P, H, p, s, n) ==
    /\ \E V : Colored(v, P, V, H, 0, "left")
    /\ IsTurn(v, t, p, s, n, t.child[s][n], t.up[p]) /\ v.red = t.red

LEMMA RedTurn ==
    ASSUME NEW t, NEW P, NEW U, NEW H, Colored(t, P, U, H, 0, "left"), NEW p \in P, NEW s \in Side,
           NEW n, n = t.child[Other(s)][p], p \in t.red, n \in t.red
    PROVE  RedTurned(Rotate(t, p, s), t, P, H, p, s, n)
<1>1. PICK f, i, b, d, g : /\ f = Other(s) /\ i = t.child[s][n] /\ b = t.child[s][p]
                           /\ d = t.child[f][n] /\ g = t.up[p]
  OBVIOUS
<1>2. /\ TreeOf(t, P, U) /\ t \in Store /\ t.red \subseteq P /\ 0 \notin t.red
      /\ H \in [RbNode -> Nat] /\ H[0] = 0 /\ 0 \notin P /\ P \in SUBSET RbKey
  <2>1. TreeOf(t, P, U) /\ t \in Store /\ t.red \subseteq P /\ H \in [RbNode -> Nat]
    BY DEF Colored, Heights
  <2>2. QED
    BY <2>1, ColoredFacts
<1>3. n \in P /\ n # 0 /\ f \in Side
  BY <1>1, <1>2, Sides
<1>4. PICK v : v = Rotate(t, p, s)
  OBVIOUS
<1>5. IsTurn(v, t, p, s, n, i, g) /\ v.red = t.red
  <2>1. /\ IsTurn(Rotate(t, p, s), t, p, s, t.child[Other(s)][p],
                  t.child[s][t.child[Other(s)][p]], t.up[p])
        /\ Rotate(t, p, s).red = t.red
    BY <1>2, <1>3, RotateIs
  <2>2. QED
    BY <1>1, <1>4, <2>1
<1>6. PICK V : TreeOf(v, P, V)
  <2>1. TreeOf(v, P, Turned(U, p, n, i, b))
    <3>1. TurnAt(t, p, s, n, i, g, b, d)
      BY <1>1, <1>3 DEF TurnAt
    <3>2. QED
      BY <1>2, <1>5, <3>1, RotateTree
  <2>2. QED
    BY <2>1
<1>7. /\ Black(t.red, n) = 0 /\ Black(t.red, p) = 0
      /\ \A x \in P : \A u \in Side : Missing(x, u, 0, "left") = 0
  BY <1>2 DEF Black, Missing
<1>8. /\ H[p] = H[n] + Missing(p, f, 0, "left") + Black(t.red, p)
      /\ H[p] = H[b] + Missing(p, s, 0, "left") + Black(t.red, p)
      /\ H[n] \in Nat /\ H[b] \in Nat
  BY SMTT(60), <1>1, <1>3, ColoredFacts
<1>9. /\ H[n] = H[i] + Missing(n, s, 0, "left") + Black(t.red, n)
      /\ H[n] = H[d] + Missing(n, f, 0, "left") + Black(t.red, n)
      /\ H[i] \in Nat /\ H[d] \in Nat
  BY <1>1, <1>3, ColoredFacts
<1>10. /\ Missing(p, f, 0, "left") = 0 /\ Missing(p, s, 0, "left") = 0
       /\ Missing(n, s, 0, "left") = 0 /\ Missing(n, f, 0, "left") = 0
  BY <1>3, <1>7
<1>11. H[n] = H[i] /\ H[n] = H[d] /\ H[p] = H[n] /\ H[p] = H[b]
  BY <1>7, <1>8, <1>9, <1>10
<1>12. \A x \in P : \A u \in Side : x # p /\ x # n =>
          H[x] = H[IF t.child[u][x] = p THEN n ELSE t.child[u][x]]
                 + Missing(x, u, 0, "left") + Black(t.red, x)
  <2>1. SUFFICES ASSUME NEW x \in P, NEW u \in Side
                 PROVE  H[x] = H[IF t.child[u][x] = p THEN n ELSE t.child[u][x]]
                               + Missing(x, u, 0, "left") + Black(t.red, x)
    OBVIOUS
  <2>2. H[x] = H[t.child[u][x]] + Missing(x, u, 0, "left") + Black(t.red, x)
    BY ColoredFacts
  <2>3. H[IF t.child[u][x] = p THEN n ELSE t.child[u][x]] = H[t.child[u][x]]
    BY <1>11
  <2>4. QED
    BY <2>2, <2>3
<1>13. /\ H[p] = H[i] + Missing(p, Other(s), 0, "left") + Black(t.red, p)
       /\ H[p] = H[b] + Missing(p, s, 0, "left") + Black(t.red, p)
       /\ H[n] = H[p] + Missing(n, s, 0, "left") + Black(t.red, n)
       /\ H[n] = H[d] + Missing(n, Other(s), 0, "left") + Black(t.red, n)
  <2>1. Missing(p, Other(s), 0, "left") = 0 /\ Missing(n, Other(s), 0, "left") = 0
    BY <1>1, <1>10
  <2>2. QED
    BY <1>7, <1>8, <1>9, <1>10, <1>11, <2>1
<1>14. Heights(v.child, t.red, P, H, 0, "left")
  <2>1. d = t.child[Other(s)][n]
    BY <1>1
  <2>2. TurnAt(t, p, s, n, i, g, b, d)
    BY SMTT(60), <1>1, <1>3, <2>1 DEF TurnAt
  <2>3. Turning(t, P, H, t.red, 0, "left", p, s, n, i, b, d)
    BY <1>2, <1>12, <1>13 DEF Turning
  <2>4. QED
    BY <1>2, <1>5, <2>2, <2>3, TurnHeights
<1>15. Colored(v, P, V, H, 0, "left")
  <2>1. v \in Store
    BY <1>5 DEF IsTurn
  <2>2. QED
    BY <1>2, <1>5, <1>6, <1>14, <2>1 DEF Colored
<1>16. QED
  BY <1>1, <1>4, <1>5, <1>15 DEF RedTurned

(* Of an inner node: it takes the place of its parent, which is the outer node.   *)
InnerOf(t, n, p, g, s) ==
    p = t.up[n] /\ p \in t.red /\ g = t.up[p] /\ s = SideIs(t.child, p, g) /\ t.child[Other(s)][p] = n

LEMMA InnerStep ==
    ASSUME NEW t, NEW P, NEW n, Inserting(t, P, n), NEW p, NEW g, NEW s, InnerOf(t, n, p, g, s)
    PROVE  /\ Inserting(Rotate(t, p, s), P, p)
           /\ Rotate(t, p, s).red = t.red /\ Rotate(t, p, s).up[p] = n
           /\ Rotate(t, p, s).up[n] = g /\ SideIs(Rotate(t, p, s).child, n, g) = s
           /\ Rotate(t, p, s).child[Other(s)][g] = t.child[Other(s)][g]
           /\ Rotate(t, p, s).child[Other(s)][n] # p
<1>1. PICK U, H : InsertingAt(t, P, U, H, n)
  BY DEF Inserting
<1>2. PICK f : f = Other(s)
  BY SMTT(60)
<1>3. /\ n \in P /\ p \in P /\ g \in P /\ p # 0 /\ g # 0 /\ n # p /\ p # g /\ n # g
      /\ p # t.root /\ n # t.root /\ t.root \notin t.red /\ g \notin t.red
      /\ s \in Side /\ t.child[s][g] = p /\ t.child[f][g] # p
      /\ f \in Side /\ f # s /\ Other(f) = s /\ n = t.child[f][p]
      /\ \A w \in Side : w = s \/ w = f
      /\ p \in t.red /\ s = SideIs(t.child, p, g)
  <2>0. p = t.up[n] /\ p \in t.red /\ g = t.up[p] /\ s = SideIs(t.child, p, g) /\ t.child[Other(s)][p] = n
    BY SMTT(60) DEF InnerOf
  <2>1. /\ n \in P /\ p \in P /\ g \in P /\ p # 0 /\ g # 0 /\ n # p /\ p # g /\ n # g
        /\ p # t.root /\ n # t.root /\ t.root \notin t.red /\ g \notin t.red
        /\ SideIs(t.child, p, g) \in Side /\ t.child[SideIs(t.child, p, g)][g] = p
        /\ t.child[Other(SideIs(t.child, p, g))][g] # p
    <3>1. UnderRed(t, P, n, p, g)
      BY Zenon, <1>1, <2>0, InsertFacts
    <3>2. QED
      BY ZenonT(60), <3>1 DEF UnderRed
  <2>2. QED
    BY ZenonT(60), <1>2, <2>0, <2>1, Sides
<1>4. /\ Colored(t, P, U, H, 0, "left") /\ n \in t.red
      /\ \A m \in t.red : m # n => t.up[m] \notin t.red
  BY <1>1 DEF InsertingAt
<1>5. /\ TreeOf(t, P, U) /\ t \in Store /\ t.red \subseteq P /\ 0 \notin t.red
      /\ H \in [RbNode -> Nat] /\ H[0] = 0 /\ 0 \notin P /\ P \in SUBSET RbKey
  <2>1. TreeOf(t, P, U) /\ t \in Store /\ t.red \subseteq P /\ H \in [RbNode -> Nat]
    BY <1>4 DEF Colored, Heights
  <2>2. QED
    BY <1>4, <2>1, ColoredFacts
<1>6. PICK i, d, e : i = t.child[s][n] /\ d = t.child[f][n] /\ e = t.child[f][g]
  OBVIOUS
<1>7. /\ i \in RbNode /\ i # n /\ i # p /\ (i # 0 => i \in P /\ i # g /\ t.up[i] = n)
      /\ d \in RbNode /\ d # n /\ (d # 0 => t.up[d] = n) /\ (e # 0 => t.up[e] = g)
  <2>1. /\ i \in RbNode /\ i # n /\ (i # 0 => i \in P /\ t.up[i] = n)
        /\ d \in RbNode /\ d # n /\ (d # 0 => t.up[d] = n)
    BY <1>3, <1>5, <1>6, ChildFacts DEF TreeOf
  <2>2. i # p /\ (i # 0 => i # g)
    <3>1. g = t.up[p] /\ n = t.child[Other(s)][p] /\ n # 0
      BY Zenon, <1>3, <1>4, <1>5 DEF InnerOf
    <3>2. LET c == t.child[Other(s)][p] j == t.child[s][c] h == t.up[p] IN
             j # p /\ (j # 0 => j # h)
      <4>1. IsTree(t.root, t.child, t.up, P, U) /\ t.child[Other(s)][p] # 0
        BY Zenon, <1>5, <3>1 DEF TreeOf
      <4>2. p \in P /\ s \in Side
        BY Zenon, <1>3
      <4>3. QED
        BY <4>1, <4>2, Apart4
    <3>3. QED
      BY Zenon, <1>6, <3>1, <3>2
  <2>3. e # 0 => t.up[e] = g
    BY <1>3, <1>5, <1>6, ChildFacts DEF TreeOf
  <2>4. QED
    BY <2>1, <2>2, <2>3
<1>8. PICK v : v = Rotate(t, p, s)
  OBVIOUS
<1>9. RedTurned(v, t, P, H, p, s, n)
  <2>1. n = t.child[Other(s)][p]
    BY <1>2, <1>3
  <2>2. RedTurned(Rotate(t, p, s), t, P, H, p, s, n)
    BY <1>3, <1>4, <2>1, RedTurn
  <2>3. QED
    BY <1>8, <2>2
<1>10. PICK V : Colored(v, P, V, H, 0, "left")
  BY SMTT(60), <1>9 DEF RedTurned
<1>11. IsTurn(v, t, p, s, n, i, g) /\ v.red = t.red
  BY ZenonT(60), <1>6, <1>9 DEF RedTurned, InnerOf
<1>12. p \in RbKey /\ n \in RbKey /\ g \in RbKey
  BY <1>3, <1>5
<1>13. SideIs(t.child, p, g) = s
  BY <1>3
<1>14. v.up[p] = n /\ v.up[n] = g
  BY <1>3, <1>11, <1>12 DEF IsTurn
<1>15. v.child[f][g] = t.child[f][g] /\ v.child[s][g] = n /\ v.child[f][n] = d
  <2>1. \A w \in Side : \A x \in RbKey :
           v.child[w][x] = IF x = p /\ w = f THEN i ELSE IF x = n /\ w = s THEN p
                           ELSE IF x = g /\ w = SideIs(t.child, p, x) THEN n ELSE t.child[w][x]
    BY <1>2, <1>11 DEF IsTurn
  <2>2. v.child[f][g] = t.child[f][g] /\ v.child[s][g] = n
    BY <1>3, <1>12, <1>13, <2>1
  <2>3. v.child[f][n] = t.child[f][n]
    BY <1>3, <1>12, <2>1
  <2>4. QED
    BY <1>6, <2>2, <2>3
<1>16. d # p /\ e # n
  BY Zenon, <1>3, <1>5, <1>7 DEF InnerOf
<1>17. SideIs(v.child, n, g) = s
  BY <1>3, <1>6, <1>15, <1>16, Sides DEF SideIs
<1>18. v.root \notin v.red
  BY <1>3, <1>11 DEF IsTurn
<1>19. ASSUME NEW m \in v.red, m # p PROVE v.up[m] \notin v.red
  <2>1. m \in t.red /\ m \in RbKey
    BY <1>5, <1>11, <1>19
  <2>2. m # i
    BY <1>3, <1>4, <1>5, <1>7, <2>1
  <2>3. CASE m = n
    BY <1>3, <1>11, <1>14, <2>3
  <2>4. CASE m # n
    <3>1. v.up[m] = t.up[m]
      BY <1>11, <1>19, <2>1, <2>2, <2>4 DEF IsTurn
    <3>2. QED
      BY <1>3, <1>4, <1>11, <2>1, <2>4, <3>1
  <2>5. QED
    BY <2>3, <2>4
<1>20. InsertingAt(v, P, V, H, p)
  BY <1>3, <1>10, <1>11, <1>18, <1>19 DEF InsertingAt, RootBlack
<1>21. Inserting(v, P, p)
  BY <1>20 DEF Inserting
<1>22. QED
  BY <1>2, <1>8, <1>11, <1>14, <1>15, <1>16, <1>17, <1>21

(* A turn of rb_insert_color.                                                  *)
JustLinked(n) == [op |-> "insert", node |-> n]

LEMMA RedUncleIs ==
    ASSUME NEW P, NEW n, recolor = JustLinked(n), Inserting(tree, P, n), tree.up[n] \in tree.red,
           UncleIsRed(n)
    PROVE  \E m : recolor' = JustLinked(m) /\ Inserting(tree', P, m)
<1> DEFINE p == tree.up[n]
           g == tree.up[p]
           u == tree.child[Other(SideOf(tree, p, g))][g]
<1>1. /\ u \in tree.red
      /\ tree' = SetRed(SetBlack(SetBlack(tree, u), p), g)
      /\ recolor' = [recolor EXCEPT !.node = g]
  BY ZenonT(60) DEF UncleIsRed
<1>2. p = tree.up[n] /\ g = tree.up[p] /\ p \in tree.red
  OBVIOUS
<1>3. u = tree.child[Other(SideIs(tree.child, p, g))][g]
  BY DEF SideOf, SideIs
<1> HIDE DEF p, g, u
<1>4. Inserting(RedUncleNext(tree, u, p, g), P, g)
  <2>1. RedUncle(tree, n, p, g, u)
    BY ZenonT(60), <1>1, <1>2, <1>3 DEF RedUncle
  <2>2. QED
    BY ZenonT(60), <2>1, RedUncleStep
<1>5. tree' = RedUncleNext(tree, u, p, g)
  BY <1>1 DEF RedUncleNext
<1>6. recolor' = JustLinked(g)
  BY <1>1 DEF JustLinked
<1>7. QED
  BY SMTT(60), <1>4, <1>5, <1>6

LEMMA BlackUncleIs ==
    ASSUME NEW P, NEW n, recolor = JustLinked(n), Inserting(tree, P, n), tree.up[n] \in tree.red,
           UncleIsBlack(n)
    PROVE  \E m : recolor' = JustLinked(m) /\ Inserting(tree', P, m)
<1> DEFINE p == tree.up[n]
           g == tree.up[p]
           s == SideOf(tree, p, g)
           inner == tree.child[Other(s)][p] = n
           t == IF inner THEN Rotate(tree, p, s) ELSE tree
           top == IF inner THEN n ELSE p
           low == IF inner THEN p ELSE n
<1>1. /\ tree.child[Other(s)][g] \notin tree.red
      /\ tree' = Rotate(SetRed(SetBlack(t, top), g), g, Other(s))
      /\ recolor' = [recolor EXCEPT !.node = low]
  BY ZenonT(60) DEF UncleIsBlack
<1>2. p = tree.up[n] /\ g = tree.up[p] /\ p \in tree.red
  OBVIOUS
<1>3. s = SideIs(tree.child, p, g)
  BY SMTT(60) DEF SideOf, SideIs
<1>4. /\ inner <=> tree.child[Other(s)][p] = n
      /\ inner => t = Rotate(tree, p, s) /\ top = n /\ low = p
      /\ ~inner => t = tree /\ top = p /\ low = n
  BY ZenonT(60)
<1> HIDE DEF p, g, s, inner, t, top, low
<1>5. tree' = SwapNext(t, g, top, Other(s)) /\ recolor' = JustLinked(low)
  BY <1>1 DEF SwapNext, JustLinked
<1>6. CASE ~inner
  <2>1. Inserting(SwapNext(tree, g, p, Other(s)), P, n)
    BY ZenonT(60), <1>1, <1>2, <1>3, <1>4, <1>6, OuterStep
  <2>2. QED
    BY SMTT(60), <1>4, <1>5, <1>6, <2>1
<1>7. CASE inner
  <2>1. InnerOf(tree, n, p, g, s)
    BY <1>2, <1>3, <1>4, <1>7 DEF InnerOf
  <2>2. /\ Inserting(t, P, p) /\ t.red = tree.red /\ t.up[p] = n
        /\ t.up[n] = g /\ SideIs(t.child, n, g) = s
        /\ t.child[Other(s)][g] = tree.child[Other(s)][g] /\ t.child[Other(s)][n] # p
    BY <1>4, <1>7, <2>1, InnerStep
  <2>3. n \in t.red
    BY <2>2 DEF Inserting, InsertingAt
  <2>4. t.child[Other(s)][g] \notin t.red
    BY <1>1, <2>2
  <2>5. Inserting(SwapNext(t, g, n, Other(s)), P, p)
    BY <2>2, <2>3, <2>4, OuterStep
  <2>6. QED
    BY SMTT(60), <1>4, <1>5, <1>7, <2>5
<1>8. QED
  BY ZenonT(60), <1>6, <1>7

LEMMA InsertColorIs ==
    ASSUME NEW P, NEW n, recolor = JustLinked(n), Inserting(tree, P, n), InsertColor
    PROVE  \E m : recolor' = JustLinked(m) /\ Inserting(tree', P, m)
<1>1. recolor.node = n
  BY DEF JustLinked
<1>2. tree.up[n] \in tree.red /\ (UncleIsRed(n) \/ UncleIsBlack(n))
  BY <1>1 DEF InsertColor
<1>3. QED
  BY <1>2, RedUncleIs, BlackUncleIs

(* The end of rb_insert_color.                                                *)
LEMMA InsertingEnds ==
    ASSUME NEW t, NEW P, NEW n, Inserting(t, P, n), t.up[n] \notin t.red
    PROVE  Sound(SetBlack(t, t.root), P)
<1>1. PICK U, H : InsertingAt(t, P, U, H, n)
  BY DEF Inserting
<1>2. /\ Colored(t, P, U, H, 0, "left") /\ n \in t.red
      /\ \A m \in t.red : m # n => t.up[m] \notin t.red
  BY <1>1 DEF InsertingAt
<1>3. Separate(t.up, t.red)
  BY <1>2 DEF Separate
<1>4. t \in Store
  BY <1>2 DEF Colored
<1>5. CASE t.root \in t.red
  <2>1. PICK v : v = SetBlack(t, t.root)
    OBVIOUS
  <2>2. /\ \E G : Colored(SetBlack(t, t.root), P, U, G, 0, "left")
        /\ Recolored(SetBlack(t, t.root), t, t.red \ {t.root})
    BY <1>2, <1>5, Blackened
  <2>3. v.root = t.root /\ v.up = t.up /\ v.red = t.red \ {t.root}
    BY <2>1, <2>2 DEF Recolored
  <2>4. Separate(v.up, v.red) /\ v.root \notin v.red
    BY <1>3, <2>3 DEF Separate
  <2>5. Sound(v, P)
    BY <2>1, <2>2, <2>4 DEF Sound
  <2>6. QED
    BY <2>1, <2>5
<1>6. CASE t.root \notin t.red
  <2>1. Sound(t, P)
    BY <1>2, <1>3, <1>6 DEF Sound
  <2>2. QED
    BY <1>4, <1>6, <2>1, UnchangedBlack
<1>7. QED
  BY <1>5, <1>6

-----------------------------------------------------------------------------
(* v is t after k has been linked below p, or as the root.                      *)
IsLink(v, t, k, p, s) ==
    /\ v \in Store /\ v.red = t.red \cup {k}
    /\ v.root = IF p = 0 THEN k ELSE t.root
    /\ \A u \in Side : \A x \in RbKey :
          v.child[u][x] = IF x = p /\ u = s THEN k ELSE t.child[u][x]
    /\ \A x \in RbKey : v.up[x] = IF x = k THEN p ELSE t.up[x]

(* The place of a new key: below p, or at the root of an empty tree.             *)
LeafOf(t, P, U, k, p, s) ==
    IF t.root = 0 THEN p = 0
    ELSE /\ p \in P /\ s \in Side /\ t.child[s][p] = 0 /\ OnSide(s, k, p)
         /\ Guides(t.child, P, U, k, p)

LEMMA LinkTree ==
    ASSUME NEW t, NEW P, NEW U, TreeOf(t, P, U), NEW k \in RbKey, k \notin P,
           NEW p, NEW s, LeafOf(t, P, U, k, p, s), NEW v, IsLink(v, t, k, p, s)
    PROVE  \E V : TreeOf(v, P \cup {k}, V)
<1>1. IsTree(t.root, t.child, t.up, P, U)
  BY DEF TreeOf
<1>2. /\ t.root \in RbNode /\ P \in SUBSET RbKey /\ 0 \notin P /\ U \in [RbNode -> SUBSET P]
      /\ U[0] = {} /\ U[t.root] = P /\ (t.root # 0 => t.root \in P /\ t.up[t.root] = 0)
      /\ \A n \in RbKey \ P : \A u \in Side : t.child[u][n] = 0
  BY <1>1, RbNumbers DEF IsTree
<1>3. t.root = 0 => P = {} /\ p = 0
  BY <1>2 DEF LeafOf
<1>4. t.root # 0 => /\ p \in P /\ p # 0 /\ s \in Side /\ t.child[s][p] = 0 /\ OnSide(s, k, p)
                    /\ Guides(t.child, P, U, k, p)
  BY <1>2 DEF LeafOf
<1>5. p \in RbNode /\ k \in RbNode /\ k # 0 /\ p # k /\ (p = 0 <=> t.root = 0)
  BY <1>2, <1>3, <1>4, RbNumbers
<1>6. PICK Q : Q = P \cup {k}
  OBVIOUS
<1>7. PICK V : V = [m \in RbNode |-> IF m = k THEN {k} ELSE IF p \in U[m] THEN U[m] \cup {k} ELSE U[m]]
  OBVIOUS
<1>8. /\ v \in Store /\ v.red = t.red \cup {k}
      /\ v.root = IF p = 0 THEN k ELSE t.root
      /\ \A u \in Side : \A x \in RbKey :
            v.child[u][x] = IF x = p /\ u = s THEN k ELSE t.child[u][x]
      /\ \A x \in RbKey : v.up[x] = IF x = k THEN p ELSE t.up[x]
  BY DEF IsLink
<1>9. /\ v.root \in RbNode /\ v.child \in [Side -> [RbKey -> RbNode]] /\ v.up \in [RbKey -> RbNode]
  BY <1>8 DEF Store
<1>10. Q \in SUBSET RbKey /\ V \in [RbNode -> SUBSET Q] /\ V[0] = {} /\ V[k] = {k}
       /\ \A m \in RbNode : m # k => V[m] = IF p \in U[m] THEN U[m] \cup {k} ELSE U[m]
  <2>1. Q \in SUBSET RbKey
    BY <1>2, <1>6
  <2>2. ASSUME NEW m \in RbNode
        PROVE  (IF m = k THEN {k} ELSE IF p \in U[m] THEN U[m] \cup {k} ELSE U[m]) \in SUBSET Q
    <3>1. U[m] \in SUBSET P
      BY <1>2
    <3>2. QED
      BY <1>6, <3>1
  <2>3. V \in [RbNode -> SUBSET Q]
    BY <1>7, <2>2
  <2>4. \A m \in RbNode : V[m] = IF m = k THEN {k} ELSE IF p \in U[m] THEN U[m] \cup {k} ELSE U[m]
    BY <1>7
  <2>5. 0 \in RbNode /\ 0 # k /\ U[0] = {}
    BY <1>2, <1>5, RbNumbers
  <2>6. V[0] = {}
    BY <2>4, <2>5
  <2>7. V[k] = {k}
    BY <1>5, <2>4
  <2>8. QED
    BY <2>1, <2>3, <2>4, <2>6, <2>7
<1>11. V[v.root] = Q
  <2>1. CASE p = 0
    BY <1>3, <1>5, <1>6, <1>8, <1>10, <2>1
  <2>2. CASE p # 0
    <3>1. t.root # k /\ p \in U[t.root]
      BY <1>2, <1>4, <1>5, <2>2
    <3>2. QED
      BY <1>2, <1>6, <1>8, <1>10, <2>2, <3>1
  <2>3. QED
    BY <2>1, <2>2
<1>12. v.root # 0 => v.root \in Q /\ v.up[v.root] = 0
  <2>1. CASE p = 0
    BY <1>5, <1>6, <1>8, <2>1
  <2>2. CASE p # 0
    <3>1. t.root \in P /\ t.root # k /\ t.root \in RbKey /\ t.up[t.root] = 0
      BY <1>2, <1>5, <2>2
    <3>2. QED
      BY <1>6, <1>8, <2>2, <3>1
  <2>3. QED
    BY <2>1, <2>2
<1>13. ASSUME NEW n \in P, NEW u \in Side
       PROVE  /\ Hangs(v.child, v.up, Q, V, u, n)
              /\ V[v.child[u][n]] = IF n = p /\ u = s THEN {k}
                                    ELSE IF p \in U[t.child[u][n]] THEN U[t.child[u][n]] \cup {k}
                                    ELSE U[t.child[u][n]]
  <2>1. PICK c : c = t.child[u][n]
    OBVIOUS
  <2>2. /\ n \in RbKey /\ n # k /\ c \in RbNode /\ c # k
        /\ c # 0 => c \in P /\ c \in RbKey /\ t.up[c] = n
        /\ \A x \in U[c] : x \in RbKey /\ OnSide(u, x, n)
    <3>1. /\ n \in RbKey /\ c \in RbNode
          /\ c # 0 => c \in P /\ t.up[c] = n
          /\ \A x \in U[c] : x \in RbKey /\ OnSide(u, x, n)
      BY <1>1, <2>1, NodeFacts
    <3>2. QED
      BY <1>2, <1>5, <3>1
  <2>3. CASE n = p /\ u = s
    <3>1. v.child[u][n] = k
      BY <1>8, <2>2, <2>3
    <3>2. v.up[k] = n /\ k \in Q
      BY <1>6, <1>8, <2>3
    <3>3. OnSide(u, k, n)
      BY SMTT(60), <1>2, <1>4, <2>3
    <3>4. QED
      BY <1>10, <2>3, <3>1, <3>2, <3>3 DEF Hangs
  <2>4. CASE ~(n = p /\ u = s)
    <3>1. v.child[u][n] = c
      BY <1>8, <2>1, <2>2, <2>4
    <3>2. c # 0 => c \in Q /\ v.up[c] = n
      BY <1>6, <1>8, <2>2
    <3>3. V[c] = IF p \in U[c] THEN U[c] \cup {k} ELSE U[c]
      BY <1>10, <2>2
    <3>4. p \in U[c] => OnSide(u, k, n)
      <4>1. SUFFICES ASSUME p \in U[c] PROVE OnSide(u, k, n)
        OBVIOUS
      <4>2. p # 0
        BY <2>2, <4>1, RbNumbers
      <4>3. Guides(t.child, P, U, k, p)
        BY <1>4, <1>5, <4>2
      <4>4. QED
        BY <2>1, <4>1, <4>3 DEF Guides
    <3>5. \A x \in V[c] : OnSide(u, x, n)
      BY <2>2, <3>3, <3>4
    <3>6. QED
      BY <2>1, <2>4, <3>1, <3>2, <3>3, <3>5 DEF Hangs
  <2>5. QED
    BY <2>3, <2>4
<1>14. ASSUME NEW u \in Side
       PROVE  v.child[u][k] = 0 /\ Hangs(v.child, v.up, Q, V, u, k)
  <2>1. v.child[u][k] = 0
    BY <1>2, <1>5, <1>8
  <2>2. QED
    BY <1>10, <2>1 DEF Hangs
<1>15. ASSUME NEW n \in Q, NEW u \in Side PROVE Hangs(v.child, v.up, Q, V, u, n)
  BY <1>6, <1>13, <1>14, <1>15
<1>16. ASSUME NEW n \in Q PROVE V[n] = V[v.child["left"][n]] \cup {n} \cup V[v.child["right"][n]]
  <2>1. CASE n = k
    <3>1. v.child["left"][n] = 0 /\ v.child["right"][n] = 0
      BY <1>14, <2>1, Sides
    <3>2. QED
      BY <1>10, <2>1, <3>1
  <2>2. CASE n # k
    <3>1. n \in P /\ n \in RbNode
      BY <1>2, <1>6, <1>16, <2>2, RbNumbers
    <3>2. PICK l, r : l = "left" /\ r = "right" /\ l \in Side /\ r \in Side /\ l # r
                      /\ \A u \in Side : u = l \/ u = r
      BY Sides
    <3>3. PICK A, B : A = U[t.child[l][n]] /\ B = U[t.child[r][n]]
      OBVIOUS
    <3>4. U[n] = A \cup {n} \cup B
      BY <1>1, <3>1, <3>2, <3>3 DEF IsTree
    <3>5. V[n] = IF p \in U[n] THEN U[n] \cup {k} ELSE U[n]
      BY <1>10, <2>2, <3>1
    <3>6. /\ V[v.child[l][n]] = IF n = p /\ l = s THEN {k} ELSE IF p \in A THEN A \cup {k} ELSE A
          /\ V[v.child[r][n]] = IF n = p /\ r = s THEN {k} ELSE IF p \in B THEN B \cup {k} ELSE B
      BY <1>13, <3>1, <3>2, <3>3
    <3>7. V[n] = V[v.child[l][n]] \cup {n} \cup V[v.child[r][n]]
      <4>1. CASE n = p
        <5>1. s \in Side /\ t.child[s][n] = 0
          BY <1>2, <1>4, <1>5, <3>1, <4>1
        <5>2. n \notin A /\ n \notin B
          BY <1>1, <3>1, <3>2, <3>3, NodeFacts
        <5>3. s = l => A = {}
          BY <1>2, <3>3, <5>1
        <5>4. s = r => B = {}
          BY <1>2, <3>3, <5>1
        <5>5. QED
          BY <3>2, <3>4, <3>5, <3>6, <4>1, <5>1, <5>2, <5>3, <5>4
      <4>2. CASE n # p
        BY <3>4, <3>5, <3>6, <4>2
      <4>3. QED
        BY <4>1, <4>2
    <3>8. QED
      BY <3>2, <3>7
  <2>3. QED
    BY <2>1, <2>2
<1>17. ASSUME NEW n \in Q
       PROVE  n = v.root \/ (v.up[n] \in Q /\ \E u \in Side : v.child[u][v.up[n]] = n)
  <2>1. CASE n = k
    <3>1. CASE p = 0
      BY <1>8, <2>1, <3>1
    <3>2. CASE p # 0
      <4>1. p \in P /\ s \in Side /\ p \in RbKey
        BY <1>2, <1>4, <1>5, <3>2
      <4>2. v.up[k] = p /\ v.child[s][p] = k
        BY <1>8, <4>1
      <4>3. QED
        BY <1>6, <2>1, <4>1, <4>2
    <3>3. QED
      BY <3>1, <3>2
  <2>2. CASE n # k
    <3>1. n \in P /\ n \in RbKey /\ n # 0
      BY <1>2, <1>6, <1>17, <2>2
    <3>2. v.up[n] = t.up[n] /\ v.root = t.root
      BY <1>2, <1>3, <1>5, <1>8, <2>2, <3>1
    <3>3. CASE n = t.root
      BY <3>2, <3>3
    <3>4. CASE n # t.root
      <4>1. PICK u \in Side : t.child[u][t.up[n]] = n /\ t.up[n] \in P
        BY <1>1, <3>1, <3>4 DEF IsTree
      <4>2. t.up[n] \in RbKey /\ ~(t.up[n] = p /\ u = s)
        BY <1>2, <1>4, <1>5, <3>1, <4>1
      <4>3. v.child[u][t.up[n]] = n
        BY <1>8, <4>1, <4>2
      <4>4. QED
        BY <1>6, <3>2, <4>1, <4>3
    <3>5. QED
      BY <3>3, <3>4
  <2>3. QED
    BY <2>1, <2>2
<1>18. ASSUME NEW n \in RbKey \ Q, NEW u \in Side PROVE v.child[u][n] = 0
  <2>1. n # p /\ n \notin P
    BY <1>3, <1>4, <1>5, <1>6, RbNumbers
  <2>2. QED
    BY <1>2, <1>8, <2>1
<1>19. IsTree(v.root, v.child, v.up, Q, V)
  BY <1>9, <1>10, <1>11, <1>12, <1>15, <1>16, <1>17, <1>18 DEF IsTree
<1>20. QED
  BY <1>6, <1>19 DEF TreeOf

(* A red node without children changes no height.                              *)
LEMMA LinkStep ==
    ASSUME NEW t, NEW P, NEW U, NEW H, Colored(t, P, U, H, 0, "left"), Separate(t.up, t.red),
           t.root \notin t.red, NEW k \in RbKey, k \notin P,
           NEW p, NEW s, LeafOf(t, P, U, k, p, s), NEW v, IsLink(v, t, k, p, s)
    PROVE  Inserting(v, P \cup {k}, k)
<1>1. /\ TreeOf(t, P, U) /\ t \in Store /\ t.red \subseteq P /\ 0 \notin t.red
      /\ H \in [RbNode -> Nat] /\ H[0] = 0 /\ 0 \notin P /\ P \in SUBSET RbKey
      /\ Heights(t.child, t.red, P, H, 0, "left")
  <2>1. TreeOf(t, P, U) /\ t \in Store /\ t.red \subseteq P /\ H \in [RbNode -> Nat]
        /\ Heights(t.child, t.red, P, H, 0, "left")
    BY DEF Colored, Heights
  <2>2. QED
    BY <2>1, ColoredFacts
<1>2. PICK Q : Q = P \cup {k}
  OBVIOUS
<1>3. PICK V : TreeOf(v, Q, V)
  BY <1>1, <1>2, LinkTree
<1>4. /\ v \in Store /\ v.red = t.red \cup {k}
      /\ v.root = IF p = 0 THEN k ELSE t.root
      /\ \A u \in Side : \A x \in RbKey :
            v.child[u][x] = IF x = p /\ u = s THEN k ELSE t.child[u][x]
      /\ \A x \in RbKey : v.up[x] = IF x = k THEN p ELSE t.up[x]
  BY DEF IsLink
<1>5. k \in RbNode /\ k # 0
  BY RbNumbers
<1>6. /\ t.root = 0 => p = 0 /\ P = {}
      /\ t.root # 0 => p \in P /\ p # 0 /\ s \in Side /\ t.child[s][p] = 0 /\ t.root \in P
  BY <1>1 DEF LeafOf, TreeOf, IsTree
<1>7. PICK G : G = [H EXCEPT ![k] = 0]
  OBVIOUS
<1>8. /\ G \in [RbNode -> Nat] /\ G[0] = 0 /\ G[k] = 0
      /\ \A x \in RbNode : x # k => G[x] = H[x]
  BY <1>1, <1>5, <1>7
<1>9. Black(v.red, k) = 0 /\ \A x : x # k => Black(v.red, x) = Black(t.red, x)
  BY <1>4 DEF Black
<1>10. ASSUME NEW x \in Q, NEW u \in Side
       PROVE  G[x] = G[v.child[u][x]] + Missing(x, u, 0, "left") + Black(v.red, x)
  <2>1. Missing(x, u, 0, "left") = 0
    BY <1>1, <1>2, <1>5 DEF Missing
  <2>2. CASE x = k
    <3>1. t.child[u][k] = 0 /\ k # p
      <4>1. \A n \in RbKey \ P : \A w \in Side : t.child[w][n] = 0
        BY <1>1 DEF TreeOf, IsTree
      <4>2. QED
        BY <1>5, <1>6, <4>1
    <3>2. v.child[u][x] = 0
      BY <1>4, <2>2, <3>1
    <3>3. QED
      BY <1>8, <1>9, <2>1, <2>2, <3>2
  <2>3. CASE x # k
    <3>1. PICK y : y = t.child[u][x]
      OBVIOUS
    <3>2. /\ x \in P /\ x \in RbKey /\ x \in RbNode /\ y \in RbNode /\ y # k
          /\ H[x] = H[y] + Missing(x, u, 0, "left") + Black(t.red, x) /\ H[x] \in Nat
      <4>1. x \in P
        BY <1>2, <2>3
      <4>2. y # 0 => y \in P
        BY <3>1, <4>1, ColoredFacts
      <4>3. /\ x \in RbKey /\ x \in RbNode /\ y \in RbNode
            /\ H[x] = H[y] + Missing(x, u, 0, "left") + Black(t.red, x) /\ H[x] \in Nat
        BY <3>1, <4>1, ColoredFacts
      <4>4. QED
        BY <1>5, <4>1, <4>2, <4>3
    <3>3. G[v.child[u][x]] = H[y]
      <4>1. CASE x = p /\ u = s
        <5>1. v.child[u][x] = k /\ y = 0
          BY <1>1, <1>4, <1>6, <3>1, <3>2, <4>1
        <5>2. QED
          BY <1>1, <1>8, <5>1
      <4>2. CASE ~(x = p /\ u = s)
        <5>1. v.child[u][x] = y
          BY <1>4, <3>1, <3>2, <4>2
        <5>2. QED
          BY <1>8, <3>2, <5>1
      <4>3. QED
        BY <4>1, <4>2
    <3>4. G[x] = H[x] /\ Black(v.red, x) = Black(t.red, x)
      BY <1>8, <1>9, <2>3, <3>2
    <3>5. QED
      BY <3>2, <3>3, <3>4
  <2>4. QED
    BY <2>2, <2>3
<1>11. Heights(v.child, v.red, Q, G, 0, "left")
  BY <1>8, <1>10 DEF Heights
<1>12. Colored(v, Q, V, G, 0, "left")
  BY <1>1, <1>2, <1>3, <1>4, <1>11 DEF Colored
<1>13. ASSUME NEW m \in v.red, m # k PROVE v.up[m] \notin v.red
  <2>1. m \in t.red /\ m \in P /\ m \in RbKey
    BY <1>1, <1>4, <1>13
  <2>2. v.up[m] = t.up[m] /\ t.up[m] \notin t.red
    BY <1>4, <1>13, <2>1 DEF Separate
  <2>3. t.up[m] = 0 \/ t.up[m] \in P
    BY <1>1, <2>1, ParentFacts DEF TreeOf
  <2>4. QED
    BY <1>4, <1>5, <2>2, <2>3
<1>14. RootBlack(v.root, v.red, k)
  BY <1>4 DEF RootBlack
<1>15. InsertingAt(v, Q, V, G, k)
  BY <1>4, <1>12, <1>13, <1>14 DEF InsertingAt
<1>16. QED
  BY <1>2, <1>15 DEF Inserting

(* __rbtree_map_insert links the key where its search ended.                     *)
LinkNext(t, k, p) ==
    LET w == SetRed(SetUp(t, k, p), k)
    IN  IF p = 0 THEN [w EXCEPT !.root = k] ELSE SetChild(w, p, Toward(k, p), k)

LEMMA LinkIs ==
    ASSUME NEW t \in Store, NEW k \in RbKey, NEW p \in RbNode, p # k
    PROVE  IsLink(LinkNext(t, k, p), t, k, p, Toward(k, p))
<1>1. k \in RbNode /\ k # 0
  BY RbNumbers
<1>2. PICK a : a = SetUp(t, k, p)
  OBVIOUS
<1>3. IsSetUp(a, t, k, p)
  BY <1>1, <1>2, SetUpIs
<1>4. PICK w : w = SetRed(a, k)
  OBVIOUS
<1>5. a \in Store
  BY <1>3 DEF IsSetUp
<1>6. Recolored(w, a, a.red \cup {k})
  BY <1>4, <1>5, SetRedIs
<1>7. /\ w \in Store /\ w.root = t.root /\ w.child = t.child /\ w.red = t.red \cup {k}
      /\ \A x \in RbKey : w.up[x] = IF x = k THEN p ELSE t.up[x]
  BY <1>3, <1>6 DEF IsSetUp, Recolored
<1>8. PICK v : v = LinkNext(t, k, p)
  OBVIOUS
<1>9. CASE p = 0
  <2>1. v = [w EXCEPT !.root = k]
    BY <1>2, <1>4, <1>8, <1>9 DEF LinkNext
  <2>2. v \in Store /\ v.root = k /\ v.child = w.child /\ v.up = w.up /\ v.red = w.red
    BY <1>1, <1>7, <2>1 DEF Store
  <2>3. \A x \in RbKey : x # p
    BY <1>9, RbNumbers
  <2>4. IsLink(v, t, k, p, Toward(k, p))
    BY <1>7, <1>9, <2>2, <2>3 DEF IsLink
  <2>5. QED
    BY <1>8, <2>4
<1>10. CASE p # 0
  <2>1. p \in RbKey
    BY <1>10, RbNumbers
  <2>2. v = SetChild(w, p, Toward(k, p), k)
    BY <1>2, <1>4, <1>8, <1>10 DEF LinkNext
  <2>3. Toward(k, p) \in Side
    BY <2>1, TowardSide
  <2>4. IsSetChild(v, w, p, Toward(k, p), k)
    BY <1>1, <1>7, <2>1, <2>2, <2>3, SetChildIs
  <2>5. IsLink(v, t, k, p, Toward(k, p))
    BY <1>7, <1>10, <2>4 DEF IsLink, IsSetChild
  <2>6. QED
    BY <1>8, <2>5
<1>11. QED
  BY <1>9, <1>10

LEMMA RbInsertIs ==
    ASSUME Sound(tree, present), NEW k \in RbKey, RbInsert(k)
    PROVE  recolor' = JustLinked(k) /\ Inserting(tree', present \cup {k}, k)
<1>1. PICK U, H : Colored(tree, present, U, H, 0, "left")
  BY DEF Sound
<1>2. Separate(tree.up, tree.red) /\ tree.root \notin tree.red
  BY DEF Sound
<1>3. TreeOf(tree, present, U) /\ tree \in Store
  BY <1>1 DEF Colored
<1>4. /\ Find(k) # k
      /\ tree' = LinkNext(tree, k, ParentFor(k))
      /\ recolor' = JustLinked(k)
  BY DEF RbInsert, LinkNext, JustLinked
<1>5. k \notin present
  BY <1>3, <1>4, PathIs
<1>6. PICK p : p = ParentFor(k)
  OBVIOUS
<1>7. IF tree.root = 0 THEN p = 0
      ELSE p \in present /\ tree.child[Toward(k, p)][p] = 0 /\ Guides(tree.child, present, U, k, p)
  BY <1>3, <1>5, <1>6, ParentIs
<1>8. present \in SUBSET RbKey
  BY <1>1, ColoredFacts
<1>9. p \in RbNode /\ p # k
  BY <1>5, <1>7, <1>8, RbNumbers
<1>10. LeafOf(tree, present, U, k, p, Toward(k, p))
  <2>1. tree.root # 0 => p \in RbKey /\ p # k
    BY <1>7, <1>8, <1>9
  <2>2. tree.root # 0 => Toward(k, p) \in Side /\ OnSide(Toward(k, p), k, p)
    BY <2>1, TowardSide
  <2>3. QED
    BY <1>7, <2>2 DEF LeafOf
<1>11. PICK v : v = LinkNext(tree, k, p)
  OBVIOUS
<1>12. IsLink(v, tree, k, p, Toward(k, p))
  BY <1>3, <1>9, <1>11, LinkIs
<1>13. Inserting(v, present \cup {k}, k)
  BY <1>1, <1>2, <1>5, <1>10, <1>12, LinkStep
<1>14. QED
  BY <1>4, <1>6, <1>11, <1>13

-----------------------------------------------------------------------------
(* v is t without m, whose place its child c has taken.                        *)
IsSplice(v, t, m, c, q, d) ==
    /\ v \in Store /\ v.red = t.red \ {m}
    /\ v.root = IF q = 0 THEN c ELSE t.root
    /\ \A u \in Side : \A x \in RbKey :
          v.child[u][x] = IF x = m THEN 0 ELSE IF x = q /\ u = d THEN c ELSE t.child[u][x]
    /\ \A x \in RbKey : v.up[x] = IF x = m THEN 0 ELSE IF x = c THEN q ELSE t.up[x]

Spliced(t, m, c) == Freed(SetUp(Relink(t, m, c), c, t.up[m]), m)

LEMMA SplicedIs ==
    ASSUME NEW t \in Store, NEW m \in RbKey, NEW c \in RbNode, c # m
    PROVE  IsSplice(Spliced(t, m, c), t, m, c, t.up[m], SideIs(t.child, m, t.up[m]))
<1>1. PICK q, d : q = t.up[m] /\ d = SideIs(t.child, m, q)
  OBVIOUS
<1>2. q \in RbNode
  BY <1>1 DEF Store
<1>3. PICK a : a = Relink(t, m, c)
  OBVIOUS
<1>4. IsRelink(a, t, m, c)
  BY ZenonT(60), <1>3, RelinkIs
<1>5. /\ a \in Store /\ a.up = t.up /\ a.red = t.red
      /\ a.root = IF q = 0 THEN c ELSE t.root
      /\ \A u \in Side : \A x \in RbKey :
            a.child[u][x] = IF x = q /\ u = d THEN c ELSE t.child[u][x]
  BY <1>1, <1>4 DEF IsRelink
<1>6. PICK b : b = SetUp(a, c, q)
  OBVIOUS
<1>7. IsSetUp(b, a, c, q)
  BY <1>2, <1>5, <1>6, SetUpIs
<1>8. PICK v : v = Freed(b, m)
  OBVIOUS
<1>9. b \in Store
  BY <1>7 DEF IsSetUp
<1>10. IsFreed(v, b, m)
  BY <1>8, <1>9, FreedIs
<1>11. v = Spliced(t, m, c)
  BY <1>1, <1>3, <1>6, <1>8 DEF Spliced
<1>12. IsSplice(v, t, m, c, q, d)
  BY <1>5, <1>7, <1>10 DEF IsSetUp, IsFreed, IsSplice
<1>13. QED
  BY <1>1, <1>11, <1>12

Cut(U, m) == [x \in RbNode |-> U[x] \ {m}]

(* The place of a node with at most one child.                                 *)
EdgeOf(t, m, c, q, d) ==
    /\ \E s \in Side : t.child[s][m] = 0 /\ t.child[Other(s)][m] = c
    /\ q = t.up[m] /\ d = SideIs(t.child, m, q)

LEMMA EdgeFacts ==
    ASSUME NEW t, NEW P, NEW U, TreeOf(t, P, U), NEW m \in P, NEW c, NEW q, NEW d, EdgeOf(t, m, c, q, d)
    PROVE  /\ m \in RbKey /\ m # 0 /\ c \in RbNode /\ c # m /\ U[m] = {m} \cup U[c] /\ m \notin U[c]
           /\ c # 0 => c \in P /\ t.up[c] = m /\ c # t.root /\ c # q
           /\ \A u \in Side : t.child[u][m] \in {0, c}
           /\ q = 0 <=> m = t.root
           /\ q # 0 => q \in P /\ q \in RbKey /\ q # m /\ d \in Side /\ t.child[d][q] = m
                       /\ t.child[Other(d)][q] # m
<1>1. IsTree(t.root, t.child, t.up, P, U)
  BY DEF TreeOf
<1>2. P \in SUBSET RbKey /\ U[0] = {} /\ (t.root # 0 => t.up[t.root] = 0)
  BY <1>1 DEF IsTree
<1>3. m \in RbKey /\ m # 0
  BY <1>2, RbNumbers
<1>4. PICK s, o : s \in Side /\ o = Other(s) /\ o \in Side /\ t.child[s][m] = 0 /\ t.child[o][m] = c
                  /\ \A u \in Side : u = s \/ u = o
  BY Sides DEF EdgeOf
<1>5. c \in RbNode /\ c # m /\ (c # 0 => c \in P /\ t.up[c] = m) /\ m \notin U[c]
  BY <1>1, <1>4, NodeFacts
<1>6. U[m] = {m} \cup U[c]
  <2>1. U[m] = U[t.child[s][m]] \cup {m} \cup U[t.child[o][m]]
    BY <1>1, <1>4, NodeFacts
  <2>2. QED
    BY <1>2, <1>4, <2>1
<1>7. /\ q = 0 <=> m = t.root
      /\ q # 0 => q \in P /\ q # m /\ q \notin U[m] /\ d \in Side /\ t.child[d][q] = m
                  /\ t.child[Other(d)][q] # m
  BY <1>1, ParentFacts DEF EdgeOf
<1>8. c # 0 => c \in U[m]
  <2>1. c # 0 => c \in U[c]
    BY <1>1, <1>5, NodeFacts
  <2>2. QED
    BY <1>6, <2>1
<1>9. c # 0 => c # q /\ c # t.root
  <2>1. c # 0 => c # q
    BY <1>7, <1>8
  <2>2. c # 0 => c # t.root
    BY <1>2, <1>3, <1>5
  <2>3. QED
    BY <2>1, <2>2
<1>10. \A u \in Side : t.child[u][m] \in {0, c}
  BY <1>4
<1>11. QED
  BY <1>2, <1>3, <1>5, <1>6, <1>7, <1>9, <1>10

LEMMA SpliceTree ==
    ASSUME NEW t, NEW P, NEW U, TreeOf(t, P, U), NEW m \in P, NEW c, NEW q, NEW d,
           EdgeOf(t, m, c, q, d), NEW v, IsSplice(v, t, m, c, q, d)
    PROVE  TreeOf(v, P \ {m}, Cut(U, m))
<1>1. IsTree(t.root, t.child, t.up, P, U)
  BY DEF TreeOf
<1>2. /\ t.root \in RbNode /\ P \in SUBSET RbKey /\ 0 \notin P /\ U \in [RbNode -> SUBSET P]
      /\ U[0] = {} /\ U[t.root] = P /\ (t.root # 0 => t.root \in P /\ t.up[t.root] = 0)
      /\ \A n \in RbKey \ P : \A u \in Side : t.child[u][n] = 0
  BY <1>1, RbNumbers DEF IsTree
<1>3. /\ m \in RbKey /\ m # 0 /\ c \in RbNode /\ c # m /\ U[m] = {m} \cup U[c] /\ m \notin U[c]
      /\ c # 0 => c \in P /\ t.up[c] = m /\ c # t.root /\ c # q
      /\ \A u \in Side : t.child[u][m] \in {0, c}
      /\ q = 0 <=> m = t.root
      /\ q # 0 => q \in P /\ q \in RbKey /\ q # m /\ d \in Side /\ t.child[d][q] = m
                  /\ t.child[Other(d)][q] # m
  BY EdgeFacts
<1>4. /\ v \in Store /\ v.red = t.red \ {m}
      /\ v.root = IF q = 0 THEN c ELSE t.root
      /\ \A u \in Side : \A x \in RbKey :
            v.child[u][x] = IF x = m THEN 0 ELSE IF x = q /\ u = d THEN c ELSE t.child[u][x]
      /\ \A x \in RbKey : v.up[x] = IF x = m THEN 0 ELSE IF x = c THEN q ELSE t.up[x]
  BY DEF IsSplice
<1>5. PICK Q, V : Q = P \ {m} /\ V = Cut(U, m)
  OBVIOUS
<1>6. v.root \in RbNode /\ v.child \in [Side -> [RbKey -> RbNode]] /\ v.up \in [RbKey -> RbNode]
  BY <1>4 DEF Store
<1>7. /\ Q \in SUBSET RbKey /\ V \in [RbNode -> SUBSET Q] /\ V[0] = {}
      /\ \A x \in RbNode : V[x] = U[x] \ {m}
  <2>1. \A x \in RbNode : U[x] \ {m} \in SUBSET Q
    BY <1>2, <1>5
  <2>2. QED
    BY <1>2, <1>5, <2>1, RbNumbers DEF Cut
<1>8. V[c] = U[c] /\ V[m] = U[c] /\ m \in RbNode
  <2>1. m \in RbNode
    BY <1>3, RbNumbers
  <2>2. V[c] = U[c] \ {m} /\ V[m] = U[m] \ {m}
    BY <1>3, <1>7, <2>1
  <2>3. QED
    BY <1>3, <2>1, <2>2
<1>9. V[v.root] = Q
  <2>1. CASE q = 0
    <3>1. P = {m} \cup U[c]
      BY <1>2, <1>3, <2>1
    <3>2. QED
      BY <1>3, <1>4, <1>5, <1>8, <2>1, <3>1
  <2>2. CASE q # 0
    BY <1>2, <1>4, <1>5, <1>7, <2>2
  <2>3. QED
    BY <2>1, <2>2
<1>10. v.root # 0 => v.root \in Q /\ v.up[v.root] = 0
  <2>1. CASE q = 0
    <3>1. c # 0 => c \in Q /\ c \in RbKey
      BY <1>2, <1>3, <1>5
    <3>2. QED
      BY <1>3, <1>4, <2>1, <3>1
  <2>2. CASE q # 0
    <3>1. t.root # 0 => t.root \in Q /\ t.root \in RbKey /\ t.root # m
      BY <1>2, <1>3, <1>5, <2>2
    <3>2. t.root # 0 => v.up[t.root] = 0
      BY <1>2, <1>3, <1>4, <3>1
    <3>3. QED
      BY <1>4, <2>2, <3>1, <3>2
  <2>3. QED
    BY <2>1, <2>2
<1>11. ASSUME NEW n \in Q, NEW u \in Side
       PROVE  Hangs(v.child, v.up, Q, V, u, n) /\ V[v.child[u][n]] = V[t.child[u][n]]
  <2>1. PICK e : e = t.child[u][n]
    OBVIOUS
  <2>2. /\ n \in P /\ n \in RbKey /\ n # m /\ e \in RbNode
        /\ e # 0 => e \in P /\ e \in RbKey /\ t.up[e] = n
        /\ \A x \in U[e] : OnSide(u, x, n)
    <3>1. n \in P /\ n # m
      BY <1>5
    <3>2. /\ n \in RbKey /\ e \in RbNode /\ (e # 0 => e \in P /\ t.up[e] = n)
          /\ \A x \in U[e] : OnSide(u, x, n)
      BY <1>1, <2>1, <3>1, NodeFacts
    <3>3. QED
      BY <1>2, <3>1, <3>2
  <2>3. CASE n = q /\ u = d
    <3>1. e = m /\ v.child[u][n] = c
      BY <1>3, <1>4, <2>1, <2>2, <2>3, RbNumbers
    <3>2. c # 0 => c \in Q /\ c \in RbKey /\ v.up[c] = n
      BY <1>2, <1>3, <1>4, <1>5, <2>3
    <3>3. \A x \in V[c] : OnSide(u, x, n)
      BY <1>3, <1>8, <2>2, <3>1
    <3>4. V[c] = V[e]
      BY <1>8, <3>1
    <3>5. QED
      BY <2>1, <3>1, <3>2, <3>3, <3>4 DEF Hangs
  <2>4. CASE ~(n = q /\ u = d)
    <3>1. e # m
      <4>1. SUFFICES ASSUME e = m PROVE FALSE
        OBVIOUS
      <4>2. n = q /\ q # 0
        BY <1>3, <2>2, <4>1, RbNumbers DEF EdgeOf
      <4>3. u = d \/ u = Other(d)
        BY <1>3, <4>2, Sides
      <4>4. QED
        BY <1>3, <2>1, <2>4, <4>1, <4>2, <4>3
    <3>2. v.child[u][n] = e
      BY <1>4, <2>1, <2>2, <2>4
    <3>3. e # 0 => e # c
      BY <1>3, <2>2
    <3>4. e # 0 => e \in Q /\ v.up[e] = n
      BY <1>4, <1>5, <2>2, <3>1, <3>3
    <3>5. \A x \in V[e] : OnSide(u, x, n)
      BY <1>7, <2>2
    <3>6. QED
      BY <2>1, <3>2, <3>4, <3>5 DEF Hangs
  <2>5. QED
    BY <2>3, <2>4
<1>12. ASSUME NEW n \in Q PROVE V[n] = V[v.child["left"][n]] \cup {n} \cup V[v.child["right"][n]]
  <2>1. PICK l, r : l = "left" /\ r = "right" /\ l \in Side /\ r \in Side
    BY Sides
  <2>2. V[v.child[l][n]] = V[t.child[l][n]] /\ V[v.child[r][n]] = V[t.child[r][n]]
    BY <1>11, <2>1
  <2>3. /\ n \in P /\ n # m /\ n \in RbNode /\ t.child[l][n] \in RbNode /\ t.child[r][n] \in RbNode
    BY <1>1, <1>2, <1>5, <2>1, NodeFacts, RbNumbers
  <2>4. U[n] = U[t.child[l][n]] \cup {n} \cup U[t.child[r][n]]
    BY <1>1, <2>1, <2>3 DEF IsTree
  <2>5. /\ V[n] = U[n] \ {m} /\ V[t.child[l][n]] = U[t.child[l][n]] \ {m}
        /\ V[t.child[r][n]] = U[t.child[r][n]] \ {m}
    BY <1>7, <2>3
  <2>6. V[n] = V[t.child[l][n]] \cup {n} \cup V[t.child[r][n]]
    BY <2>3, <2>4, <2>5
  <2>7. QED
    BY <2>1, <2>2, <2>6
<1>13. ASSUME NEW n \in Q
       PROVE  n = v.root \/ (v.up[n] \in Q /\ \E u \in Side : v.child[u][v.up[n]] = n)
  <2>1. n \in P /\ n # m /\ n \in RbKey /\ n # 0
    BY <1>2, <1>5
  <2>2. CASE n = c
    <3>1. CASE q = 0
      BY <1>4, <2>2, <3>1
    <3>2. CASE q # 0
      <4>1. v.up[n] = q /\ q \in Q
        BY <1>3, <1>4, <1>5, <2>1, <2>2, <3>2
      <4>2. v.child[d][q] = c
        BY <1>3, <1>4, <3>2
      <4>3. QED
        BY <1>3, <2>2, <3>2, <4>1, <4>2
    <3>3. QED
      BY <3>1, <3>2
  <2>3. CASE n # c /\ n = t.root
    BY <1>3, <1>4, <2>1, <2>3
  <2>4. CASE n # c /\ n # t.root
    <3>1. PICK u \in Side : t.child[u][t.up[n]] = n /\ t.up[n] \in P
      BY <1>1, <2>1, <2>4 DEF IsTree
    <3>2. t.up[n] # m
      BY <1>3, <2>1, <2>4, <3>1
    <3>3. v.up[n] = t.up[n] /\ t.up[n] \in Q /\ t.up[n] \in RbKey
      BY <1>2, <1>4, <1>5, <2>1, <2>4, <3>1, <3>2
    <3>4. ~(t.up[n] = q /\ u = d)
      BY <1>3, <2>1, <3>1, <1>2
    <3>5. v.child[u][t.up[n]] = n
      BY <1>4, <3>1, <3>2, <3>3, <3>4
    <3>6. QED
      BY <3>3, <3>5
  <2>5. QED
    BY <2>2, <2>3, <2>4
<1>14. ASSUME NEW n \in RbKey \ Q, NEW u \in Side PROVE v.child[u][n] = 0
  <2>1. n = m \/ n \notin P
    BY <1>5
  <2>2. n \notin P => n # q
    BY <1>2, <1>3, RbNumbers
  <2>3. QED
    BY <1>2, <1>4, <2>1, <2>2
<1>15. IsTree(v.root, v.child, v.up, Q, V)
  BY <1>6, <1>7, <1>9, <1>10, <1>11, <1>12, <1>13, <1>14 DEF IsTree
<1>16. QED
  BY <1>5, <1>15 DEF TreeOf

(* The heights, when a black node may be missing above its child.                *)
Lacks(v, Q, c, q, d) ==
    /\ \E V, H : Colored(v, Q, V, H, q, d)
    /\ RedsApart(v.up, v.red, c) /\ RootBlack(v.root, v.red, c)
    /\ IF q = 0 THEN c = v.root ELSE q \in Q /\ d \in Side /\ v.child[d][q] = c

LEMMA SpliceStep ==
    ASSUME NEW t, NEW P, Sound(t, P), NEW m \in P, NEW c, NEW q, NEW d,
           EdgeOf(t, m, c, q, d), NEW v, IsSplice(v, t, m, c, q, d)
    PROVE  IF m \in t.red THEN Sound(v, P \ {m}) ELSE Lacks(v, P \ {m}, c, q, d)
<1>1. PICK U, H : Colored(t, P, U, H, 0, "left")
  BY DEF Sound
<1>2. Separate(t.up, t.red) /\ t.root \notin t.red
  BY DEF Sound
<1>3. /\ TreeOf(t, P, U) /\ t \in Store /\ t.red \subseteq P /\ 0 \notin t.red
      /\ H \in [RbNode -> Nat] /\ H[0] = 0 /\ 0 \notin P /\ P \in SUBSET RbKey
  <2>1. TreeOf(t, P, U) /\ t \in Store /\ t.red \subseteq P /\ H \in [RbNode -> Nat]
    BY <1>1 DEF Colored, Heights
  <2>2. QED
    BY <1>1, <2>1, ColoredFacts
<1>4. /\ m \in RbKey /\ m # 0 /\ c \in RbNode /\ c # m
      /\ c # 0 => c \in P /\ t.up[c] = m /\ c # t.root /\ c # q
      /\ \A u \in Side : t.child[u][m] \in {0, c}
      /\ q = 0 <=> m = t.root
      /\ q # 0 => q \in P /\ q \in RbKey /\ q # m /\ d \in Side /\ t.child[d][q] = m
                  /\ t.child[Other(d)][q] # m
  BY <1>3, EdgeFacts
<1>5. /\ v \in Store /\ v.red = t.red \ {m}
      /\ v.root = IF q = 0 THEN c ELSE t.root
      /\ \A u \in Side : \A x \in RbKey :
            v.child[u][x] = IF x = m THEN 0 ELSE IF x = q /\ u = d THEN c ELSE t.child[u][x]
      /\ \A x \in RbKey : v.up[x] = IF x = m THEN 0 ELSE IF x = c THEN q ELSE t.up[x]
  BY DEF IsSplice
<1>6. PICK Q, V : Q = P \ {m} /\ TreeOf(v, Q, V)
  <2>1. TreeOf(v, P \ {m}, Cut(U, m))
    BY <1>3, SpliceTree
  <2>2. QED
    BY <2>1
<1>7. PICK r : r = IF m \in t.red THEN 0 ELSE q
  OBVIOUS
<1>8. /\ \A x \in P : \A u \in Side : H[x] = H[t.child[u][x]] + Black(t.red, x) /\ H[x] \in Nat
      /\ \A x \in P : \A u \in Side : H[t.child[u][x]] \in Nat
  <2>1. SUFFICES ASSUME NEW x \in P, NEW u \in Side
                 PROVE  /\ H[x] = H[t.child[u][x]] + Black(t.red, x) /\ H[x] \in Nat
                        /\ H[t.child[u][x]] \in Nat
    OBVIOUS
  <2>2. /\ H[x] = H[t.child[u][x]] + Missing(x, u, 0, "left") + Black(t.red, x) /\ H[x] \in Nat
        /\ H[t.child[u][x]] \in Nat
    BY <1>1, ColoredFacts
  <2>3. Missing(x, u, 0, "left") = 0
    BY <1>3 DEF Missing
  <2>4. Black(t.red, x) \in Nat
    BY DEF Black
  <2>5. QED
    BY <2>2, <2>3, <2>4
<1>9. H[m] = H[c] + Black(t.red, m) /\ H[c] \in Nat
  <2>1. \E u \in Side : t.child[u][m] = c
    BY Sides DEF EdgeOf
  <2>2. QED
    BY <1>8, <2>1
<1>10. ASSUME NEW x \in Q, NEW u \in Side
       PROVE  H[x] = H[v.child[u][x]] + Missing(x, u, r, d) + Black(v.red, x)
  <2>1. x \in P /\ x # m /\ x \in RbKey /\ x # 0
    BY <1>3, <1>6
  <2>2. Black(v.red, x) = Black(t.red, x) /\ Black(t.red, x) \in Nat
    BY <1>5, <2>1 DEF Black
  <2>3. PICK y : y = t.child[u][x] /\ H[x] = H[y] + Black(t.red, x) /\ H[y] \in Nat
    BY <1>8, <2>1
  <2>4. CASE x = q /\ u = d
    <3>1. y = m /\ v.child[u][x] = c
      BY <1>4, <1>5, <2>1, <2>3, <2>4
    <3>2. Missing(x, u, r, d) = Black(t.red, m)
      BY <1>7, <2>1, <2>4 DEF Missing, Black
    <3>3. H[x] = H[c] + Black(t.red, m) + Black(t.red, x)
      BY <1>9, <2>3, <3>1
    <3>4. QED
      BY <2>2, <3>1, <3>2, <3>3
  <2>5. CASE ~(x = q /\ u = d)
    <3>1. v.child[u][x] = y
      BY <1>5, <2>1, <2>3, <2>5
    <3>2. Missing(x, u, r, d) = 0
      BY <1>7, <2>1, <2>5 DEF Missing
    <3>3. QED
      BY <2>2, <2>3, <3>1, <3>2
  <2>6. QED
    BY <2>4, <2>5
<1>11. Heights(v.child, v.red, Q, H, r, d)
  BY <1>3, <1>10 DEF Heights
<1>12. Colored(v, Q, V, H, r, d)
  BY <1>3, <1>5, <1>6, <1>11 DEF Colored
<1>13. ASSUME NEW x \in v.red, x # c \/ m \in t.red PROVE v.up[x] \notin v.red
  <2>1. x \in t.red /\ x # m /\ x \in RbKey
    BY <1>3, <1>5, <1>13
  <2>2. x # c
    BY <1>2, <1>3, <1>4, <1>13, <2>1 DEF Separate
  <2>3. v.up[x] = t.up[x] /\ t.up[x] \notin t.red
    BY <1>2, <1>5, <2>1, <2>2 DEF Separate
  <2>4. QED
    BY <1>5, <2>3
<1>14. CASE m \in t.red
  <2>1. Separate(v.up, v.red)
    BY <1>13, <1>14 DEF Separate
  <2>2. q # 0
    BY <1>2, <1>4, <1>14
  <2>3. v.root \notin v.red
    BY <1>2, <1>5, <2>2
  <2>4. Colored(v, Q, V, H, 0, "left")
    <3>1. ASSUME NEW x \in Q, NEW u \in Side
          PROVE  Missing(x, u, r, d) = Missing(x, u, 0, "left")
      BY <1>3, <1>6, <1>7, <1>14 DEF Missing
    <3>2. Heights(v.child, v.red, Q, H, 0, "left")
      BY <1>11, <3>1 DEF Heights
    <3>3. QED
      BY <1>12, <3>2 DEF Colored
  <2>5. Sound(v, Q)
    BY <2>1, <2>3, <2>4 DEF Sound
  <2>6. QED
    BY <1>6, <1>14, <2>5
<1>15. CASE m \notin t.red
  <2>1. RedsApart(v.up, v.red, c)
    BY <1>13 DEF RedsApart
  <2>2. RootBlack(v.root, v.red, c)
    BY <1>2, <1>5 DEF RootBlack
  <2>3. q = 0 => c = v.root
    BY <1>5
  <2>4. q # 0 => q \in Q /\ d \in Side /\ v.child[d][q] = c
    BY <1>4, <1>5, <1>6
  <2>5. Lacks(v, Q, c, q, d)
    BY <1>7, <1>12, <1>15, <2>1, <2>2, <2>3, <2>4 DEF Lacks
  <2>6. QED
    BY <1>6, <1>15, <2>5
<1>16. QED
  BY <1>14, <1>15

LEMMA LacksErases ==
    ASSUME NEW v, NEW Q, NEW c, NEW q, NEW d, Lacks(v, Q, c, q, d)
    PROVE  Erasing(v, Q, c, q)
<1>1. PICK V, H : Colored(v, Q, V, H, q, d)
  BY DEF Lacks
<1>2. RedsApart(v.up, v.red, c) /\ RootBlack(v.root, v.red, c)
  BY DEF Lacks
<1>3. CASE q = 0
  <2>1. 0 \notin Q
    BY <1>1, ColoredFacts
  <2>2. ASSUME NEW x \in Q, NEW u \in Side PROVE Missing(x, u, q, d) = Missing(x, u, 0, "left")
    BY <1>3, <2>1 DEF Missing
  <2>3. Heights(v.child, v.red, Q, H, 0, "left")
    BY <1>1, <2>2 DEF Colored, Heights
  <2>4. Colored(v, Q, V, H, 0, "left")
    BY <1>1, <2>3 DEF Colored
  <2>5. c = v.root
    BY <1>3 DEF Lacks
  <2>6. QED
    BY <1>2, <1>3, <2>4, <2>5 DEF Erasing
<1>4. CASE q # 0
  <2>1. q \in Q /\ d \in Side /\ v.child[d][q] = c
    BY <1>4 DEF Lacks
  <2>2. PICK e, o : e = Other(d) /\ e # d /\ e \in Side /\ Other(e) = d /\ o = v.child[e][q]
    BY <2>1, Sides
  <2>3. Missing(q, d, q, d) = 1 /\ Missing(q, e, q, d) = 0 /\ Black(v.red, q) \in Nat
    BY <2>2 DEF Missing, Black
  <2>4. /\ H[q] = H[c] + Missing(q, d, q, d) + Black(v.red, q) /\ H[c] \in Nat
        /\ c # 0 => o # c
    BY <1>1, <2>1, <2>2, ColoredFacts
  <2>5. H[q] = H[o] + Missing(q, e, q, d) + Black(v.red, q) /\ H[o] \in Nat /\ H[0] = 0
    BY <1>1, <2>1, <2>2, ColoredFacts
  <2>6. H[o] = H[c] + 1
    BY <2>3, <2>4, <2>5
  <2>7. o # c
    BY <2>4, <2>5, <2>6
  <2>8. SideIs(v.child, c, q) = d
    BY <2>1, <2>2, <2>7, Sides DEF SideIs
  <2>9. QED
    BY <1>1, <1>2, <1>4, <2>1, <2>8 DEF Erasing
<1>5. QED
  BY <1>3, <1>4

(* A deletion ends, or goes on with __rb_erase_color.                           *)
Settles(t, rc, Q) ==
    \/ rc = Idle /\ Sound(t, Q)
    \/ \E c, q : rc = Recoloring("erase", c, q) /\ Erasing(t, Q, c, q)

LEMMA EraseOuterIs ==
    ASSUME Sound(tree, present), NEW n \in present, EraseOuter(n),
           0 \in {tree.child[s][n] : s \in Side}
    PROVE  Settles(tree', recolor', present \ {n})
<1> DEFINE c == IF tree.child["left"][n] = 0 THEN tree.child["right"][n] ELSE tree.child["left"][n]
           q == tree.up[n]
           d == SideIs(tree.child, n, q)
<1>1. /\ tree' = Spliced(tree, n, c)
      /\ recolor' = IF n \in tree.red THEN Idle ELSE Recoloring("erase", c, q)
  BY DEF EraseOuter, Spliced, Recoloring
<1>2. EdgeOf(tree, n, c, q, d)
  <2>1. tree.child["left"][n] = 0 \/ tree.child["right"][n] = 0
    BY Sides
  <2>2. CASE tree.child["left"][n] = 0
    BY <2>2, Sides DEF EdgeOf
  <2>3. CASE tree.child["left"][n] # 0
    BY <2>1, <2>3, Sides DEF EdgeOf
  <2>4. QED
    BY <2>2, <2>3
<1>3. q = tree.up[n] /\ d = SideIs(tree.child, n, q)
  OBVIOUS
<1> HIDE DEF c, q, d
<1>4. PICK U, H : Colored(tree, present, U, H, 0, "left")
  BY DEF Sound
<1>5. tree \in Store /\ TreeOf(tree, present, U)
  BY <1>4 DEF Colored
<1>6. n \in RbKey /\ c \in RbNode /\ c # n
  BY <1>2, <1>5, EdgeFacts
<1>7. PICK v : v = Spliced(tree, n, c)
  OBVIOUS
<1>8. IsSplice(v, tree, n, c, q, d)
  BY <1>3, <1>5, <1>6, <1>7, SplicedIs
<1>9. IF n \in tree.red THEN Sound(v, present \ {n}) ELSE Lacks(v, present \ {n}, c, q, d)
  BY <1>2, <1>8, SpliceStep
<1>10. CASE n \in tree.red
  BY <1>1, <1>7, <1>9, <1>10 DEF Settles
<1>11. CASE n \notin tree.red
  <2>1. Erasing(v, present \ {n}, c, q)
    BY <1>9, <1>11, LacksErases
  <2>2. QED
    BY <1>1, <1>7, <1>11, <2>1 DEF Settles
<1>12. QED
  BY <1>10, <1>11

-----------------------------------------------------------------------------
(* w is v with k in the place of n.                                            *)
As(x, n, k) == IF x = n THEN k ELSE x

Renamed(S, n, k) == IF n \in S THEN (S \ {n}) \cup {k} ELSE S

IsRename(w, v, Q, n, k) ==
    /\ w \in Store /\ w.root = As(v.root, n, k) /\ w.red = Renamed(v.red, n, k)
    /\ \A u \in Side : \A x \in Q : x # n => w.child[u][x] = As(v.child[u][x], n, k)
    /\ \A u \in Side : w.child[u][k] = v.child[u][n]
    /\ \A x \in Q : x # n => w.up[x] = As(v.up[x], n, k)
    /\ w.up[k] = v.up[n]
    /\ \A u \in Side : \A x \in RbKey : x \notin Renamed(Q, n, k) => w.child[u][x] = 0

(* k has the neighbours that n has.                                            *)
Replaces(Q, n, k) ==
    /\ n \in Q /\ k \in RbKey /\ k \notin Q
    /\ \A x \in Q : x # n => (x < n <=> x < k) /\ (n < x <=> k < x)

LEMMA RenameFacts ==
    ASSUME NEW v, NEW Q, NEW V, TreeOf(v, Q, V), NEW n, NEW k, Replaces(Q, n, k),
           NEW w, IsRename(w, v, Q, n, k)
    PROVE  /\ As(0, n, k) = 0
           /\ \A x \in Q : /\ As(x, n, k) \in Renamed(Q, n, k) /\ As(x, n, k) \in RbKey
                           /\ w.up[As(x, n, k)] = As(v.up[x], n, k)
                           /\ v.up[x] \in Q \cup {0}
           /\ \A x \in Q : \A u \in Side :
                 /\ w.child[u][As(x, n, k)] = As(v.child[u][x], n, k)
                 /\ v.child[u][x] \in Q \cup {0}
           /\ \A x, y \in Q \cup {0} : As(x, n, k) = As(y, n, k) => x = y
           /\ \A y \in Renamed(Q, n, k) : \E x \in Q : y = As(x, n, k)
           /\ v.red \subseteq Q => \A x \in Q \cup {0} : As(x, n, k) \in w.red <=> x \in v.red
<1>1. IsTree(v.root, v.child, v.up, Q, V)
  BY DEF TreeOf
<1>2. Q \in SUBSET RbKey /\ 0 \notin Q
  BY <1>1, RbNumbers DEF IsTree
<1>3. n \in Q /\ k \in RbKey /\ k \notin Q /\ n # 0 /\ k # 0 /\ k # n /\ n \in RbKey
  BY <1>2, RbNumbers DEF Replaces
<1>4. /\ w.red = Renamed(v.red, n, k)
      /\ \A u \in Side : \A x \in Q : x # n => w.child[u][x] = As(v.child[u][x], n, k)
      /\ \A u \in Side : w.child[u][k] = v.child[u][n]
      /\ \A x \in Q : x # n => w.up[x] = As(v.up[x], n, k)
      /\ w.up[k] = v.up[n]
  BY DEF IsRename
<1>5. As(0, n, k) = 0
  BY <1>3 DEF As
<1>6. \A x, y \in Q \cup {0} : As(x, n, k) = As(y, n, k) => x = y
  BY <1>3 DEF As
<1>7. ASSUME NEW x \in Q PROVE As(x, n, k) \in Renamed(Q, n, k) /\ As(x, n, k) \in RbKey
  BY <1>2, <1>3 DEF As, Renamed
<1>8. \A y \in Renamed(Q, n, k) : \E x \in Q : y = As(x, n, k)
  BY <1>3 DEF As, Renamed
<1>9. ASSUME NEW x \in Q
      PROVE  /\ w.up[As(x, n, k)] = As(v.up[x], n, k)
             /\ \A u \in Side : w.child[u][As(x, n, k)] = As(v.child[u][x], n, k)
  <2>1. CASE x = n
    <3>1. v.up[n] # n /\ \A u \in Side : v.child[u][n] # n
      <4>1. \A u \in Side : v.child[u][n] # n
        BY <1>1, <1>3, NodeFacts
      <4>2. v.up[n] # n
        BY <1>1, <1>3, ParentFacts
      <4>3. QED
        BY <4>1, <4>2
    <3>2. QED
      BY <1>4, <2>1, <3>1 DEF As
  <2>2. CASE x # n
    <3>1. As(x, n, k) = x
      BY <2>2 DEF As
    <3>2. QED
      BY <1>4, <2>2, <3>1
  <2>3. QED
    BY <2>1, <2>2
<1>10. ASSUME NEW x \in Q
       PROVE  v.up[x] \in Q \cup {0} /\ \A u \in Side : v.child[u][x] \in Q \cup {0}
  <2>1. v.up[x] \in Q \cup {0}
    BY <1>1, ParentFacts
  <2>2. \A u \in Side : v.child[u][x] \in Q \cup {0}
    BY <1>1, NodeFacts
  <2>3. QED
    BY <2>1, <2>2
<1>11. ASSUME v.red \subseteq Q, NEW x \in Q \cup {0}
       PROVE  As(x, n, k) \in w.red <=> x \in v.red
  <2>1. k \notin v.red /\ x # k
    BY <1>3, <1>11
  <2>2. CASE x = n
    BY <1>3, <1>4, <2>1, <2>2 DEF As, Renamed
  <2>3. CASE x # n
    BY <1>3, <1>4, <2>1, <2>3 DEF As, Renamed
  <2>4. QED
    BY <2>2, <2>3
<1>12. QED
  BY <1>5, <1>6, <1>7, <1>8, <1>9, <1>10, <1>11

LEMMA RenameTree ==
    ASSUME NEW v, NEW Q, NEW V, TreeOf(v, Q, V), NEW n, NEW k, Replaces(Q, n, k),
           NEW w, IsRename(w, v, Q, n, k)
    PROVE  \E W : TreeOf(w, Renamed(Q, n, k), W)
<1>1. IsTree(v.root, v.child, v.up, Q, V)
  BY DEF TreeOf
<1>2. /\ v.root \in RbNode /\ Q \in SUBSET RbKey /\ 0 \notin Q /\ V \in [RbNode -> SUBSET Q]
      /\ V[0] = {} /\ V[v.root] = Q /\ (v.root # 0 => v.root \in Q /\ v.up[v.root] = 0)
  BY <1>1, RbNumbers DEF IsTree
<1>3. /\ n \in Q /\ k \in RbKey /\ k \notin Q /\ n # 0 /\ k # 0 /\ k # n /\ n \in RbKey
      /\ n \in RbNode /\ k \in RbNode
  BY <1>2, RbNumbers DEF Replaces
<1>4. \A x \in Q : \A u \in Side : x # n => (OnSide(u, x, n) => OnSide(u, x, k))
                                             /\ (OnSide(u, n, x) => OnSide(u, k, x))
  BY DEF Replaces, OnSide
<1>5. /\ w \in Store /\ w.root = As(v.root, n, k)
      /\ \A u \in Side : \A x \in Q : x # n => w.child[u][x] = As(v.child[u][x], n, k)
      /\ \A u \in Side : w.child[u][k] = v.child[u][n]
      /\ \A x \in Q : x # n => w.up[x] = As(v.up[x], n, k)
      /\ w.up[k] = v.up[n]
      /\ \A u \in Side : \A x \in RbKey : x \notin Renamed(Q, n, k) => w.child[u][x] = 0
  BY DEF IsRename
<1>6. PICK R : R = (Q \ {n}) \cup {k} /\ R = Renamed(Q, n, k)
  BY <1>3 DEF Renamed
<1>7. PICK W : W = [x \in RbNode |-> IF x = n THEN {} ELSE IF x = k THEN Renamed(V[n], n, k)
                                      ELSE IF x \in Q THEN Renamed(V[x], n, k) ELSE {}]
  OBVIOUS
<1>8. w.root \in RbNode /\ w.child \in [Side -> [RbKey -> RbNode]] /\ w.up \in [RbKey -> RbNode]
  BY <1>5 DEF Store
<1>9. /\ R \in SUBSET RbKey /\ W \in [RbNode -> SUBSET R] /\ W[0] = {} /\ W[n] = {}
      /\ W[k] = Renamed(V[n], n, k) /\ \A x \in Q : x # n => W[x] = Renamed(V[x], n, k)
  <2>1. R \in SUBSET RbKey
    BY <1>2, <1>3, <1>6
  <2>2. \A x \in RbNode : Renamed(V[x], n, k) \in SUBSET R
    <3>1. SUFFICES ASSUME NEW x \in RbNode PROVE Renamed(V[x], n, k) \in SUBSET R
      OBVIOUS
    <3>2. V[x] \in SUBSET Q
      BY <1>2
    <3>3. QED
      BY <1>6, <3>2 DEF Renamed
  <2>3. W \in [RbNode -> SUBSET R]
    BY <1>3, <1>7, <2>2
  <2>4. W[0] = {} /\ W[n] = {}
    BY <1>2, <1>3, <1>7, RbNumbers
  <2>5. W[k] = Renamed(V[n], n, k)
    BY <1>3, <1>7
  <2>6. \A x \in Q : x # n => W[x] = Renamed(V[x], n, k)
    BY <1>2, <1>3, <1>7, RbNumbers
  <2>7. QED
    BY <2>1, <2>3, <2>4, <2>5, <2>6
<1>10. ASSUME NEW x, x = 0 \/ x \in Q
       PROVE  /\ As(x, n, k) = 0 \/ As(x, n, k) \in R
              /\ As(x, n, k) = 0 <=> x = 0
              /\ W[As(x, n, k)] = Renamed(V[x], n, k)
  <2>1. CASE x = 0
    BY <1>2, <1>3, <1>9, <2>1 DEF As, Renamed
  <2>2. CASE x = n
    BY <1>3, <1>6, <1>9, <2>2 DEF As
  <2>3. CASE x # 0 /\ x # n
    BY <1>6, <1>9, <1>10, <2>3 DEF As
  <2>4. QED
    BY <2>1, <2>2, <2>3
<1>12. ASSUME NEW x \in Q PROVE As(x, n, k) \in R /\ As(x, n, k) \in RbKey
  BY <1>6, RenameFacts
<1>13. \A y \in R : \E x \in Q : y = As(x, n, k)
  BY <1>6, RenameFacts
<1>14. ASSUME NEW x \in Q
       PROVE  /\ w.up[As(x, n, k)] = As(v.up[x], n, k)
              /\ \A u \in Side : w.child[u][As(x, n, k)] = As(v.child[u][x], n, k)
  BY RenameFacts
<1>15. W[w.root] = R
  <2>1. v.root = 0 \/ v.root \in Q
    BY <1>2
  <2>2. W[As(v.root, n, k)] = Renamed(V[v.root], n, k)
    BY <1>10, <2>1
  <2>3. QED
    BY <1>2, <1>5, <1>6, <2>2
<1>16. w.root # 0 => w.root \in R /\ w.up[w.root] = 0
  <2>1. SUFFICES ASSUME w.root # 0 PROVE w.root \in R /\ w.up[w.root] = 0
    OBVIOUS
  <2>2. v.root \in Q /\ v.up[v.root] = 0
    BY <1>2, <1>3, <1>5, <2>1 DEF As
  <2>3. As(v.root, n, k) \in R /\ w.up[As(v.root, n, k)] = As(0, n, k)
    BY <1>12, <1>14, <2>2
  <2>4. QED
    BY <1>3, <1>5, <2>3 DEF As
<1>17. ASSUME NEW y \in R, NEW u \in Side PROVE Hangs(w.child, w.up, R, W, u, y)
  <2>1. PICK x \in Q : y = As(x, n, k)
    BY <1>13
  <2>2. PICK c : c = v.child[u][x]
    OBVIOUS
  <2>3. /\ x \in RbKey /\ (c # 0 => c \in Q /\ v.up[c] = x) /\ V[c] \in SUBSET Q
        /\ \A z \in V[c] : z \in RbKey /\ OnSide(u, z, x)
        /\ x \notin V[c]
    BY <1>1, <2>2, NodeFacts
  <2>4. w.child[u][y] = As(c, n, k)
    BY <1>14, <2>1, <2>2
  <2>5. As(c, n, k) = 0 \/ (As(c, n, k) \in R /\ w.up[As(c, n, k)] = y)
    <3>1. CASE c = 0
      BY <1>3, <3>1 DEF As
    <3>2. CASE c # 0
      <4>1. c \in Q /\ v.up[c] = x
        BY <2>3, <3>2
      <4>2. As(c, n, k) \in R /\ w.up[As(c, n, k)] = As(v.up[c], n, k)
        BY <1>12, <1>14, <4>1
      <4>3. QED
        BY <2>1, <4>1, <4>2
    <3>3. QED
      BY <3>1, <3>2
  <2>6. W[As(c, n, k)] = Renamed(V[c], n, k)
    BY <1>10, <2>3
  <2>7. ASSUME NEW z \in Renamed(V[c], n, k) PROVE OnSide(u, z, y)
    <3>1. (z = k /\ n \in V[c]) \/ (z \in V[c] /\ z # n)
      BY <2>7 DEF Renamed
    <3>2. CASE x = n
      <4>1. y = k /\ z \in V[c] /\ z # n /\ z \in Q /\ OnSide(u, z, n)
        BY <2>1, <2>3, <3>1, <3>2 DEF As
      <4>2. QED
        BY <1>4, <4>1
    <3>3. CASE x # n
      <4>1. y = x
        BY <2>1, <3>3 DEF As
      <4>2. CASE z = k /\ n \in V[c]
        BY <1>4, <2>3, <3>3, <4>1, <4>2
      <4>3. CASE z \in V[c] /\ z # n
        BY <2>3, <4>1, <4>3
      <4>4. QED
        BY <3>1, <4>2, <4>3
    <3>4. QED
      BY <3>2, <3>3
  <2>8. QED
    BY <2>4, <2>5, <2>6, <2>7 DEF Hangs
<1>18. ASSUME NEW y \in R PROVE W[y] = W[w.child["left"][y]] \cup {y} \cup W[w.child["right"][y]]
  <2>1. PICK x \in Q : y = As(x, n, k)
    BY <1>13
  <2>2. PICK l, r : l = "left" /\ r = "right" /\ l \in Side /\ r \in Side
    BY Sides
  <2>3. PICK A, B : A = V[v.child[l][x]] /\ B = V[v.child[r][x]]
    OBVIOUS
  <2>4. V[x] = A \cup {x} \cup B
    BY <1>1, <2>2, <2>3 DEF IsTree
  <2>5. /\ v.child[l][x] = 0 \/ v.child[l][x] \in Q
        /\ v.child[r][x] = 0 \/ v.child[r][x] \in Q
        /\ x \notin A /\ x \notin B
    BY <1>1, <2>2, <2>3, NodeFacts
  <2>6. W[w.child[l][y]] = Renamed(A, n, k) /\ W[w.child[r][y]] = Renamed(B, n, k)
    <3>1. w.child[l][y] = As(v.child[l][x], n, k) /\ w.child[r][y] = As(v.child[r][x], n, k)
      BY <1>14, <2>1, <2>2
    <3>2. /\ W[As(v.child[l][x], n, k)] = Renamed(V[v.child[l][x]], n, k)
          /\ W[As(v.child[r][x], n, k)] = Renamed(V[v.child[r][x]], n, k)
      BY <1>10, <2>5
    <3>3. QED
      BY <2>3, <3>1, <3>2
  <2>7. W[y] = Renamed(V[x], n, k)
    BY <1>10, <2>1
  <2>8. Renamed(V[x], n, k) = Renamed(A, n, k) \cup {y} \cup Renamed(B, n, k)
    <3>1. CASE x = n
      BY <2>1, <2>4, <2>5, <3>1 DEF As, Renamed
    <3>2. CASE x # n
      BY <2>1, <2>4, <3>2 DEF As, Renamed
    <3>3. QED
      BY <3>1, <3>2
  <2>9. QED
    BY <2>2, <2>6, <2>7, <2>8
<1>19. ASSUME NEW y \in R
       PROVE  y = w.root \/ (w.up[y] \in R /\ \E u \in Side : w.child[u][w.up[y]] = y)
  <2>1. PICK x \in Q : y = As(x, n, k)
    BY <1>13
  <2>2. CASE x = v.root
    BY <1>5, <2>1, <2>2
  <2>3. CASE x # v.root
    <3>1. PICK u \in Side : v.child[u][v.up[x]] = x /\ v.up[x] \in Q
      BY <1>1, <2>3 DEF IsTree
    <3>2. w.up[y] = As(v.up[x], n, k)
      BY <1>14, <2>1
    <3>3. /\ As(v.up[x], n, k) \in R
          /\ w.child[u][As(v.up[x], n, k)] = As(v.child[u][v.up[x]], n, k)
      BY <1>12, <1>14, <3>1
    <3>4. QED
      BY <2>1, <3>1, <3>2, <3>3
  <2>4. QED
    BY <2>2, <2>3
<1>20. \A y \in RbKey \ R : \A u \in Side : w.child[u][y] = 0
  BY <1>5, <1>6
<1>21. IsTree(w.root, w.child, w.up, R, W)
  BY <1>8, <1>9, <1>15, <1>16, <1>17, <1>18, <1>19, <1>20 DEF IsTree
<1>22. QED
  BY <1>6, <1>21 DEF TreeOf

LEMMA RenameColored ==
    ASSUME NEW v, NEW Q, NEW V, NEW H, NEW q \in Q \cup {0}, NEW d, Colored(v, Q, V, H, q, d),
           NEW n, NEW k, Replaces(Q, n, k), NEW w, IsRename(w, v, Q, n, k)
    PROVE  \E W, G : Colored(w, Renamed(Q, n, k), W, G, As(q, n, k), d)
<1>1. /\ TreeOf(v, Q, V) /\ v.red \subseteq Q
      /\ H \in [RbNode -> Nat] /\ H[0] = 0 /\ 0 \notin Q /\ Q \in SUBSET RbKey
  <2>1. TreeOf(v, Q, V) /\ v.red \subseteq Q /\ H \in [RbNode -> Nat]
    BY DEF Colored, Heights
  <2>2. QED
    BY <2>1, ColoredFacts
<1>2. PICK R : R = Renamed(Q, n, k)
  OBVIOUS
<1>3. PICK W : TreeOf(w, R, W)
  BY <1>1, <1>2, RenameTree
<1>4. /\ n \in Q /\ k \in RbKey /\ k \notin Q /\ n # 0 /\ k # 0 /\ k # n /\ n \in RbNode /\ k \in RbNode
  BY <1>1, RbNumbers DEF Replaces
<1>5. PICK G : G = [H EXCEPT ![k] = H[n]]
  OBVIOUS
<1>6. /\ G \in [RbNode -> Nat] /\ G[0] = 0 /\ G[k] = H[n]
      /\ \A x \in RbNode : x # k => G[x] = H[x]
  BY <1>1, <1>4, <1>5
<1>7. \A x \in Q \cup {0} : G[As(x, n, k)] = H[x]
  BY <1>1, <1>4, <1>6, RbNumbers DEF As
<1>8. /\ \A y \in R : \E x \in Q : y = As(x, n, k)
      /\ \A x \in Q : \A u \in Side : /\ w.child[u][As(x, n, k)] = As(v.child[u][x], n, k)
                                      /\ v.child[u][x] \in Q \cup {0}
      /\ \A x, y \in Q \cup {0} : As(x, n, k) = As(y, n, k) => x = y
      /\ \A x \in Q \cup {0} : As(x, n, k) \in w.red <=> x \in v.red
  BY <1>1, <1>2, RenameFacts
<1>9. ASSUME NEW y \in R, NEW u \in Side
      PROVE  G[y] = G[w.child[u][y]] + Missing(y, u, As(q, n, k), d) + Black(w.red, y)
  <2>1. PICK x \in Q : y = As(x, n, k)
    BY <1>8
  <2>2. H[x] = H[v.child[u][x]] + Missing(x, u, q, d) + Black(v.red, x)
    BY ColoredFacts
  <2>3. G[y] = H[x] /\ G[w.child[u][y]] = H[v.child[u][x]]
    BY <1>7, <1>8, <2>1
  <2>4. Missing(y, u, As(q, n, k), d) = Missing(x, u, q, d)
    <3>1. y = As(q, n, k) <=> x = q
      BY <1>8, <2>1
    <3>2. QED
      BY <3>1 DEF Missing
  <2>5. Black(w.red, y) = Black(v.red, x)
    BY <1>8, <2>1 DEF Black
  <2>6. QED
    BY <2>2, <2>3, <2>4, <2>5
<1>10. Heights(w.child, w.red, R, G, As(q, n, k), d)
  BY <1>6, <1>9 DEF Heights
<1>11. w.red \subseteq R /\ w \in Store
  BY <1>1, <1>2, <1>4 DEF IsRename, Renamed
<1>12. Colored(w, R, W, G, As(q, n, k), d)
  BY <1>3, <1>10, <1>11 DEF Colored
<1>13. QED
  BY <1>2, <1>12

LEMMA RenameStep ==
    ASSUME NEW v, NEW Q, NEW n, NEW k, Replaces(Q, n, k), NEW w, IsRename(w, v, Q, n, k)
    PROVE  /\ Sound(v, Q) => Sound(w, Renamed(Q, n, k))
           /\ \A c, q, d : Lacks(v, Q, c, q, d) /\ c # n
                  => Lacks(w, Renamed(Q, n, k), c, As(q, n, k), d)
<1>1. ASSUME NEW U, TreeOf(v, Q, U), v.red \subseteq Q, NEW m \in w.red
      PROVE  \E x \in v.red : m = As(x, n, k) /\ w.up[m] = As(v.up[x], n, k)
                              /\ (w.up[m] \in w.red <=> v.up[x] \in v.red)
  <2>1. n \in Q
    BY DEF Replaces
  <2>2. m \in Renamed(Q, n, k)
    BY <1>1, <2>1 DEF IsRename, Renamed
  <2>3. PICK x \in Q : m = As(x, n, k)
    BY <1>1, <2>2, RenameFacts
  <2>4. w.up[As(x, n, k)] = As(v.up[x], n, k) /\ v.up[x] \in Q \cup {0}
    BY <1>1, RenameFacts
  <2>5. As(x, n, k) \in w.red <=> x \in v.red
    BY <1>1, RenameFacts
  <2>6. As(v.up[x], n, k) \in w.red <=> v.up[x] \in v.red
    BY <1>1, <2>4, RenameFacts
  <2>7. QED
    BY <1>1, <2>3, <2>4, <2>5, <2>6
<1>2. ASSUME NEW U, TreeOf(v, Q, U), v.red \subseteq Q
      PROVE  /\ v.root \in Q \cup {0}
             /\ w.root = As(v.root, n, k) /\ (w.root \in w.red <=> v.root \in v.red)
  <2>1. v.root \in Q \cup {0}
    BY <1>2 DEF TreeOf, IsTree
  <2>2. w.root = As(v.root, n, k)
    BY DEF IsRename
  <2>3. As(v.root, n, k) \in w.red <=> v.root \in v.red
    BY <1>2, <2>1, RenameFacts
  <2>4. QED
    BY <2>1, <2>2, <2>3
<1>3. ASSUME Sound(v, Q) PROVE Sound(w, Renamed(Q, n, k))
  <2>1. PICK V, H : Colored(v, Q, V, H, 0, "left")
    BY <1>3 DEF Sound
  <2>2. TreeOf(v, Q, V) /\ v.red \subseteq Q
    BY <2>1 DEF Colored
  <2>3. \E W, G : Colored(w, Renamed(Q, n, k), W, G, 0, "left")
    <3>1. \E W, G : Colored(w, Renamed(Q, n, k), W, G, As(0, n, k), "left")
      BY <2>1, RenameColored
    <3>2. As(0, n, k) = 0
      BY <2>2, RenameFacts
    <3>3. QED
      BY <3>1, <3>2
  <2>4. Separate(w.up, w.red)
    BY <1>1, <1>3, <2>2 DEF Sound, Separate
  <2>5. w.root \notin w.red
    BY <1>2, <1>3, <2>2 DEF Sound
  <2>6. QED
    BY <2>3, <2>4, <2>5 DEF Sound
<1>4. ASSUME NEW c, NEW q, NEW d, Lacks(v, Q, c, q, d), c # n
      PROVE  Lacks(w, Renamed(Q, n, k), c, As(q, n, k), d)
  <2>1. PICK V, H : Colored(v, Q, V, H, q, d)
    BY <1>4 DEF Lacks
  <2>2. TreeOf(v, Q, V) /\ v.red \subseteq Q
    BY <2>1 DEF Colored
  <2>3. /\ RedsApart(v.up, v.red, c) /\ RootBlack(v.root, v.red, c)
        /\ IF q = 0 THEN c = v.root ELSE q \in Q /\ d \in Side /\ v.child[d][q] = c
    BY <1>4 DEF Lacks
  <2>4. q \in Q \cup {0} /\ As(c, n, k) = c
    BY <1>4, <2>3 DEF As
  <2>5. c \in Q \cup {0}
    BY <1>2, <2>2, <2>3, RenameFacts
  <2>6. \E W, G : Colored(w, Renamed(Q, n, k), W, G, As(q, n, k), d)
    BY <2>1, <2>4, RenameColored
  <2>7. /\ \A x, y \in Q \cup {0} : As(x, n, k) = As(y, n, k) => x = y
        /\ As(0, n, k) = 0
        /\ \A x \in Q : As(x, n, k) \in Renamed(Q, n, k) /\ v.up[x] \in Q \cup {0}
        /\ \A x \in Q : \A u \in Side : w.child[u][As(x, n, k)] = As(v.child[u][x], n, k)
    BY <2>2, RenameFacts
  <2>8. RedsApart(w.up, w.red, c)
    <3>1. ASSUME NEW m \in w.red, m # c, w.up[m] # c PROVE w.up[m] \notin w.red
      <4>1. PICK x \in v.red : m = As(x, n, k) /\ w.up[m] = As(v.up[x], n, k)
                               /\ (w.up[m] \in w.red <=> v.up[x] \in v.red)
        BY <1>1, <2>2
      <4>2. x # c /\ v.up[x] # c
        BY <2>4, <3>1, <4>1
      <4>3. QED
        BY <2>3, <4>1, <4>2 DEF RedsApart
    <3>2. QED
      BY <3>1 DEF RedsApart
  <2>9. RootBlack(w.root, w.red, c)
    BY <1>2, <2>2, <2>3, <2>4 DEF RootBlack
  <2>10. IF As(q, n, k) = 0 THEN c = w.root
         ELSE As(q, n, k) \in Renamed(Q, n, k) /\ d \in Side /\ w.child[d][As(q, n, k)] = c
    <3>1. CASE q = 0
      BY <1>2, <2>2, <2>3, <2>4, <2>7, <3>1
    <3>2. CASE q # 0
      BY <2>3, <2>4, <2>7, <3>2
    <3>3. QED
      BY <3>1, <3>2
  <2>11. QED
    BY <2>6, <2>8, <2>9, <2>10 DEF Lacks
<1>5. QED
  BY <1>3, <1>4

-----------------------------------------------------------------------------
(* w is t after k has taken the place of n: k had no left child, and is the right *)
(* child of n or hangs to the left of p.                                        *)
IsInner(w, t, n, k, c, p, q, l, r) ==
    /\ w \in Store /\ w.root = IF q = 0 THEN k ELSE t.root
    /\ w.red = (IF n \in t.red THEN t.red \cup {k} ELSE t.red \ {k}) \ {n}
    /\ \A u \in Side : \A x \in RbKey :
          w.child[u][x] = IF x = n THEN 0
                          ELSE IF x = k /\ u = "left" THEN l
                          ELSE IF p # n /\ x = k /\ u = "right" THEN r
                          ELSE IF p # n /\ x = p /\ u = "left" THEN c
                          ELSE IF x = q /\ u = SideIs(t.child, n, x) THEN k
                          ELSE t.child[u][x]
    /\ \A x \in RbKey :
          w.up[x] = IF x = n THEN 0 ELSE IF x = l THEN k ELSE IF x = k THEN q
                    ELSE IF p # n /\ x = r THEN k ELSE IF p # n /\ x = c THEN p ELSE t.up[x]

InnerNext(t, n, next) ==
    LET c == t.child["right"][next]
        apart == t.up[next] # n
        p == IF apart THEN t.up[next] ELSE next
        t1 == Relink(t, n, next)
        t2 == IF apart
              THEN LET u == SetChild(SetUp(t1, c, p), p, "left", c)
                   IN  SetUp(SetChild(u, next, "right", t.child["right"][n]),
                             t.child["right"][n], next)
              ELSE t1
        t3 == SetUp(SameColor(t2, next, n), next, t.up[n])
        t4 == SetUp(SetChild(t3, next, "left", t.child["left"][n]), t.child["left"][n], next)
    IN  Freed(t4, n)

LEMMA InnerIs ==
    ASSUME NEW t \in Store, NEW n \in RbKey, NEW k \in RbKey, NEW c, NEW p \in RbKey, NEW q, NEW l, NEW r,
           c = t.child["right"][k], p = t.up[k], q = t.up[n], l = t.child["left"][n],
           r = t.child["right"][n]
    PROVE  IsInner(InnerNext(t, n, k), t, n, k, c, p, q, l, r)
<1>1. "left" \in Side /\ "right" \in Side /\ "left" # "right"
  BY DEF Side
<1>2. c \in RbNode /\ q \in RbNode /\ l \in RbNode /\ r \in RbNode /\ k \in RbNode /\ n \in RbNode
      /\ p \in RbNode
  BY <1>1, RbNumbers DEF Store
<1>3. PICK a : a = Relink(t, n, k)
  OBVIOUS
<1>4. IsRelink(a, t, n, k)
  BY <1>2, <1>3, RelinkIs
<1>5. /\ a \in Store /\ a.up = t.up /\ a.red = t.red /\ a.root = IF q = 0 THEN k ELSE t.root
      /\ \A u \in Side : \A x \in RbKey :
            a.child[u][x] = IF x = q /\ u = SideIs(t.child, n, x) THEN k ELSE t.child[u][x]
  BY <1>4 DEF IsRelink
<1>6. PICK b : b = IF p # n
                   THEN SetUp(SetChild(SetChild(SetUp(a, c, p), p, "left", c), k, "right", r), r, k)
                   ELSE a
  OBVIOUS
<1>7. /\ b \in Store /\ b.red = t.red /\ b.root = IF q = 0 THEN k ELSE t.root
      /\ \A u \in Side : \A x \in RbKey :
            b.child[u][x] = IF p # n /\ x = k /\ u = "right" THEN r
                            ELSE IF p # n /\ x = p /\ u = "left" THEN c
                            ELSE IF x = q /\ u = SideIs(t.child, n, x) THEN k
                            ELSE t.child[u][x]
      /\ \A x \in RbKey :
            b.up[x] = IF p # n /\ x = r THEN k ELSE IF p # n /\ x = c THEN p ELSE t.up[x]
  <2>1. CASE p = n
    BY <1>5, <1>6, <2>1
  <2>2. CASE p # n
    <3>1. PICK b1 : b1 = SetUp(a, c, p)
      OBVIOUS
    <3>2. IsSetUp(b1, a, c, p)
      BY <1>2, <1>5, <3>1, SetUpIs
    <3>3. b1 \in Store
      BY <3>2 DEF IsSetUp
    <3>4. PICK b2 : b2 = SetChild(b1, p, "left", c)
      OBVIOUS
    <3>5. IsSetChild(b2, b1, p, "left", c)
      BY <1>1, <1>2, <3>3, <3>4, SetChildIs
    <3>6. b2 \in Store
      BY <3>5 DEF IsSetChild
    <3>7. PICK b3 : b3 = SetChild(b2, k, "right", r)
      OBVIOUS
    <3>8. IsSetChild(b3, b2, k, "right", r)
      BY <1>1, <1>2, <3>6, <3>7, SetChildIs
    <3>9. b3 \in Store
      BY <3>8 DEF IsSetChild
    <3>10. b = SetUp(b3, r, k)
      BY <1>6, <2>2, <3>1, <3>4, <3>7
    <3>11. IsSetUp(b, b3, r, k)
      BY <1>2, <3>9, <3>10, SetUpIs
    <3>12. b \in Store /\ b.red = t.red /\ b.root = IF q = 0 THEN k ELSE t.root
      BY <1>5, <3>2, <3>5, <3>8, <3>11 DEF IsSetUp, IsSetChild
    <3>13. \A x \in RbKey : b.up[x] = IF x = r THEN k ELSE IF x = c THEN p ELSE t.up[x]
      BY <1>5, <3>2, <3>5, <3>8, <3>11 DEF IsSetUp, IsSetChild
    <3>14. \A u \in Side : \A x \in RbKey :
              b.child[u][x] = IF x = k /\ u = "right" THEN r
                              ELSE IF x = p /\ u = "left" THEN c ELSE a.child[u][x]
      BY <3>2, <3>5, <3>8, <3>11 DEF IsSetUp, IsSetChild
    <3>15. QED
      BY <1>5, <2>2, <3>12, <3>13, <3>14
  <2>3. QED
    BY <2>1, <2>2
<1>8. PICK d, e : d = SameColor(b, k, n) /\ e = SetUp(d, k, q)
  OBVIOUS
<1>9. Recolored(d, b, IF n \in b.red THEN b.red \cup {k} ELSE b.red \ {k})
  BY <1>7, <1>8, SameColorIs
<1>10. d \in Store
  BY <1>9 DEF Recolored
<1>11. IsSetUp(e, d, k, q)
  BY <1>2, <1>8, <1>10, SetUpIs
<1>12. e \in Store
  BY <1>11 DEF IsSetUp
<1>13. PICK f, g : f = SetChild(e, k, "left", l) /\ g = SetUp(f, l, k)
  OBVIOUS
<1>14. IsSetChild(f, e, k, "left", l)
  BY <1>1, <1>2, <1>12, <1>13, SetChildIs
<1>15. f \in Store
  BY <1>14 DEF IsSetChild
<1>16. IsSetUp(g, f, l, k)
  BY <1>2, <1>13, <1>15, SetUpIs
<1>17. g \in Store
  BY <1>16 DEF IsSetUp
<1>18. PICK w : w = Freed(g, n)
  OBVIOUS
<1>19. IsFreed(w, g, n)
  BY <1>17, <1>18, FreedIs
<1>20. /\ w \in Store /\ w.root = b.root
       /\ w.red = (IF n \in b.red THEN b.red \cup {k} ELSE b.red \ {k}) \ {n}
  BY <1>9, <1>11, <1>14, <1>16, <1>19 DEF Recolored, IsSetUp, IsSetChild, IsFreed
<1>21. \A x \in RbKey : w.up[x] = IF x = n THEN 0 ELSE IF x = l THEN k ELSE IF x = k THEN q ELSE b.up[x]
  BY <1>9, <1>11, <1>14, <1>16, <1>19 DEF Recolored, IsSetUp, IsSetChild, IsFreed
<1>22. \A u \in Side : \A x \in RbKey :
          w.child[u][x] = IF x = n THEN 0 ELSE IF x = k /\ u = "left" THEN l ELSE b.child[u][x]
  BY <1>9, <1>11, <1>14, <1>16, <1>19 DEF Recolored, IsSetUp, IsSetChild, IsFreed
<1>23. w.root = IF q = 0 THEN k ELSE t.root
  BY <1>7, <1>20
<1>24. w.red = (IF n \in t.red THEN t.red \cup {k} ELSE t.red \ {k}) \ {n}
  BY <1>7, <1>20
<1>25. \A x \in RbKey :
          w.up[x] = IF x = n THEN 0 ELSE IF x = l THEN k ELSE IF x = k THEN q
                    ELSE IF p # n /\ x = r THEN k ELSE IF p # n /\ x = c THEN p ELSE t.up[x]
  BY <1>7, <1>21
<1>26. \A u \in Side : \A x \in RbKey :
          w.child[u][x] = IF x = n THEN 0
                          ELSE IF x = k /\ u = "left" THEN l
                          ELSE IF p # n /\ x = k /\ u = "right" THEN r
                          ELSE IF p # n /\ x = p /\ u = "left" THEN c
                          ELSE IF x = q /\ u = SideIs(t.child, n, x) THEN k
                          ELSE t.child[u][x]
  BY <1>7, <1>22
<1>27. IsInner(w, t, n, k, c, p, q, l, r)
  BY SMTT(60), <1>20, <1>23, <1>24, <1>25, <1>26 DEF IsInner
<1>28. w = InnerNext(t, n, k)
  BY ZenonT(60), <1>3, <1>6, <1>8, <1>13, <1>18 DEF InnerNext
<1>29. QED
  BY <1>27, <1>28

(* The successor of a node with two children.                                   *)
InnerAt(t, n, k, c, p, q, l, r) ==
    /\ l = t.child["left"][n] /\ r = t.child["right"][n] /\ l # 0 /\ r # 0
    /\ k = Outermost(t, r, "left") /\ c = t.child["right"][k] /\ p = t.up[k] /\ q = t.up[n]

InnerNear(t, P, n, k, c, p, q, l, r) ==
    /\ Replaces(P \ {k}, n, k) /\ k \in P /\ k # n /\ t.child["left"][k] = 0
    /\ p \in P /\ p # k /\ p # 0
    /\ p = n => k = r
    /\ p # n => k # r /\ t.child["left"][p] = k
    /\ t.up[l] = n /\ t.up[r] = n /\ l # r /\ l # k /\ l \in P /\ r \in P
    /\ c # 0 => t.up[c] = k /\ c \in P
    /\ c # n /\ q # k /\ q # n /\ q \in RbNode

LEMMA InnerFacts ==
    ASSUME NEW t, NEW P, NEW U, TreeOf(t, P, U), NEW n \in P, NEW k, NEW c, NEW p, NEW q, NEW l, NEW r,
           InnerAt(t, n, k, c, p, q, l, r)
    PROVE  InnerNear(t, P, n, k, c, p, q, l, r)
<1>1. IsTree(t.root, t.child, t.up, P, U)
  BY DEF TreeOf
<1>2. P \in SUBSET RbKey /\ 0 \notin P
  BY <1>1, RbNumbers DEF IsTree
<1>3. PICK L, R : L = "left" /\ R = "right" /\ L \in Side /\ R \in Side /\ L # R
                  /\ \A u \in Side : u = L \/ u = R
  BY Sides
<1>4. /\ l = t.child[L][n] /\ r = t.child[R][n] /\ l # 0 /\ r # 0
      /\ k = Outermost(t, r, "left") /\ c = t.child[R][k] /\ p = t.up[k] /\ q = t.up[n]
  BY <1>3 DEF InnerAt
<1>5. l \in P /\ r \in P /\ t.up[l] = n /\ t.up[r] = n
  BY SMTT(60), <1>1, <1>3, <1>4, ChildFacts
<1>6. l # r
  BY SMTT(60), <1>1, <1>3, <1>4, NodeFacts, Sides
<1>7. k \in U[r] /\ t.child[L][k] = 0 /\ \A x \in U[r] : k <= x
  BY SMTT(60), <1>3, <1>4, <1>5, OutermostIs
<1>8. r \in U[r] /\ U[r] \subseteq U[n] /\ n \notin U[r] /\ r \in U[n]
  BY <1>1, <1>3, <1>4, UnderChild
<1>9. k \in P /\ k # n /\ k \in U[n]
  BY SMTT(60), <1>1, <1>5, <1>7, <1>8, Below
<1>10. k # r => p \in U[r] /\ p \in P
  BY <1>1, <1>4, <1>5, <1>7, Below
<1>11. p = n => k = r
  BY SMTT(60), <1>8, <1>10
<1>12. k = r => p = n
  BY <1>4, <1>5
<1>13. p \in P /\ p # 0 /\ p # k
  <2>1. p \in P
    BY SMTT(60), <1>10, <1>12
  <2>2. p # k
    BY <1>1, <1>2, <1>4, <1>9, <2>1, ParentFacts
  <2>3. QED
    BY <1>2, <2>1, <2>2
<1>14. p # n => t.child[L][p] = k
  <2>1. SUFFICES ASSUME p # n PROVE t.child[L][p] = k
    OBVIOUS
  <2>2. p \in U[r] /\ k <= p
    BY SMTT(30), <1>7, <1>10, <1>12, <2>1
  <2>3. PICK s : s = SideIs(t.child, k, p) /\ s \in Side /\ t.child[s][p] = k
    <3>1. t.up[k] # 0
      BY <1>4, <1>13
    <3>2. SideIs(t.child, k, t.up[k]) \in Side /\ t.child[SideIs(t.child, k, t.up[k])][t.up[k]] = k
      BY <1>1, <1>9, <3>1, ParentFacts
    <3>3. QED
      BY Zenon, <1>4, <3>2
  <2>4. k # 0 /\ k \in U[k] /\ k \in RbKey /\ p \in RbKey
    BY <1>1, <1>2, <1>9, <1>13, NodeFacts
  <2>5. OnSide(s, k, p)
    BY <1>1, <1>13, <2>3, <2>4, NodeFacts
  <2>6. s # R
    <3>1. SUFFICES ASSUME s = R PROVE FALSE
      OBVIOUS
    <3>2. p < k
      BY <1>3, <2>5, <3>1 DEF OnSide
    <3>3. p \in Nat /\ k \in Nat
      BY SMTT(60), <2>4, RbNumbers
    <3>4. QED
      BY <2>2, <3>2, <3>3
  <2>7. QED
    BY Zenon, <1>3, <2>3, <2>6
<1>15. c # 0 => t.up[c] = k /\ c \in P
  BY <1>1, <1>3, <1>4, <1>9, ChildFacts
<1>16. c # n
  <2>1. SUFFICES ASSUME c = n PROVE FALSE
    OBVIOUS
  <2>2. n # 0 /\ t.child[R][k] = n
    BY <1>2, <1>4, <2>1
  <2>3. U[n] \subseteq U[k] /\ k \notin U[n]
    BY <1>1, <1>3, <1>9, <2>2, UnderChild
  <2>4. QED
    BY <1>9, <2>3
<1>17. q # n /\ q \in RbNode /\ (q # 0 => q \in P /\ q \notin U[n])
  BY <1>1, <1>2, <1>4, ParentFacts, RbNumbers
<1>18. q # k
  BY <1>2, <1>9, <1>17
<1>19. l # k
  <2>1. l \notin U[r]
    <3>1. l \in U[l] /\ l \in RbKey
      BY SMTT(60), <1>1, <1>5, NodeFacts
    <3>2. OnSide(L, l, n)
      BY SMTT(60), <1>1, <1>3, <1>4, <3>1, NodeFacts
    <3>3. l \in U[r] => OnSide(R, l, n)
      BY <1>1, <1>3, <1>4, NodeFacts
    <3>4. n \in RbKey
      BY <1>2
    <3>5. QED
      BY <1>3, <3>1, <3>2, <3>3, <3>4, SideOrder, Sides
  <2>2. QED
    BY <1>7, <2>1
<1>20. Follows(P, n, k)
  <2>1. RbNext(t, n) = k
    BY ZenonT(60), <1>3, <1>4 DEF RbNext
  <2>2. Follows(P, n, RbNext(t, n))
    BY NextIs
  <2>3. QED
    BY SMTT(60), <2>1, <2>2
<1>21. Replaces(P \ {k}, n, k)
  <2>1. n < k /\ \A x \in P : x <= n \/ k <= x
    BY <1>2, <1>9, <1>20 DEF Follows
  <2>2. ASSUME NEW x \in P \ {k}, x # n PROVE (x < n <=> x < k) /\ (n < x <=> k < x)
    <3>1. x \in Nat /\ n \in Nat /\ k \in Nat /\ x # k
      BY <1>2, <1>9, <2>2, RbNumbers
    <3>2. x <= n \/ k <= x
      BY <2>1
    <3>3. QED
      BY <2>1, <2>2, <3>1, <3>2
  <2>3. QED
    BY <1>2, <1>9, <2>2 DEF Replaces
<1>22. QED
  BY <1>3, <1>5, <1>6, <1>7, <1>9, <1>11, <1>12, <1>13, <1>14, <1>15, <1>16, <1>17, <1>18, <1>19, <1>21
     DEF InnerNear

(* Taking k out and putting it in the place of n is what the assignments do.     *)
LEMMA InnerRename ==
    ASSUME NEW t, NEW P, NEW U, TreeOf(t, P, U), NEW n \in P, NEW k, NEW c, NEW p, NEW q, NEW l, NEW r,
           InnerAt(t, n, k, c, p, q, l, r), NEW d, d = SideIs(t.child, k, p),
           NEW v, IsSplice(v, t, k, c, p, d), NEW w, IsInner(w, t, n, k, c, p, q, l, r)
    PROVE  IsRename(w, v, P \ {k}, n, k)
<1>1. IsTree(t.root, t.child, t.up, P, U)
  BY DEF TreeOf
<1>2. P \in SUBSET RbKey /\ 0 \notin P /\ \A x \in RbKey \ P : \A u \in Side : t.child[u][x] = 0
  BY <1>1, RbNumbers DEF IsTree
<1>3. /\ Replaces(P \ {k}, n, k) /\ k \in P /\ k # n /\ t.child["left"][k] = 0
      /\ p \in P /\ p # k /\ p # 0
      /\ p = n => k = r
      /\ p # n => k # r /\ t.child["left"][p] = k
      /\ t.up[l] = n /\ t.up[r] = n /\ l # r /\ l # k /\ l \in P /\ r \in P
      /\ c # 0 => t.up[c] = k /\ c \in P
      /\ c # n /\ q # k /\ q # n /\ q \in RbNode
  <2>1. InnerNear(t, P, n, k, c, p, q, l, r)
    BY SMTT(60), InnerFacts
  <2>2. QED
    BY <2>1 DEF InnerNear
<1>4. /\ l = t.child["left"][n] /\ r = t.child["right"][n] /\ l # 0 /\ r # 0
      /\ c = t.child["right"][k] /\ q = t.up[n]
  BY ZenonT(60) DEF InnerAt
<1>5. PICK L, R : L = "left" /\ R = "right" /\ L \in Side /\ R \in Side /\ L # R
                  /\ \A u \in Side : u = L \/ u = R
  BY Sides
<1>6. d = IF p # n THEN L ELSE R
  BY <1>3, <1>4, <1>5 DEF SideIs
<1>7. /\ v.red = t.red \ {k} /\ v.root = t.root
      /\ \A u \in Side : \A x \in RbKey :
            v.child[u][x] = IF x = k THEN 0 ELSE IF x = p /\ u = d THEN c ELSE t.child[u][x]
      /\ \A x \in RbKey : v.up[x] = IF x = k THEN 0 ELSE IF x = c THEN p ELSE t.up[x]
  BY <1>3 DEF IsSplice
<1>8. /\ w \in Store /\ w.root = IF q = 0 THEN k ELSE t.root
      /\ w.red = (IF n \in t.red THEN t.red \cup {k} ELSE t.red \ {k}) \ {n}
      /\ \A x \in RbKey :
            w.up[x] = IF x = n THEN 0 ELSE IF x = l THEN k ELSE IF x = k THEN q
                      ELSE IF p # n /\ x = r THEN k ELSE IF p # n /\ x = c THEN p ELSE t.up[x]
  BY DEF IsInner
<1>9. \A u \in Side : \A x \in RbKey :
          w.child[u][x] = IF x = n THEN 0
                          ELSE IF x = k /\ u = L THEN l
                          ELSE IF p # n /\ x = k /\ u = R THEN r
                          ELSE IF p # n /\ x = p /\ u = L THEN c
                          ELSE IF x = q /\ u = SideIs(t.child, n, x) THEN k
                          ELSE t.child[u][x]
  BY <1>5 DEF IsInner
<1>10. n \in RbKey /\ k \in RbKey /\ n # 0
  BY <1>2, <1>3
<1>11. /\ q = 0 <=> n = t.root
       /\ q # 0 => t.child[SideIs(t.child, n, q)][q] = n /\ SideIs(t.child, n, q) \in Side
                   /\ t.child[Other(SideIs(t.child, n, q))][q] # n
  BY <1>1, <1>4, ParentFacts
<1>12. w.root = As(v.root, n, k)
  BY <1>7, <1>8, <1>11 DEF As
<1>13. w.red = Renamed(v.red, n, k)
  BY <1>3, <1>7, <1>8 DEF Renamed
<1>14. ASSUME NEW u \in Side, NEW x \in P \ {k}, x # n
       PROVE  w.child[u][x] = As(v.child[u][x], n, k)
  <2>1. PICK e : e = t.child[u][x]
    OBVIOUS
  <2>2. x \in RbKey /\ x # k
    BY <1>2, <1>14
  <2>3. e = n <=> (x = q /\ u = SideIs(t.child, n, x))
    <3>1. ASSUME e = n PROVE x = q /\ u = SideIs(t.child, n, x)
      <4>1. t.up[n] = x
        <5>1. t.child[u][x] # 0 => t.up[t.child[u][x]] = x
          BY <1>1, NodeFacts
        <5>2. QED
          BY <1>10, <2>1, <3>1, <5>1
      <4>2. x = q /\ q # 0
        BY <1>2, <1>4, <2>2, <4>1, RbNumbers
      <4>3. u = SideIs(t.child, n, q) \/ u = Other(SideIs(t.child, n, q))
        BY <1>11, <4>2, Sides
      <4>4. QED
        BY <1>11, <2>1, <3>1, <4>2, <4>3
    <3>2. ASSUME x = q, u = SideIs(t.child, n, x) PROVE e = n
      <4>1. q # 0
        BY <1>2, <2>2, <3>2, RbNumbers
      <4>2. QED
        BY <1>11, <2>1, <3>2, <4>1
    <3>3. QED
      BY <3>1, <3>2
  <2>4. w.child[u][x] = IF p # n /\ x = p /\ u = L THEN c
                        ELSE IF x = q /\ u = SideIs(t.child, n, x) THEN k ELSE e
    BY <1>9, <1>14, <2>1, <2>2
  <2>5. v.child[u][x] = IF p # n /\ x = p /\ u = L THEN c ELSE e
    BY <1>6, <1>7, <1>14, <2>1, <2>2
  <2>6. QED
    BY <1>3, <2>3, <2>4, <2>5 DEF As
<1>15. ASSUME NEW u \in Side PROVE w.child[u][k] = v.child[u][n]
  <2>1. v.child[u][n] = IF n = p /\ u = d THEN c ELSE t.child[u][n]
    BY <1>3, <1>7, <1>10
  <2>2. w.child[u][k] = IF u = L THEN l ELSE IF p # n THEN r ELSE t.child[u][k]
    BY <1>3, <1>5, <1>9, <1>10
  <2>3. CASE u = L
    BY <1>4, <1>5, <1>6, <2>1, <2>2, <2>3
  <2>4. CASE u = R
    BY <1>4, <1>5, <1>6, <2>1, <2>2, <2>4
  <2>5. QED
    BY <1>5, <2>3, <2>4
<1>16. ASSUME NEW x \in P \ {k}, x # n PROVE w.up[x] = As(v.up[x], n, k)
  <2>1. x \in RbKey /\ x # k /\ x # 0
    BY <1>2, <1>16
  <2>2. v.up[x] = IF x = c THEN p ELSE t.up[x]
    BY <1>7, <2>1
  <2>3. w.up[x] = IF x = l THEN k ELSE IF p # n /\ x = r THEN k
                  ELSE IF p # n /\ x = c THEN p ELSE t.up[x]
    BY <1>8, <1>16, <2>1
  <2>4. x = c => x # l /\ x # r /\ t.up[x] = k
    BY <1>3, <1>10, <2>1
  <2>5. x # l /\ x # r => t.up[x] # n
    <3>1. SUFFICES ASSUME x # l, x # r, t.up[x] = n PROVE FALSE
      OBVIOUS
    <3>2. t.child[SideIs(t.child, x, n)][n] = x /\ SideIs(t.child, x, n) \in Side
      BY <1>1, <1>10, <1>16, <3>1, ParentFacts
    <3>3. QED
      BY <1>4, <1>5, <3>1, <3>2
  <2>6. CASE x = c
    <3>1. p # n => p # n /\ As(p, n, k) = p
      BY DEF As
    <3>2. p = n => As(p, n, k) = k
      BY DEF As
    <3>3. QED
      BY <2>2, <2>3, <2>4, <2>6, <3>1, <3>2
  <2>7. CASE x # c /\ (x = l \/ x = r)
    <3>1. v.up[x] = n
      BY <1>3, <2>2, <2>7
    <3>2. w.up[x] = k
      BY <1>3, <2>1, <2>3, <2>7
    <3>3. QED
      BY <3>1, <3>2 DEF As
  <2>8. CASE x # c /\ x # l /\ x # r
    BY <2>2, <2>3, <2>5, <2>8 DEF As
  <2>9. QED
    BY <2>6, <2>7, <2>8
<1>17. w.up[k] = v.up[n]
  <2>1. w.up[k] = q
    BY <1>3, <1>8, <1>10
  <2>2. v.up[n] = q
    BY <1>3, <1>4, <1>7, <1>10
  <2>3. QED
    BY <2>1, <2>2
<1>18. ASSUME NEW u \in Side, NEW x \in RbKey, x \notin Renamed(P \ {k}, n, k) PROVE w.child[u][x] = 0
  <2>1. x = n \/ (x \notin P /\ x # k /\ x # n /\ x # p)
    BY <1>3, <1>18 DEF Renamed
  <2>2. CASE x = n
    BY <1>9, <2>2
  <2>3. CASE x \notin P /\ x # k /\ x # n /\ x # p
    <3>1. x # q
      BY <1>1, <1>2, <1>4, <2>3, ParentFacts, RbNumbers
    <3>2. QED
      BY <1>2, <1>9, <2>3, <3>1
  <2>4. QED
    BY <2>1, <2>2, <2>3
<1>19. QED
  BY <1>8, <1>12, <1>13, <1>14, <1>15, <1>16, <1>17, <1>18 DEF IsRename

LEMMA EraseInnerIs ==
    ASSUME Sound(tree, present), NEW n \in present, EraseInner(n),
           0 \notin {tree.child[s][n] : s \in Side}
    PROVE  Settles(tree', recolor', present \ {n})
<1> DEFINE k == Outermost(tree, tree.child["right"][n], "left")
           c == tree.child["right"][k]
           p == tree.up[k]
           q == tree.up[n]
           l == tree.child["left"][n]
           r == tree.child["right"][n]
           d == SideIs(tree.child, k, p)
<1>1. /\ tree' = InnerNext(tree, n, k)
      /\ recolor' = IF k \in tree.red THEN Idle
                    ELSE Recoloring("erase", c, IF tree.up[k] # n THEN tree.up[k] ELSE k)
  BY ZenonT(60) DEF EraseInner, InnerNext, Recoloring
<1>2. l # 0 /\ r # 0
  BY Sides
<1>3. InnerAt(tree, n, k, c, p, q, l, r) /\ c = tree.child["right"][k] /\ p = tree.up[k]
      /\ d = SideIs(tree.child, k, p) /\ q = tree.up[n] /\ l = tree.child["left"][n]
      /\ r = tree.child["right"][n]
  BY <1>2 DEF InnerAt
<1>4. recolor' = IF k \in tree.red THEN Idle ELSE Recoloring("erase", c, As(p, n, k))
  BY <1>1 DEF As
<1> HIDE DEF k, c, p, q, l, r, d
<1>5. PICK U, H : Colored(tree, present, U, H, 0, "left")
  BY DEF Sound
<1>6. tree \in Store /\ TreeOf(tree, present, U)
  BY <1>5 DEF Colored
<1>7. InnerNear(tree, present, n, k, c, p, q, l, r)
  BY <1>3, <1>6, InnerFacts
<1>8. /\ Replaces(present \ {k}, n, k) /\ k \in present /\ k # n /\ tree.child["left"][k] = 0
      /\ p \in present /\ (c # 0 => tree.up[c] = k) /\ c # n /\ p # k
  BY <1>7 DEF InnerNear
<1>9. /\ n \in RbKey /\ k \in RbKey /\ p \in RbKey /\ c \in RbNode
  <2>1. present \in SUBSET RbKey
    BY <1>6 DEF TreeOf, IsTree
  <2>2. c \in RbNode
    BY <1>3, <1>6, <1>8, <2>1, Sides DEF Store
  <2>3. QED
    BY <1>8, <2>1, <2>2
<1>10. EdgeOf(tree, k, c, p, d)
  BY <1>3, <1>8, Sides DEF EdgeOf
<1>11. c # k
  BY <1>6, <1>8, <1>10, EdgeFacts
<1>12. PICK v : v = Spliced(tree, k, c)
  OBVIOUS
<1>13. IsSplice(v, tree, k, c, p, d)
  BY <1>3, <1>6, <1>9, <1>11, <1>12, SplicedIs
<1>14. IF k \in tree.red THEN Sound(v, present \ {k}) ELSE Lacks(v, present \ {k}, c, p, d)
  BY <1>8, <1>10, <1>13, SpliceStep
<1>15. PICK w : w = InnerNext(tree, n, k)
  OBVIOUS
<1>16. IsInner(w, tree, n, k, c, p, q, l, r)
  BY <1>3, <1>6, <1>9, <1>15, InnerIs
<1>17. IsRename(w, v, present \ {k}, n, k)
  BY <1>3, <1>6, <1>13, <1>16, InnerRename
<1>18. Renamed(present \ {k}, n, k) = present \ {n}
  BY <1>8 DEF Renamed
<1>19. /\ Sound(v, present \ {k}) => Sound(w, present \ {n})
       /\ Lacks(v, present \ {k}, c, p, d) => Lacks(w, present \ {n}, c, As(p, n, k), d)
  <2>1. PICK Q, S : Q = present \ {k} /\ S = Renamed(Q, n, k) /\ S = present \ {n}
    BY <1>18
  <2>2. /\ Sound(v, Q) => Sound(w, Renamed(Q, n, k))
        /\ \A a, b, e : Lacks(v, Q, a, b, e) /\ a # n => Lacks(w, Renamed(Q, n, k), a, As(b, n, k), e)
    <3>1. Replaces(Q, n, k) /\ IsRename(w, v, Q, n, k)
      BY <1>8, <1>17, <2>1
    <3>2. QED
      BY <3>1, RenameStep
  <2>3. QED
    BY SMTT(60), <1>8, <2>1, <2>2
<1>20. CASE k \in tree.red
  BY <1>1, <1>4, <1>14, <1>15, <1>19, <1>20 DEF Settles
<1>21. CASE k \notin tree.red
  <2>1. Erasing(w, present \ {n}, c, As(p, n, k))
    BY <1>14, <1>19, <1>21, LacksErases
  <2>2. QED
    BY <1>1, <1>4, <1>15, <1>21, <2>1 DEF Settles
<1>22. QED
  BY SMTT(60), <1>20, <1>21

-----------------------------------------------------------------------------
(* begin is passed on to the next node when the first one is deleted.            *)
LEMMA BeginMoves ==
    ASSUME NEW P \in SUBSET RbKey, NEW b, IsFirst(P, b), NEW n \in P, NEW m, Follows(P, n, m)
    PROVE  IsFirst(P \ {n}, IF n = b THEN m ELSE b)
<1>1. \A x \in P : x \in Nat /\ x # 0
  BY RbNumbers
<1>2. b \in P /\ \A x \in P : b <= x
  BY DEF IsFirst
<1>3. CASE n = b
  <2>1. \A x \in P \ {n} : n < x
    BY <1>1, <1>2, <1>3
  <2>2. CASE P \ {n} = {}
    <3>1. m = 0
      BY <1>1, <2>2 DEF Follows
    <3>2. QED
      BY <1>3, <2>2, <3>1 DEF IsFirst
  <2>3. CASE P \ {n} # {}
    <3>1. m \in P /\ n < m /\ \A x \in P : x <= n \/ m <= x
      BY <1>1, <2>1, <2>3 DEF Follows
    <3>2. m \in P \ {n} /\ \A x \in P \ {n} : m <= x
      BY <1>1, <2>1, <3>1
    <3>3. QED
      BY <1>3, <3>2 DEF IsFirst
  <2>4. QED
    BY <2>2, <2>3
<1>4. CASE n # b
  BY <1>2, <1>4 DEF IsFirst
<1>5. QED
  BY <1>3, <1>4

(* Between operations, and while a deletion restores the colours, begin points *)
(* to the first node; an insertion sets it when it ends.                       *)
RbInv ==
    \/ Settles(tree, recolor, present) /\ IsFirst(present, rb_begin)
    \/ \E n : recolor = JustLinked(n) /\ Inserting(tree, present, n)

LEMMA RbIdle ==
    ASSUME RbInv, recolor = Idle
    PROVE  Sound(tree, present) /\ IsFirst(present, rb_begin)
<1>1. ASSUME NEW n PROVE recolor # JustLinked(n)
  BY DEF Idle, JustLinked
<1>2. ASSUME NEW n, NEW p PROVE recolor # Recoloring("erase", n, p)
  BY DEF Idle, Recoloring
<1>3. QED
  BY <1>1, <1>2 DEF RbInv, Settles

LEMMA RbErases ==
    ASSUME RbInv, recolor.op = "erase"
    PROVE  /\ IsFirst(present, rb_begin)
           /\ \E n, p : recolor = Recoloring("erase", n, p) /\ Erasing(tree, present, n, p)
<1>1. ASSUME NEW n PROVE recolor # JustLinked(n)
  BY DEF JustLinked
<1>2. recolor # Idle
  BY DEF Idle
<1>3. QED
  BY <1>1, <1>2 DEF RbInv, Settles

LEMMA RbLinks ==
    ASSUME RbInv, recolor.op = "insert"
    PROVE  \E n : recolor = JustLinked(n) /\ Inserting(tree, present, n)
<1>1. ASSUME NEW n, NEW p PROVE recolor # Recoloring("erase", n, p)
  BY DEF Recoloring
<1>2. recolor # Idle
  BY DEF Idle
<1>3. QED
  BY <1>1, <1>2 DEF RbInv, Settles

LEMMA RbStarts == RbInit => RbInv
<1> SUFFICES ASSUME RbInit PROVE RbInv
  OBVIOUS
<1>1. /\ tree = [root |-> 0, child |-> [s \in Side |-> [n \in RbKey |-> 0]],
                 up |-> [n \in RbKey |-> 0], red |-> {}]
      /\ rb_begin = 0 /\ recolor = Idle /\ present = {}
  BY DEF RbInit
<1>2. tree.root = 0 /\ tree.red = {} /\ tree.up = [n \in RbKey |-> 0]
      /\ tree.child = [s \in Side |-> [n \in RbKey |-> 0]]
  BY <1>1
<1>3. PICK U, H : U = [x \in RbNode |-> {}] /\ H = [x \in RbNode |-> 0]
  OBVIOUS
<1>4. IsTree(tree.root, tree.child, tree.up, {}, U)
  BY <1>2, <1>3, RbNumbers, Sides DEF IsTree
<1>5. tree \in Store
  BY <1>1, RbNumbers DEF Store
<1>6. Heights(tree.child, tree.red, {}, H, 0, "left")
  BY <1>3, RbNumbers DEF Heights
<1>7. Colored(tree, {}, U, H, 0, "left")
  BY <1>2, <1>4, <1>5, <1>6 DEF Colored, TreeOf
<1>8. Sound(tree, {})
  BY <1>2, <1>7 DEF Sound, Separate
<1>9. IsFirst({}, 0)
  BY DEF IsFirst
<1>10. QED
  BY <1>1, <1>8, <1>9 DEF RbInv, Settles

LEMMA DeleteKeeps ==
    ASSUME RbInv, NEW n \in RbKey, RbDelete(n)
    PROVE  RbInv'
<1>1. Sound(tree, present) /\ IsFirst(present, rb_begin)
  BY RbIdle DEF RbDelete
<1>2. PICK U, H : Colored(tree, present, U, H, 0, "left")
  BY <1>1 DEF Sound
<1>3. TreeOf(tree, present, U) /\ present \in SUBSET RbKey
  BY <1>2 DEF Colored, TreeOf, IsTree
<1>4. n \in present
  <2>1. Find(n) = n /\ n # 0
    BY RbNumbers DEF RbDelete
  <2>2. n \notin present => Find(n) = 0
    BY <1>3, PathIs
  <2>3. QED
    BY <2>1, <2>2
<1>5. /\ rb_begin' = IF n = rb_begin THEN RbNext(tree, n) ELSE rb_begin
      /\ present' = present \ {n}
      /\ IF 0 \in {tree.child[s][n] : s \in Side} THEN EraseOuter(n) ELSE EraseInner(n)
  BY DEF RbDelete
<1>6. Settles(tree', recolor', present \ {n})
  <2>1. CASE 0 \in {tree.child[s][n] : s \in Side}
    BY <1>1, <1>4, <1>5, <2>1, EraseOuterIs
  <2>2. CASE 0 \notin {tree.child[s][n] : s \in Side}
    BY <1>1, <1>4, <1>5, <2>2, EraseInnerIs
  <2>3. QED
    BY <2>1, <2>2
<1>7. IsFirst(present \ {n}, rb_begin')
  <2>1. PICK m : m = RbNext(tree, n)
    OBVIOUS
  <2>2. Follows(present, n, m)
    BY <1>3, <1>4, <2>1, NextIs
  <2>3. IsFirst(present \ {n}, IF n = rb_begin THEN m ELSE rb_begin)
    BY <1>1, <1>3, <1>4, <2>2, BeginMoves
  <2>4. QED
    BY <1>5, <2>1, <2>3
<1>8. QED
  BY <1>5, <1>6, <1>7 DEF RbInv

LEMMA RbStep == RbInv /\ [RbNextStep]_rbVars => RbInv'
<1> SUFFICES ASSUME RbInv, [RbNextStep]_rbVars PROVE RbInv'
  OBVIOUS
<1>1. ASSUME NEW k \in RbKey, RbInsert(k) PROVE RbInv'
  <2>1. Sound(tree, present)
    BY <1>1, RbIdle DEF RbInsert, Ready
  <2>2. recolor' = JustLinked(k) /\ Inserting(tree', present \cup {k}, k)
    BY <1>1, <2>1, RbInsertIs
  <2>3. present' = present \cup {k}
    BY <1>1 DEF RbInsert
  <2>4. QED
    BY <2>2, <2>3 DEF RbInv
<1>2. ASSUME NEW k \in RbKey, RbInsertAgain(k) PROVE RbInv'
  <2>1. recolor = Idle /\ rb_begin' = RbFirst(tree) /\ UNCHANGED <<tree, recolor, present>>
    BY <1>2 DEF RbInsertAgain, Ready
  <2>2. Sound(tree, present)
    BY <2>1, RbIdle
  <2>3. PICK U, H : Colored(tree, present, U, H, 0, "left")
    BY <2>2 DEF Sound
  <2>4. IsFirst(present, RbFirst(tree))
    BY <2>3, FirstIs DEF Colored
  <2>5. Settles(tree, recolor, present)
    BY <2>1, <2>2 DEF Settles
  <2>6. QED
    BY <2>1, <2>4, <2>5 DEF RbInv
<1>3. ASSUME NEW k \in RbKey, RbDelete(k) PROVE RbInv'
  BY <1>3, DeleteKeeps
<1>4. ASSUME InsertColor PROVE RbInv'
  <2>1. PICK n : recolor = JustLinked(n) /\ Inserting(tree, present, n)
    BY <1>4, RbLinks DEF InsertColor
  <2>2. \E m : recolor' = JustLinked(m) /\ Inserting(tree', present, m)
    BY <1>4, <2>1, InsertColorIs
  <2>3. present' = present
    BY <1>4 DEF InsertColor
  <2>4. QED
    BY <2>2, <2>3 DEF RbInv
<1>5. ASSUME InsertColorEnds PROVE RbInv'
  <2>1. PICK n : recolor = JustLinked(n) /\ Inserting(tree, present, n)
    BY <1>5, RbLinks DEF InsertColorEnds
  <2>2. recolor.node = n
    BY <2>1 DEF JustLinked
  <2>3. PICK v : v = tree'
    OBVIOUS
  <2>4. /\ v = SetBlack(tree, tree.root) /\ rb_begin' = RbFirst(v) /\ recolor' = Idle
        /\ present' = present /\ tree.up[n] \notin tree.red
    BY <1>5, <2>2, <2>3 DEF InsertColorEnds
  <2>5. Sound(v, present)
    BY <2>1, <2>4, InsertingEnds
  <2>6. PICK U, H : Colored(v, present, U, H, 0, "left")
    BY <2>5 DEF Sound
  <2>7. IsFirst(present, RbFirst(v))
    BY <2>6, FirstIs DEF Colored
  <2>8. QED
    BY <2>3, <2>4, <2>5, <2>7 DEF RbInv, Settles
<1>6. ASSUME EraseColor PROVE RbInv'
  <2>1. recolor.op = "erase" /\ UNCHANGED <<rb_begin, present>>
    BY Zenon, <1>6 DEF EraseColor
  <2>2. PICK n, p : recolor = Recoloring("erase", n, p) /\ Erasing(tree, present, n, p)
    BY <2>1, RbErases
  <2>3. \E m, q : recolor' = Recoloring("erase", m, q) /\ Erasing(tree', present, m, q)
    BY <1>6, <2>2, EraseColorIs
  <2>4. IsFirst(present, rb_begin)
    BY <2>1, RbErases
  <2>5. QED
    BY Zenon, <2>1, <2>3, <2>4 DEF RbInv, Settles
<1>7. ASSUME EraseColorEnds PROVE RbInv'
  <2>1. recolor.op = "erase" /\ UNCHANGED <<rb_begin, present>>
    BY <1>7 DEF EraseColorEnds
  <2>2. PICK n, p : recolor = Recoloring("erase", n, p) /\ Erasing(tree, present, n, p)
    BY <2>1, RbErases
  <2>3. recolor.node = n
    BY <2>2 DEF Recoloring
  <2>4. tree' = SetBlack(tree, n) /\ recolor' = Idle /\ (n \in tree.red \/ n = tree.root)
    BY <1>7, <2>3 DEF EraseColorEnds
  <2>5. Sound(SetBlack(tree, n), present)
    BY <2>2, <2>4, ErasingEnds
  <2>6. IsFirst(present, rb_begin)
    BY <2>1, RbErases
  <2>7. QED
    BY <2>1, <2>4, <2>5, <2>6 DEF RbInv, Settles
<1>8. ASSUME RbDestroy \/ UNCHANGED rbVars PROVE RbInv'
  <2>1. UNCHANGED <<tree, rb_begin, recolor, present>>
    BY <1>8 DEF RbDestroy, rbVars
  <2>2. QED
    BY <2>1 DEF RbInv
<1>9. QED
  BY <1>1, <1>2, <1>3, <1>4, <1>5, <1>6, <1>7, <1>8 DEF RbNextStep

LEMMA RbImplies == RbInv => RbTreeIsMap
<1> SUFFICES ASSUME RbInv, recolor = Idle
             PROVE  /\ {InOrder[i] : i \in DOMAIN InOrder} = present
                    /\ \A i \in 1..(Len(InOrder) - 1) : InOrder[i] < InOrder[i + 1]
                    /\ \A k \in RbKey : Find(k) = k <=> k \in present
                    /\ Balanced
  BY DEF RbTreeIsMap
<1>1. Sound(tree, present) /\ IsFirst(present, rb_begin)
  BY RbIdle
<1>2. PICK U, H : Colored(tree, present, U, H, 0, "left")
  BY <1>1 DEF Sound
<1>3. /\ TreeOf(tree, present, U) /\ tree.red \subseteq present
      /\ Heights(tree.child, tree.red, present, H, 0, "left")
  BY <1>2 DEF Colored
<1>4. ASSUME NEW k \in RbKey PROVE Find(k) = k <=> k \in present
  <2>1. k # 0
    BY RbNumbers
  <2>2. k \in present => Find(k) = k
    BY <1>3, PathIs
  <2>3. k \notin present => Find(k) = 0
    BY <1>3, PathIs
  <2>4. QED
    BY <2>1, <2>2, <2>3
<1>5. /\ {InOrder[i] : i \in DOMAIN InOrder} = present
      /\ \A i \in 1..(Len(InOrder) - 1) : InOrder[i] < InOrder[i + 1]
  BY <1>1, <1>3, InOrderIs
<1>6. Balanced
  <2>1. RedsApart(tree.up, tree.red, 0) /\ RootBlack(tree.root, tree.red, 0)
    BY <1>1 DEF Sound, Separate, RedsApart, RootBlack
  <2>2. QED
    BY <1>3, <2>1, BalancedIs
<1>7. QED
  BY <1>4, <1>5, <1>6

(* Whatever keys there are and however insertions, deletions and the destruction *)
(* follow each other, rbtree.c and rbtree_map keep between operations a balanced  *)
(* search tree of the keys inserted and not deleted, with begin at its first node. *)
THEOREM RbTreeCorrect == RbSpec => []RbTreeIsMap
<1>1. RbSpec => []RbInv
  BY RbStarts, RbStep, PTL DEF RbSpec
<1>2. QED
  BY <1>1, RbImplies, PTL
=============================================================================
