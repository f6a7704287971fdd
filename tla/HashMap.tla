------------------------------ MODULE HashMap ------------------------------
(***************************************************************************)
(* The hash map of libdata_structure/hash_map: singly walked chains, one   *)
(* for each bucket, and begin, which must be kept at the first entry of    *)
(* the first bucket that has one.                                          *)
(*                                                                         *)
(* An insertion first puts key and value in a pair that belongs to the     *)
(* map, and then makes an entry of what is in the pair: if several threads *)
(* insert, the pair may be another thread's by then.  Every thread may     *)
(* search and delete.                                                      *)
(***************************************************************************)
EXTENDS Integers, Sequences, FiniteSets

CONSTANTS MapNode,    (* the addresses the allocator may give an entry      *)
          MapKey,     (* keys                                              *)
          BeginsWith, (* BeginsWith[k]: the keys that begin with k, as well *)
          BucketSize,
          BucketOf,   (* what the hash function gives for a key            *)
          Inserter,   (* the threads that insert                           *)
          Null

Bucket == 0..(BucketSize - 1)

ASSUME MapAssumption ==
    /\ IsFiniteSet(MapNode)
    /\ BucketSize \in Nat \ {0}
    /\ BucketOf \in [MapKey -> Bucket]
    /\ BeginsWith \in [MapKey -> SUBSET MapKey]
    /\ \A k \in MapKey : k \in BeginsWith[k]
    /\ Null \notin MapNode \cup MapKey

VARIABLES
    pair,       (* the key in the pair of the map                          *)
    inserting,  (* inserting[t]: the key t has put in the pair, or Null    *)
    first,      (* first[i]: the first entry of bucket i                   *)
    hnext,      (* hnext[n]: the entry after n in its bucket               *)
    key_of,     (* key_of[n]: the key of an entry, Null if not allocated    *)
    map_begin,  (* the entry begin points to, and its bucket               *)
    node_count,
    done        (* history: the operation that was last completed          *)

mapVars == <<pair, inserting, first, hnext, key_of, map_begin, node_count, done>>

Pos(n, i) == [node |-> n, bucket |-> i]

Empty ==
    /\ first' = [i \in Bucket |-> Null]
    /\ hnext' = [n \in MapNode |-> Null]
    /\ key_of' = [n \in MapNode |-> Null]
    /\ map_begin' = Pos(Null, 0)
    /\ node_count' = 0

MapInit ==
    /\ pair = Null
    /\ inserting = [t \in Inserter |-> Null]
    /\ first = [i \in Bucket |-> Null]
    /\ hnext = [n \in MapNode |-> Null]
    /\ key_of = [n \in MapNode |-> Null]
    /\ map_begin = Pos(Null, 0)
    /\ node_count = 0
    /\ done = [op |-> "init"]

(* The entries of a chain from n on, as hlist_for_each_safe meets them.       *)
Chain(n) ==
    LET at[k \in 0..Cardinality(MapNode)] ==
            IF k = 0 THEN n ELSE LET m == at[k - 1] IN IF m = Null THEN Null ELSE hnext[m]
        Met == {k \in 0..Cardinality(MapNode) : at[k] # Null}
    IN  [k \in 1..Cardinality(Met) |-> at[k - 1]]

(* hash_map_pos_next: the next of the chain, or the first of the next bucket  *)
(* that is not empty.                                                        *)
PosNext(pos) ==
    LET after == {i \in Bucket : i > pos.bucket /\ first[i] # Null} IN
    IF hnext[pos.node] # Null THEN Pos(hnext[pos.node], pos.bucket)
    ELSE IF after = {} THEN Pos(Null, BucketSize - 1)
    ELSE LET i == CHOOSE i \in after : \A j \in after : i <= j IN Pos(first[i], i)
-----------------------------------------------------------------------------
(* hash_map_insert fills the pair under the lock, and lets go of it ...       *)
MakePair(t, k) ==
    /\ inserting[t] = Null
    /\ pair' = k
    /\ inserting' = [inserting EXCEPT ![t] = k]
    /\ UNCHANGED <<first, hnext, key_of, map_begin, node_count, done>>

(* Variant for mutation: begin stays if the bucket is its own.                *)
BeginIfBefore(n, i) ==
    IF map_begin.node = Null \/ i < map_begin.bucket THEN Pos(n, i) ELSE map_begin

(* ... and hash_map_insert_data copies it and links the copy at the head of    *)
(* the chain, under the lock again.                                          *)
BeginAfterInsert(n, i) ==
    IF map_begin.node = Null \/ i <= map_begin.bucket THEN Pos(n, i) ELSE map_begin

InsertData(t) ==
    /\ inserting[t] # Null
    /\ \E n \in MapNode :
          LET i == BucketOf[pair] IN
          /\ key_of[n] = Null
          /\ key_of' = [key_of EXCEPT ![n] = pair]
          /\ hnext' = [hnext EXCEPT ![n] = first[i]]
          /\ first' = [first EXCEPT ![i] = n]
          /\ map_begin' = BeginAfterInsert(n, i)
          /\ done' = [op |-> "insert", key |-> inserting[t], entry |-> n, ret |-> node_count]
    /\ node_count' = node_count + 1
    /\ inserting' = [inserting EXCEPT ![t] = Null]
    /\ UNCHANGED pair

(* The first entry of the chain that compares equal, as far as the key goes.  *)
MatchIn(chain, k) ==
    LET matching == {j \in DOMAIN chain : key_of[chain[j]] \in BeginsWith[k]} IN
    IF matching = {} THEN Null
    ELSE chain[CHOOSE j \in matching : \A l \in matching : j <= l]

MapSearch(k) ==
    /\ done' = [op |-> "search", key |-> k, entry |-> MatchIn(Chain(first[BucketOf[k]]), k)]
    /\ UNCHANGED <<pair, inserting, first, hnext, key_of, map_begin, node_count>>

(* hash_map_delete of a position: hlist_del changes what points to the entry. *)
BeginAfterDelete(pos) == IF pos.node = map_begin.node THEN PosNext(pos) ELSE map_begin

MapDelete(n) ==
    /\ key_of[n] # Null
    /\ map_begin' = BeginAfterDelete(Pos(n, BucketOf[key_of[n]]))
    /\ first' = [i \in Bucket |-> IF first[i] = n THEN hnext[n] ELSE first[i]]
    /\ hnext' = [m \in MapNode |-> IF m = n THEN Null
                                   ELSE IF hnext[m] = n THEN hnext[n] ELSE hnext[m]]
    /\ key_of' = [key_of EXCEPT ![n] = Null]
    /\ node_count' = node_count - 1
    /\ done' = [op |-> "delete", entry |-> n]
    /\ UNCHANGED <<pair, inserting>>

(* The entries met from begin to the end.                                    *)
Entries ==
    LET at[k \in 0..Cardinality(MapNode)] ==
            IF k = 0 THEN map_begin
            ELSE LET pos == at[k - 1] IN IF pos.node = Null THEN pos ELSE PosNext(pos)
        Met == {k \in 0..Cardinality(MapNode) : at[k].node # Null}
    IN  [k \in 1..Cardinality(Met) |-> at[k - 1].node]

(* hash_map_destroy deletes the entry at begin until there is none; the map    *)
(* may be set up again if that has freed all of them.                        *)
MapDestroy ==
    /\ \A t \in Inserter : inserting[t] = Null
    /\ \A n \in MapNode : key_of[n] # Null => \E k \in DOMAIN Entries : Entries[k] = n
    /\ Empty
    /\ done' = [op |-> "destroy"]
    /\ UNCHANGED <<pair, inserting>>

MapNext ==
    \/ \E t \in Inserter : (\E k \in MapKey : MakePair(t, k)) \/ InsertData(t)
    \/ \E k \in MapKey : MapSearch(k)
    \/ \E n \in MapNode : MapDelete(n)
    \/ MapDestroy

MapSpec == MapInit /\ [][MapNext]_mapVars
-----------------------------------------------------------------------------
ByKey == INSTANCE EntryMap WITH
             Entry <- MapNode, Key <- MapKey, Begins <- BeginsWith, NotFound <- Null,
             entries <- Entries, keys <- key_of, last <- done

(* Going through a hash map meets what was inserted and not deleted, all of it  *)
(* and once each, whatever was inserted and deleted before: begin, which is    *)
(* kept apart from the chains, never falls behind an entry or past one.  And a *)
(* search finds the newest entry of a key, if keys do not begin with others.   *)
HashMapIsMap == ByKey!Spec
=============================================================================
