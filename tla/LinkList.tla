------------------------------ MODULE LinkList ------------------------------
(***************************************************************************)
(* The doubly linked list of libdata_structure/link_list: a ring of nodes  *)
(* around a head node, with begin, which must be kept at the first node or *)
(* at the head.                                                            *)
(*                                                                         *)
(* The operations lock the list, but some of them look at it before they   *)
(* do.  The list is used in one of two ways: by one thread, with all the   *)
(* operations but llist_pop_front, which nothing calls (it gives the       *)
(* address of begin itself to llist_delete); or by several threads, with   *)
(* those that the queues of concurrent.c use, and pushing to the front.    *)
(***************************************************************************)
EXTENDS Integers, Sequences, FiniteSets

CONSTANTS Node,       (* the addresses the allocator may give              *)
          HeadNode,   (* that of the head                                  *)
          ListThread, (* the threads that use the list                     *)
          Nowhere

Place == Node \cup {HeadNode}

ASSUME ListAssumption ==
    /\ IsFiniteSet(Node)
    /\ HeadNode \notin Node
    /\ Nowhere \notin Place
    /\ ListThread # {}

VARIABLES
    use,        (* "alone" or "shared"                                     *)
    next, prev, (* the links of the places; Nowhere in a node not linked   *)
    begin,      (* the place begin points to                               *)
    list_count,
    allocated,  (* the nodes that are allocated                            *)
    prepared,   (* prepared[t]: the node t allocated or is about to remove *)
    step,       (* step[t]: what t does with it                            *)
    last        (* history: the operation that was last completed          *)

links == <<next, prev, begin, list_count>>
listVars == <<use, links, allocated, prepared, step, last>>

ListInit ==
    /\ use \in {"alone", "shared"}
    /\ next = [x \in Place |-> IF x = HeadNode THEN HeadNode ELSE Nowhere]
    /\ prev = [x \in Place |-> IF x = HeadNode THEN HeadNode ELSE Nowhere]
    /\ begin = HeadNode
    /\ list_count = 0
    /\ allocated = {}
    /\ prepared = [t \in ListThread |-> Nowhere]
    /\ step = [t \in ListThread |-> "idle"]
    /\ last = [op |-> "init"]

MayUse(t) == use = "shared" \/ t = CHOOSE s \in ListThread : TRUE

Completed(t, l) ==
    /\ prepared' = [prepared EXCEPT ![t] = Nowhere]
    /\ step' = [step EXCEPT ![t] = "idle"]
    /\ last' = l

(* list_add and list_add_tail: between two neighbours.                       *)
Linked(n, before, after) ==
    /\ next' = [next EXCEPT ![n] = after, ![before] = n]
    /\ prev' = [prev EXCEPT ![n] = before, ![after] = n]

(* list_del, which poisons the links of the node.                            *)
Unlinked(n) ==
    /\ next' = [next EXCEPT ![prev[n]] = next[n], ![n] = Nowhere]
    /\ prev' = [prev EXCEPT ![next[n]] = prev[n], ![n] = Nowhere]
-----------------------------------------------------------------------------
(* Every insertion allocates its node before it takes the lock.              *)
Allocate(t, op) ==
    /\ MayUse(t)
    /\ step[t] = "idle"
    /\ use = "shared" => op # "insert"
    /\ \E n \in Node \ allocated :
          /\ allocated' = allocated \cup {n}
          /\ prepared' = [prepared EXCEPT ![t] = n]
    /\ step' = [step EXCEPT ![t] = op]
    /\ UNCHANGED <<use, links, last>>

PushBack(t) ==
    /\ step[t] = "push_back"
    /\ Linked(prepared[t], prev[HeadNode], HeadNode)
    /\ begin' = IF begin = HeadNode THEN next'[HeadNode] ELSE begin
    /\ list_count' = list_count + 1
    /\ Completed(t, [op |-> "push_back", node |-> prepared[t]])
    /\ UNCHANGED <<use, allocated>>

(* llist_insert, after a place; llist_push_front inserts after the head.      *)
InsertAfter(t, x) ==
    /\ Linked(prepared[t], x, next[x])
    /\ begin' = IF x = HeadNode THEN prepared[t] ELSE begin
    /\ list_count' = list_count + 1
    /\ Completed(t, [op |-> "insert", node |-> prepared[t], after |-> x])
    /\ UNCHANGED <<use, allocated>>

PushFront(t) == step[t] = "push_front" /\ InsertAfter(t, HeadNode)

Insert(t) ==
    /\ step[t] = "insert"
    /\ \E x \in Place : next[x] # Nowhere /\ InsertAfter(t, x)
-----------------------------------------------------------------------------
(* __llist_detach: begin is set after the node is unlinked.                  *)
DetachAt(t, op, x) ==
    /\ Unlinked(x)
    /\ begin' = IF x = begin THEN next'[HeadNode] ELSE begin
    /\ list_count' = list_count - 1
    /\ Completed(t, [op |-> op, node |-> x])
    /\ UNCHANGED <<use, allocated>>

DetachFront(t) ==
    /\ MayUse(t)
    /\ step[t] = "idle"
    /\ begin # HeadNode
    /\ DetachAt(t, "detach_front", begin)

DetachFrontOfEmpty(t) ==
    /\ MayUse(t)
    /\ step[t] = "idle"
    /\ begin = HeadNode
    /\ Completed(t, [op |-> "empty"])
    /\ UNCHANGED <<use, links, allocated>>

Detach(t) ==
    /\ use = "alone" /\ MayUse(t)
    /\ step[t] = "idle"
    /\ begin # HeadNode
    /\ \E x \in Node : next[x] # Nowhere /\ DetachAt(t, "detach", x)

(* llist_delete: begin is set before.                                        *)
DeleteAt(x) ==
    /\ begin' = IF x = begin THEN next[x] ELSE begin
    /\ Unlinked(x)
    /\ list_count' = list_count - 1
    /\ allocated' = allocated \ {x}

Delete(t) ==
    /\ use = "alone" /\ MayUse(t)
    /\ step[t] = "idle"
    /\ begin # HeadNode
    /\ \E x \in Node :
          /\ next[x] # Nowhere
          /\ DeleteAt(x)
          /\ Completed(t, [op |-> "delete", node |-> x])
    /\ UNCHANGED use

(* llist_pop_back and llist_detach_back find the node before they lock ...    *)
FindBack(t, op) ==
    /\ use = "alone" /\ MayUse(t)
    /\ step[t] = "idle"
    /\ begin # HeadNode
    /\ prepared' = [prepared EXCEPT ![t] = prev[HeadNode]]
    /\ step' = [step EXCEPT ![t] = op]
    /\ UNCHANGED <<use, links, allocated, last>>

(* Variant for mutation: begin stays at the node that was the only one.       *)
UnlinkBackOnly ==
    /\ Unlinked(prev[HeadNode])
    /\ list_count' = list_count - 1
    /\ UNCHANGED begin

(* ... and unlink whichever is the last one then.                             *)
UnlinkBack ==
    /\ Unlinked(prev[HeadNode])
    /\ list_count' = list_count - 1
    /\ begin' = IF list_count' = 0 THEN HeadNode ELSE begin

DetachBack(t) ==
    /\ step[t] = "detach_back"
    /\ UnlinkBack
    /\ Completed(t, [op |-> "detach_back", node |-> prepared[t]])
    /\ UNCHANGED <<use, allocated>>

PopBack(t) ==
    /\ step[t] = "pop_back"
    /\ UnlinkBack
    /\ allocated' = allocated \ {prepared[t]}
    /\ Completed(t, [op |-> "pop_back", node |-> prepared[t]])
    /\ UNCHANGED use

(* Who detached a node frees it.                                             *)
FreeDetached(t) ==
    /\ MayUse(t)
    /\ step[t] = "idle"
    /\ \E x \in allocated \ {prepared[s] : s \in ListThread} :
          /\ next[x] = Nowhere
          /\ allocated' = allocated \ {x}
          /\ Completed(t, [op |-> "free", node |-> x])
    /\ UNCHANGED <<use, links>>
-----------------------------------------------------------------------------
(* The nodes met from begin, as llist_for_each meets them.                    *)
Walk ==
    LET at[k \in 0..Cardinality(Node)] ==
            IF k = 0 THEN begin
            ELSE LET x == at[k - 1] IN IF x \in {HeadNode, Nowhere} THEN HeadNode ELSE next[x]
        Met == {k \in 0..Cardinality(Node) : at[k] # HeadNode}
    IN  [k \in 1..Cardinality(Met) |-> at[k - 1]]

(* llist_destroy deletes each node, holding its successor; the list is then   *)
(* set up again.                                                             *)
Destroy(t) ==
    /\ use = "alone" /\ MayUse(t)
    /\ step[t] = "idle"
    /\ allocated' = allocated \ {Walk[k] : k \in DOMAIN Walk}
    /\ next' = [x \in Place |-> IF x = HeadNode THEN HeadNode ELSE Nowhere]
    /\ prev' = next'
    /\ begin' = HeadNode
    /\ list_count' = 0
    /\ Completed(t, [op |-> "destroy"])
    /\ UNCHANGED use

ListNext ==
    \E t \in ListThread :
        \/ \E op \in {"push_back", "push_front", "insert"} : Allocate(t, op)
        \/ PushBack(t) \/ PushFront(t) \/ Insert(t)
        \/ DetachFront(t) \/ DetachFrontOfEmpty(t) \/ Detach(t) \/ Delete(t)
        \/ \E op \in {"detach_back", "pop_back"} : FindBack(t, op)
        \/ DetachBack(t) \/ PopBack(t)
        \/ FreeDetached(t)
        \/ Destroy(t)

ListSpec == ListInit /\ [][ListNext]_listVars
-----------------------------------------------------------------------------
InWalk == {Walk[k] : k \in DOMAIN Walk}

Ring == INSTANCE Deque WITH
            Item <- Node, First <- HeadNode, items <- Walk,
            held <- allocated \ (InWalk \cup {prepared[t] : t \in ListThread})

(* The list is a deque of its nodes, under every sequence of operations of one *)
(* thread, llist_pop_front excepted, and every interleaving of several threads *)
(* with those the queues of concurrent.c use and llist_push_front: begin,      *)
(* which is kept separately from the head and updated before the node is       *)
(* unlinked or after, and the links in both directions never disagree, and no  *)
(* node is linked that is not allocated, or left allocated by the list that is *)
(* not linked.                                                                 *)
ListIsDeque == Ring!Spec /\ [][InWalk' \subseteq allocated']_listVars
=============================================================================
