------------------------------- MODULE Deque -------------------------------
(***************************************************************************)
(* What a list promises those who use it: its items are in the order in    *)
(* which they were put in, from both ends and at any place, and an item is *)
(* in the list, held by who detached it, or free, never two of these.      *)
(***************************************************************************)
EXTENDS Naturals, Sequences

CONSTANTS Item,
          First (* stands for the place before all items                   *)

VARIABLES items, (* the items in the list, in order                        *)
          held,  (* the items that were detached and not freed             *)
          last   (* the operation that was last completed                  *)

vars == <<items, held, last>>

InList == {items[k] : k \in DOMAIN items}

Init == items = <<>> /\ held = {} /\ last = [op |-> "init"]

(* An item is put in place k + 1.                                            *)
Enter(x, k) ==
    /\ x \notin InList \cup held
    /\ items' = SubSeq(items, 1, k) \o <<x>> \o SubSeq(items, k + 1, Len(items))
    /\ UNCHANGED held

PushBack(x) ==
    /\ last' = [op |-> "push_back", node |-> x]
    /\ Enter(x, Len(items))

InsertAfter(x, y) ==
    /\ last' = [op |-> "insert", node |-> x, after |-> y]
    /\ \/ y = First /\ Enter(x, 0)
       \/ \E k \in DOMAIN items : items[k] = y /\ Enter(x, k)

Without(k) == SubSeq(items, 1, k - 1) \o SubSeq(items, k + 1, Len(items))

Place(op) ==
    CASE op \in {"detach_front"} -> {1} \cap DOMAIN items
      [] op \in {"detach_back", "pop_back"} -> {Len(items)} \cap DOMAIN items
      [] OTHER -> DOMAIN items

Detach(op) ==
    \E k \in Place(op) :
        /\ last' = [op |-> op, node |-> items[k]]
        /\ items' = Without(k)
        /\ held' = held \cup {items[k]}

Remove(op) ==
    \E k \in Place(op) :
        /\ last' = [op |-> op, node |-> items[k]]
        /\ items' = Without(k)
        /\ UNCHANGED held

Free(x) ==
    /\ last' = [op |-> "free", node |-> x]
    /\ x \in held
    /\ held' = held \ {x}
    /\ UNCHANGED items

(* Only an empty list has nothing to detach.                                 *)
FindEmpty ==
    /\ last' = [op |-> "empty"]
    /\ items = <<>>
    /\ UNCHANGED <<items, held>>

Clear ==
    /\ last' = [op |-> "destroy"]
    /\ items' = <<>>
    /\ UNCHANGED held

Next ==
    \/ \E x \in Item : \/ PushBack(x)
                       \/ \E y \in Item \cup {First} : InsertAfter(x, y)
                       \/ Free(x)
    \/ \E op \in {"detach_front", "detach_back", "detach"} : Detach(op)
    \/ \E op \in {"pop_back", "delete"} : Remove(op)
    \/ FindEmpty
    \/ Clear

Spec == Init /\ [][Next]_vars
=============================================================================
