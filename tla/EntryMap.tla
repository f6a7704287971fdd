------------------------------ MODULE EntryMap ------------------------------
(***************************************************************************)
(* What a map promises those who use it: the entries met by going through  *)
(* it are those that were put in and not taken out, each once and in an    *)
(* order that the others' coming and going leaves alone, and a search for  *)
(* a key finds the newest entry with that key.  Keys are compared as far   *)
(* as the key that is searched for goes: a search may find an entry whose  *)
(* key only begins with it.                                                *)
(***************************************************************************)
EXTENDS Naturals, Sequences

CONSTANTS Entry,
          Key,
          Begins,  (* Begins[k]: the keys that begin with k                  *)
          NotFound

VARIABLES entries, (* the entries, as they are met                           *)
          keys,    (* keys[e]: the key of an entry that is in, or NotFound   *)
          last     (* the operation that was last completed                  *)

vars == <<entries, keys, last>>

Empty == entries = <<>> /\ keys = [e \in Entry |-> NotFound]

Init == Empty /\ last = [op |-> "init"]

(* No entry up to the i-th has key k.                                        *)
NoneTo(i, k) == \A j \in 1..i : keys[entries[j]] # k

(* A new entry is met before those with its key.  The number of entries there *)
(* were is returned.                                                         *)
Insert(e, k) ==
    /\ last' = [op |-> "insert", key |-> k, entry |-> e, ret |-> Len(entries)]
    /\ keys[e] = NotFound
    /\ keys' = [keys EXCEPT ![e] = k]
    /\ \E i \in 0..Len(entries) :
          /\ NoneTo(i, k)
          /\ entries' = SubSeq(entries, 1, i) \o <<e>> \o SubSeq(entries, i + 1, Len(entries))

Delete(e) ==
    /\ last' = [op |-> "delete", entry |-> e]
    /\ keys' = [keys EXCEPT ![e] = NotFound]
    /\ \E i \in 1..Len(entries) :
          /\ entries[i] = e
          /\ entries' = SubSeq(entries, 1, i - 1) \o SubSeq(entries, i + 1, Len(entries))

Search(k) ==
    /\ \E i \in 1..Len(entries) :
          /\ last' = [op |-> "search", key |-> k, entry |-> entries[i]]
          /\ \/ keys[entries[i]] = k /\ NoneTo(i - 1, k)
             \/ keys[entries[i]] \in Begins[k] \ {k}
    /\ UNCHANGED <<entries, keys>>

SearchInVain(k) ==
    /\ last' = [op |-> "search", key |-> k, entry |-> NotFound]
    /\ NoneTo(Len(entries), k)
    /\ UNCHANGED <<entries, keys>>

Clear == last' = [op |-> "destroy"] /\ Empty'

Next ==
    \/ \E k \in Key : (\E e \in Entry : Insert(e, k)) \/ Search(k) \/ SearchInVain(k)
    \/ \E e \in Entry : Delete(e)
    \/ Clear

Spec == Init /\ [][Next]_vars
=============================================================================
