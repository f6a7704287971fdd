------------------------------- MODULE Vector -------------------------------
(***************************************************************************)
(* The vector of libdata_structure/vector: elements in a block of memory   *)
(* that is replaced by one of twice its size when an element is pushed     *)
(* and it is full.  Each operation reads begin, end, block and capacity    *)
(* before it takes the lock: the vector is used by one thread.             *)
(***************************************************************************)
EXTENDS Integers, Sequences

CONSTANTS Element,
          FirstCapacity, (* the capacity it is set up with                  *)
          MaxCapacity,   (* bound: of blocks the allocator gives            *)
          Garbage

ASSUME VectorAssumption ==
    /\ FirstCapacity \in Nat \ {0}
    /\ MaxCapacity \in Nat
    /\ Garbage \notin Element

VARIABLES block,      (* block[i]: the i-th element of the block           *)
          capacity,
          end,        (* the index after the last element                  *)
          overrun,    (* something was written past the block              *)
          outcome     (* history: the last operation                       *)

vectorVars == <<block, capacity, end, overrun, outcome>>

VectorInit ==
    /\ capacity = FirstCapacity
    /\ block = [i \in 0..(capacity - 1) |-> Garbage]
    /\ end = 0
    /\ overrun = FALSE
    /\ outcome = [op |-> "init"]

Written(b, i, v) == [b EXCEPT ![i] = v]

PushInPlace(v) ==
    /\ end < capacity
    /\ block' = Written(block, end, v)
    /\ UNCHANGED capacity

(* Variant for mutation: the elements are not copied.                         *)
NotCopied(b) == [i \in 0..(2 * capacity - 1) |-> Garbage]

(* What the new block holds after the old one's elements is not set.          *)
Grown(b) == [i \in 0..(2 * capacity - 1) |-> IF i < capacity THEN b[i] ELSE Garbage]

PushInNewBlock(v) ==
    /\ end >= capacity
    /\ 2 * capacity <= MaxCapacity
    /\ capacity' = 2 * capacity
    /\ block' = Written(Grown(block), end, v)

VectorPushBack(v) ==
    /\ ~overrun
    /\ PushInPlace(v) \/ PushInNewBlock(v)
    /\ end' = end + 1
    /\ outcome' = [op |-> "push", value |-> v]
    /\ UNCHANGED overrun

VectorPopBack ==
    /\ ~overrun
    /\ end' = IF end # 0 THEN end - 1 ELSE end
    /\ outcome' = [op |-> "pop"]
    /\ UNCHANGED <<block, capacity, overrun>>

(* vector_copy moves count elements by one place, in the order that reads each *)
(* before it is overwritten.                                                 *)
Moved(b, to, from, count) ==
    [i \in DOMAIN b |->
        IF i \in to..(to + count - 1)
        THEN IF i - to + from \in DOMAIN b THEN b[i - to + from] ELSE Garbage
        ELSE b[i]]

(* vector_insert does not look at the capacity.                              *)
VectorInsert(k, v) ==
    /\ ~overrun
    /\ k <= end
    /\ \/ /\ end < capacity
          /\ block' = Written(Moved(block, k + 1, k, end - k), k, v)
          /\ end' = end + 1
          /\ UNCHANGED overrun
       \/ /\ end >= capacity
          /\ overrun' = TRUE
          /\ UNCHANGED <<block, end>>
    /\ outcome' = [op |-> "insert", at |-> k, value |-> v]
    /\ UNCHANGED capacity

(* vector_delete refuses the end and an element that is the only one; it moves *)
(* one element more than there are.                                          *)
VectorDelete(k) ==
    /\ ~overrun
    /\ k <= end
    /\ IF k = end \/ (k = 0 /\ end = 1)
       THEN UNCHANGED <<block, end>>
       ELSE /\ block' = Moved(block, k, k + 1, end - k)
            /\ end' = end - 1
    /\ outcome' = [op |-> "delete", at |-> k]
    /\ UNCHANGED <<capacity, overrun>>

(* vector_set does not look at it either, and makes an element it sets after   *)
(* the end the end.                                                          *)
VectorSet(k, v) ==
    /\ ~overrun
    /\ k <= capacity
    /\ \/ /\ k < capacity
          /\ block' = Written(block, k, v)
          /\ end' = IF k > end THEN k ELSE end
          /\ UNCHANGED overrun
       \/ /\ k = capacity
          /\ overrun' = TRUE
          /\ UNCHANGED <<block, end>>
    /\ outcome' = [op |-> "set", at |-> k, value |-> v]
    /\ UNCHANGED capacity

VectorNext ==
    \/ \E v \in Element : VectorPushBack(v)
    \/ VectorPopBack
    \/ \E k \in 0..MaxCapacity : VectorDelete(k)
    \/ \E k \in 0..MaxCapacity, v \in Element : VectorInsert(k, v) \/ VectorSet(k, v)

VectorSpec == VectorInit /\ [][VectorNext]_vectorVars
-----------------------------------------------------------------------------
(* The elements in order, as vector_for_each meets them.                      *)
VectorElements == [i \in 1..end |-> block[i - 1]]

After(op, items) ==
    LET n == Len(items) IN
    CASE op.op = "init" -> {items}
      [] op.op = "push" -> {Append(items, op.value)}
      [] op.op = "pop" -> {SubSeq(items, 1, n - 1)}
      [] op.op = "insert" ->
            {SubSeq(items, 1, op.at) \o <<op.value>> \o SubSeq(items, op.at + 1, n)}
      [] op.op = "delete" ->
            IF n = 1 THEN {items}
            ELSE {SubSeq(items, 1, op.at) \o SubSeq(items, op.at + 2, n)}
      [] op.op = "set" /\ op.at < n -> {[items EXCEPT ![op.at + 1] = op.value]}
      [] OTHER -> {items \o more : more \in [1..(op.at - n) -> Element \cup {Garbage}]}

(* A vector is a sequence: an element keeps its place and its value through    *)
(* every move within the block and into a larger one, until it is overwritten  *)
(* or removed, and what was never set is not among the elements unless an      *)
(* element was set after the end.  The block is overrun only when it is full   *)
(* and something is inserted, or set just after it.                           *)
VectorIsSequence ==
    [][/\ ~overrun' => VectorElements' \in After(outcome', VectorElements)
       /\ overrun' => outcome'.op \in {"insert", "set"} /\ outcome'.at <= capacity
                        /\ (end = capacity \/ outcome'.at = capacity)]_vectorVars
=============================================================================
