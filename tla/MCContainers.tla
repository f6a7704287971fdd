---------------------------- MODULE MCContainers ----------------------------
(* Instances of the containers of libdata_structure, and of blobs, for the     *)
(* model checker.                                                            *)
(* They do not interact: one of them, chosen at the start, is used in each     *)
(* behaviour, and the others stay as they are.                               *)
EXTENDS LinkList, HashMap, RingBuffer, Vector, RbTree, MCBlob

CONSTANTS z, (* a key with a bucket of its own, beside a and ab, of which one *)
             (* begins with the other                                       *)
          small, large

VARIABLE subject

Subjects == {"list", "map", "ring", "vector", "tree", "blob"}

MCBeginsWith == [k \in MapKey |-> IF k = a THEN {a, ab} ELSE {k}]
MCBucketOf == [k \in MapKey |-> IF k = z THEN 2 ELSE 0]
MCLenOf == [m \in Message |-> IF m = small THEN 2 ELSE 5]

MCInit ==
    /\ subject \in Subjects
    /\ ListInit /\ MapInit /\ RingInit /\ VectorInit /\ RbInit /\ BlobInit
    /\ subject # "list" => use = "alone"

Unused(s) ==
    /\ s # "list" => UNCHANGED listVars
    /\ s # "map" => UNCHANGED mapVars
    /\ s # "ring" => UNCHANGED ringVars
    /\ s # "vector" => UNCHANGED vectorVars
    /\ s # "tree" => UNCHANGED rbVars
    /\ s # "blob" => UNCHANGED blobVars
    /\ UNCHANGED subject

MCNext ==
    \/ subject = "list" /\ ListNext /\ Unused("list")
    \/ subject = "map" /\ MapNext /\ Unused("map")
    \/ subject = "ring" /\ RingNext /\ Unused("ring")
    \/ subject = "vector" /\ VectorNext /\ Unused("vector")
    \/ subject = "tree" /\ RbNextStep /\ Unused("tree")
    \/ subject = "blob" /\ BlobNext /\ Unused("blob")

MCSpec == MCInit /\ [][MCNext]_<<subject, listVars, mapVars, ringVars, vectorVars, rbVars, blobVars>>
=============================================================================
