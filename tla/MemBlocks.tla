----------------------------- MODULE MemBlocks -----------------------------
(***************************************************************************)
(* What an allocator promises its callers: a block it hands out is at      *)
(* least as large as what was asked for and overlaps no block that is in   *)
(* use, and a block stops being in use when it is given back.              *)
(***************************************************************************)
EXTENDS Naturals

CONSTANTS Area, (* separate areas of memory                                *)
          Asked (* sizes that are asked for                                *)

VARIABLE inUse (* blocks: bytes first..last-1 of an area, and what for     *)

Block == [area : Area, first : Nat, last : Nat, asked : Asked]

Apart(b, c) == b.area # c.area \/ b.last <= c.first \/ c.last <= b.first

Init == inUse = {}

Get(b) ==
    /\ b \in Block
    /\ b.last >= b.first + b.asked
    /\ \A c \in inUse : Apart(b, c)
    /\ inUse' = inUse \cup {b}

GiveBack(b) == inUse' = inUse \ {b}

Next ==
    \/ \E b \in inUse' \ inUse : Get(b)
    \/ \E b \in inUse : GiveBack(b)

Spec == Init /\ [][Next]_inUse
=============================================================================
