------------------------------ MODULE CtrAlloc ------------------------------
(***************************************************************************)
(* The slab allocator of src/src/liballoc/ctr_alloc, from which every      *)
(* other component takes its memory.                                       *)
(*                                                                         *)
(* Memory is carved from pools of MempoolCapacity bytes, front to back, in *)
(* slabs of SlabArrayMaxNum size classes, each behind a header.  A slab    *)
(* that is freed goes to the free list of its class and is never joined    *)
(* with its neighbours; what no class can hold is taken from malloc.       *)
(* allocator_mem_alloc and allocator_mem_free hold the allocator's lock    *)
(* for the whole of an operation, so that each is one step here.           *)
(***************************************************************************)
EXTENDS Integers, Sequences, FiniteSets

CONSTANTS SlabArrayMaxNum, (* number of size classes                       *)
          DataMinSize,     (* size of the smallest class                   *)
          MempoolCapacity, (* bytes of a pool; 0 for the default           *)
          SlabHeader,      (* sizeof(ctr_slab_t)                           *)
          Asked,           (* sizes the callers ask for                    *)
          MaxPools,        (* bound: pools created in a run                *)
          MaxHuge,         (* bound: blocks of malloc in use at a time     *)
          MaxCount         (* bound: alloc_count a failing malloc counts on *)

Class == 0..(SlabArrayMaxNum - 1)
ClassSize(i) == 2^i * DataMinSize

(* __init: the default capacity is twice the largest class.                  *)
Capacity == IF MempoolCapacity = 0 THEN 2^SlabArrayMaxNum * DataMinSize
                                   ELSE MempoolCapacity
MinDepth == DataMinSize + SlabHeader

ASSUME CtrAllocAssumption ==
    /\ SlabArrayMaxNum \in Nat \ {0}
    /\ DataMinSize \in Nat \ {0}
    /\ MempoolCapacity \in Nat
    /\ SlabHeader \in Nat \ {0}
    /\ Asked \subseteq Nat
    /\ MaxPools \in Nat \ {0}
    /\ MaxHuge \in Nat
    /\ MaxCount \in Nat

VARIABLES
    pools,       (* pools created so far: they are numbered 1..pools       *)
    depth,       (* depth[p]: bytes of pool p not yet carved               *)
    pool,        (* the pools with room; they are listed newest first, as  *)
                 (* a new one is put at the front and none is put back     *)
    empty_pool,  (* the pools put aside as full                            *)
    slab,        (* slab[a]: size and stat_flag of the slab carved at a    *)
    free_slabs,  (* free_slabs[i]: free slabs of class i, front first      *)
    used_slabs,  (* used_slabs[i]: slabs of class i in use                 *)
    used_huge,   (* blocks from malloc in use, by number, with their size  *)
    alloc_count, (* what the destructor reports as leaked                  *)
    fault,       (* "none", or what the allocator did to foreign memory    *)
    asked        (* history: asked[a]: what slab a was last handed out for *)

vars == <<pools, depth, pool, empty_pool, slab, free_slabs, used_slabs,
          used_huge, alloc_count, fault, asked>>

(* An address: byte offset of the slab's header in a pool.                   *)
Address == (1..MaxPools) \X Nat
Slab == [size : Nat, stat_flag : {0, 1}]

(* Variant for mutation: the remainder of the division is forgotten.          *)
IndexRoundsDown(n) ==
    IF \E i \in Class : n < 2 * ClassSize(i)
    THEN CHOOSE i \in Class : n < 2 * ClassSize(i) /\ \A j \in 0..(i - 1) : n >= 2 * ClassSize(j)
    ELSE -1

(* slab_get_slab_index: the least class that holds n bytes, -1 if none does. *)
Index(n) ==
    IF \E i \in Class : n <= ClassSize(i)
    THEN CHOOSE i \in Class : n <= ClassSize(i) /\ \A j \in 0..(i - 1) : n > ClassSize(j)
    ELSE -1

(* get_real_alloc_mem_size, and the slab with its header.                    *)
RealSize(n) == ClassSize(Index(n))
SlabSize(n) == RealSize(n) + SlabHeader

(* __init: one pool, all lists empty.                                        *)
Init ==
    /\ pools = 1
    /\ depth = [p \in 1..MaxPools |-> Capacity]
    /\ pool = {1}
    /\ empty_pool = {}
    /\ slab = [a \in {} |-> [size |-> 0, stat_flag |-> 0]]
    /\ free_slabs = [i \in Class |-> <<>>]
    /\ used_slabs = [i \in Class |-> {}]
    /\ used_huge = [h \in {} |-> 0]
    /\ alloc_count = 0
    /\ fault = "none"
    /\ asked = [a \in {} |-> 0]
-----------------------------------------------------------------------------
(* __alloc sends these to malloc.                                            *)
IsHuge(n) == n > Capacity \/ Index(n) < 0

(* alloc_huge_slab counts first, and does not take it back if malloc fails.  *)
AllocHuge(n, h) ==
    /\ IsHuge(n)
    /\ h \notin DOMAIN used_huge
    /\ alloc_count' = alloc_count + 1
    /\ used_huge' = [k \in DOMAIN used_huge \cup {h} |->
                        IF k = h THEN n ELSE used_huge[k]]
    /\ UNCHANGED <<pools, depth, pool, empty_pool, slab, free_slabs, used_slabs, fault, asked>>

AllocHugeFails(n) ==
    /\ IsHuge(n)
    /\ alloc_count < MaxCount
    /\ alloc_count' = alloc_count + 1
    /\ UNCHANGED <<pools, depth, pool, empty_pool, slab, free_slabs, used_slabs,
                   used_huge, fault, asked>>

(* alloc_normal_slab, a free slab of the class: the front of its list.       *)
AllocFree(n) ==
    /\ ~IsHuge(n)
    /\ LET i == Index(n) IN
       /\ free_slabs[i] # <<>>
       /\ LET a == Head(free_slabs[i]) IN
          /\ slab' = [slab EXCEPT ![a].stat_flag = 1]
          /\ asked' = [asked EXCEPT ![a] = n]
          /\ used_slabs' = [used_slabs EXCEPT ![i] = @ \cup {a}]
       /\ free_slabs' = [free_slabs EXCEPT ![i] = Tail(@)]
    /\ alloc_count' = alloc_count + 1
    /\ UNCHANGED <<pools, depth, pool, empty_pool, used_huge, fault>>

(* Variants for mutation: the header is forgotten; an exact fit is refused.   *)
FitsWithoutHeader(p, n) == depth[p] < 0 \/ depth[p] >= RealSize(n)
FitsIfLarger(p, n) == depth[p] < 0 \/ depth[p] > SlabSize(n)

(* The comparison is between unsigned numbers: a pool that was overdrawn      *)
(* seems to have room for everything.                                         *)
Fits(p, n) == depth[p] < 0 \/ depth[p] >= SlabSize(n)

(* mempool_find_appropriate_pool looks through the list up to the first pool  *)
(* with room, and puts aside those it passes that cannot hold any slab.       *)
Fitting(n) == {p \in pool : Fits(p, n)}
FirstFit(n) == CHOOSE p \in Fitting(n) : \A q \in Fitting(n) : q <= p
PassedOver(n) == {p \in pool : \A q \in Fitting(n) : q < p}
Full(n) == {p \in PassedOver(n) : depth[p] < MinDepth}

(* Variant for mutation: a full pool stays in the list.                       *)
StaysListed(n) == pool

Kept(n) == pool \ Full(n)

(* mempool_alloc_slab_list: the next bytes of the pool become a slab in use.  *)
CarveBytes(p, n, bytes) ==
    LET a == <<p, Capacity - depth[p]>> IN
    /\ slab' = [b \in DOMAIN slab \cup {a} |->
                  IF b = a THEN [size |-> RealSize(n), stat_flag |-> 1] ELSE slab[b]]
    /\ depth' = [depth EXCEPT ![p] = @ - bytes]
    /\ used_slabs' = [used_slabs EXCEPT ![Index(n)] = @ \cup {a}]
    /\ asked' = [b \in DOMAIN asked \cup {a} |-> IF b = a THEN n ELSE asked[b]]
    /\ alloc_count' = alloc_count + 1

(* Variant for mutation: the depth is not lowered by the header.              *)
CarveWithoutHeader(p, n) == CarveBytes(p, n, RealSize(n))

Carve(p, n) == CarveBytes(p, n, SlabSize(n))

NoFreeSlab(n) == ~IsHuge(n) /\ free_slabs[Index(n)] = <<>>

CarveFromPool(n) ==
    /\ NoFreeSlab(n)
    /\ Fitting(n) # {}
    /\ Carve(FirstFit(n), n)
    /\ pool' = Kept(n)
    /\ empty_pool' = empty_pool \cup Full(n)
    /\ UNCHANGED <<pools, free_slabs, used_huge, fault>>

CarveFromNewPool(n) ==
    /\ NoFreeSlab(n)
    /\ Fitting(n) = {}
    /\ pools < MaxPools
    /\ pools' = pools + 1
    /\ Carve(pools + 1, n)
    /\ pool' = Kept(n) \cup {pools + 1}
    /\ empty_pool' = empty_pool \cup Full(n)
    /\ UNCHANGED <<free_slabs, used_huge, fault>>

(* malloc has no memory for a pool: NULL, but the full pools are put aside.   *)
NewPoolFails(n) ==
    /\ NoFreeSlab(n)
    /\ Fitting(n) = {}
    /\ pool' = Kept(n)
    /\ empty_pool' = empty_pool \cup Full(n)
    /\ UNCHANGED <<pools, depth, slab, free_slabs, used_slabs, used_huge,
                   alloc_count, fault, asked>>
-----------------------------------------------------------------------------
(* Variant for mutation: the flag of a released slab is not consulted.        *)
ReleasedIgnored(a) == FALSE

Released(a) == slab[a].stat_flag = 0

(* Variant for mutation: the slab is listed under the next class.             *)
FreeClassNext(a) == IF Index(slab[a].size) + 1 \in Class THEN Index(slab[a].size) + 1
                    ELSE Index(slab[a].size)

FreeClass(a) == Index(slab[a].size)

(* __free of an address of a pool.  It is ignored if it has been released;    *)
(* and, unlike in __alloc, a slab of just the capacity is taken for a block   *)
(* of malloc.                                                                 *)
Free(a) ==
    /\ a \in DOMAIN slab
    /\ ~Released(a)
    /\ IF slab[a].size >= Capacity \/ Index(slab[a].size) < 0
       THEN /\ fault' = "slab given to free"
            /\ used_slabs' = [i \in Class |-> used_slabs[i] \ {a}]
            /\ UNCHANGED <<slab, free_slabs>>
       ELSE /\ used_slabs' = [used_slabs EXCEPT ![FreeClass(a)] = @ \ {a}]
            /\ free_slabs' = [free_slabs EXCEPT ![FreeClass(a)] = <<a>> \o @]
            /\ slab' = [slab EXCEPT ![a].stat_flag = 0]
            /\ UNCHANGED fault
    /\ alloc_count' = alloc_count - 1
    /\ UNCHANGED <<pools, depth, pool, empty_pool, used_huge, asked>>

(* __free of a block of malloc: its size is again over the largest class.     *)
FreeHuge(h) ==
    /\ h \in DOMAIN used_huge
    /\ used_huge' = [k \in DOMAIN used_huge \ {h} |-> used_huge[k]]
    /\ alloc_count' = alloc_count - 1
    /\ UNCHANGED <<pools, depth, pool, empty_pool, slab, free_slabs, used_slabs, fault, asked>>

Next ==
    \/ \E n \in Asked :
          \/ \E h \in 1..MaxHuge : AllocHuge(n, h)
          \/ AllocHugeFails(n)
          \/ AllocFree(n)
          \/ CarveFromPool(n)
          \/ CarveFromNewPool(n)
          \/ NewPoolFails(n)
    \/ \E a \in DOMAIN slab : Free(a)
    \/ \E h \in 1..MaxHuge : FreeHuge(h)

Spec == Init /\ [][Next]_vars
-----------------------------------------------------------------------------
InUse == UNION {used_slabs[i] : i \in Class}
FreeListed == UNION {{free_slabs[i][k] : k \in DOMAIN free_slabs[i]} : i \in Class}

(* Every variable has its type; alloc_count, which is unsigned, is never      *)
(* taken below zero, whatever is freed twice.                                 *)
TypeOK ==
    /\ pools \in 1..MaxPools
    /\ depth \in [1..MaxPools -> Int]
    /\ pool \subseteq 1..pools
    /\ empty_pool \subseteq 1..pools
    /\ DOMAIN slab \subseteq Address
    /\ \A a \in DOMAIN slab : slab[a] \in Slab
    /\ free_slabs \in [Class -> Seq(DOMAIN slab)]
    /\ used_slabs \in [Class -> SUBSET DOMAIN slab]
    /\ DOMAIN used_huge \subseteq 1..MaxHuge
    /\ \A h \in DOMAIN used_huge : used_huge[h] \in Nat
    /\ alloc_count \in Nat
    /\ fault \in {"none", "slab given to free"}
    /\ DOMAIN asked = DOMAIN slab
    /\ \A a \in DOMAIN asked : asked[a] \in Asked

SlabEnd(a) == a[2] + slab[a].size + SlabHeader

(* No slab, header included, reaches into another or beyond the end of its    *)
(* pool: what one caller writes never changes what another one reads.         *)
SlabsApart ==
    \A a \in DOMAIN slab :
        /\ SlabEnd(a) <= Capacity
        /\ \A b \in DOMAIN slab : a # b /\ a[1] = b[1] =>
              SlabEnd(a) <= b[2] \/ SlabEnd(b) <= a[2]

(* No pool is ever drawn below zero, as the warning at the end of             *)
(* mempool_alloc_slab_list expects: a new pool has room for its first slab.   *)
DepthNotNegative == \A p \in 1..MaxPools : depth[p] >= 0

(* What makes it inductive: the pools created are numbered in order and the   *)
(* others untouched, and the slabs of a pool end where its depth begins.      *)
PoolsTyped ==
    /\ pools \in 1..MaxPools
    /\ pool \subseteq 1..pools
    /\ depth \in [1..MaxPools -> Int]
    /\ \A p \in 1..MaxPools : depth[p] <= Capacity /\ (p > pools => depth[p] = Capacity)

SlabsBelowDepth ==
    \A a \in DOMAIN slab :
        /\ a \in (1..pools) \X Nat
        /\ slab[a] \in Slab
        /\ SlabEnd(a) <= Capacity - depth[a[1]]

AllocInv == PoolsTyped /\ DepthNotNegative /\ SlabsBelowDepth /\ SlabsApart

NoGaps ==
    \A p \in 1..MaxPools :
        LET carved == {a \in DOMAIN slab : a[1] = p}
        IN  {SlabEnd(a) : a \in carved} \cup {0}
                = {a[2] : a \in carved} \cup {Capacity - depth[p]}

SlabsListedOnce ==
    \A i \in Class, a \in DOMAIN slab :
        LET places == {k \in DOMAIN free_slabs[i] : free_slabs[i][k] = a}
            mine   == i = Index(slab[a].size)
        IN  /\ a \in used_slabs[i] <=> mine /\ slab[a].stat_flag = 1
            /\ Cardinality(places) = IF mine /\ slab[a].stat_flag = 0 THEN 1 ELSE 0

PoolsListedOnce == pool \cup empty_pool = 1..pools /\ pool \cap empty_pool = {}

(* No memory is lost or counted twice: the slabs of a pool lie back to back    *)
(* from its start to what depth says is left; a slab is in used_slabs while    *)
(* its flag is set, else once in the list of its class in free_slabs, so that  *)
(* a second free cannot put it there twice; and a pool is in just one of the   *)
(* two lists that __destroy walks.                                           *)
NothingLost == NoGaps /\ SlabsListedOnce /\ PoolsListedOnce

(* The destructor reports a leak whenever something was not given back.       *)
LeakReported == alloc_count >= Cardinality(InUse) + Cardinality(DOMAIN used_huge)

(* A pool is created only when no pool, put aside or not, has room for the    *)
(* slab it is created for.                                                    *)
NewPoolOnlyIfFull ==
    [][\A a \in DOMAIN slab' \ DOMAIN slab :
         a[1] > pools => \A p \in 1..pools : depth[p] < slab'[a].size + SlabHeader]_vars

(* The allocator hands out blocks that are large enough and apart: slabs are  *)
(* blocks of their pool, headers included, and each block of malloc is an     *)
(* area of its own.                                                           *)
Blocks == INSTANCE MemBlocks WITH
    Area  <- (1..MaxPools) \cup {-h : h \in 1..MaxHuge},
    Asked <- Asked,
    inUse <- {[area |-> a[1], first |-> a[2] + SlabHeader, last |-> SlabEnd(a),
               asked |-> asked[a]] : a \in InUse}
             \cup {[area |-> -h, first |-> 0, last |-> used_huge[h],
                    asked |-> used_huge[h]] : h \in DOMAIN used_huge}

BlocksSpec == Blocks!Spec
=============================================================================
