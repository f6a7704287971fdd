-------------------------- MODULE ContainerProofs --------------------------
(***************************************************************************)
(* Proofs about the linear containers of libdata_structure, blobs, and the *)
(* allocator they take their memory from.                                  *)
(*                                                                         *)
(* Blob: the tables nest, what is read is the document that was composed,  *)
(* and the lookup finds a table's own item, for any names, values, buffer, *)
(* stack and depth.                                                        *)
(* Vector, RingBuffer, LinkList: each implements what it promises (a       *)
(* sequence, a queue of messages, a deque), for any elements, messages,    *)
(* nodes, threads and lengths.                                             *)
(* CtrAlloc: slabs, pools and what it promises, for any classes, sizes,    *)
(* header and number of pools.                                             *)
(***************************************************************************)
EXTENDS Vector, RingBuffer, LinkList, BlobReader, CtrAlloc, SequenceFacts, FiniteSetTheorems, TLAPS

(* What the proofs use of the assumptions on the constants.                   *)
LEMMA Bounds ==
    /\ BlobLen \in Nat /\ BlobLen < 65536
    /\ MaxDepth \in Nat /\ Step \in Nat /\ StackLen \in Nat
    /\ MaxDepth * Step < StackLen
BY BlobAssumption DEF BlobAssumption, Width

LEMMA Inputs ==
    /\ \A n \in Name : NameLen[n] \in Nat /\ FixedLen + NameLen[n] + 1 < 256
    /\ \A s \in String : s \in Seq(Byte)
    /\ \A b \in Buffer : b \in Seq(Byte)
<1>1. \A s \in String : s \in Seq(Byte)
  <2> SUFFICES ASSUME NEW s \in String PROVE s \in Seq(Byte)
    OBVIOUS
  <2>1. s \in Seq(Byte \ {0})
    BY BlobAssumption DEF BlobAssumption
  <2>2. QED
    BY <2>1
<1>2. QED
  BY <1>1, BlobAssumption DEF BlobAssumption

Fields == {"type", "len", "name_len", "name", "value"}

BlobTyped ==
    /\ tail \in 0..BlobLen
    /\ tbl_stack \in Seq(DOMAIN attr)
    /\ nesting \in 0..MaxDepth
    /\ \A o \in DOMAIN attr :
         /\ o \in Nat
         /\ DOMAIN attr[o] = Fields
         /\ attr[o].len \in Nat \ {0}

BlobInv == BlobTyped /\ TablesPaired /\ ExtentsNest

(* As long as the callers keep to their depth, the stack takes an address.    *)
LEMMA StackTakes ==
    ASSUME NEW k \in Nat, k < MaxDepth
    PROVE  (k + 1) * Step < StackLen
<1>1. PICK d \in Nat : MaxDepth = (k + 1) + d
  <2>1. MaxDepth - (k + 1) \in Nat /\ MaxDepth = (k + 1) + (MaxDepth - (k + 1))
    BY Bounds
  <2>2. QED
    BY <2>1
<1>2. MaxDepth * Step = (k + 1) * Step + d * Step
  BY <1>1, Bounds
<1>3. d * Step \in Nat /\ (k + 1) * Step \in Nat
  BY <1>1, Bounds
<1>4. QED
  BY <1>2, <1>3, Bounds

(* An attribute that has room has the length of its parts.                   *)
LEMMA AddedAttr ==
    ASSUME BlobInv, NEW type, NEW n \in Name, NEW bytes, Len(bytes) \in Nat,
           Add(type, n, bytes)
    PROVE  /\ DOMAIN attr' = DOMAIN attr \cup {tail}
           /\ tail \notin DOMAIN attr
           /\ \A o \in DOMAIN attr : attr'[o] = attr[o] /\ o < tail
           /\ DOMAIN attr'[tail] = Fields
           /\ attr'[tail].type = type
           /\ attr'[tail].len \in Nat \ {0}
           /\ tail' = tail + attr'[tail].len
           /\ tail' \in 0..BlobLen
           /\ \A p \in DOMAIN attr' \ DOMAIN attr : p = tail /\ End(p)' = tail'
<1>1. PrefixLen(n) \in Nat \ {0}
  BY Inputs DEF PrefixLen, FixedLen
<1>2. AttrLen(n, bytes) = PrefixLen(n) + Len(bytes)
  <2>1. PrefixLen(n) + Len(bytes) <= BlobLen
    BY <1>1, Bounds DEF Add, HasRoom, BlobInv, BlobTyped
  <2>2. QED
    BY <1>1, <2>1, Bounds DEF AttrLen, Width
<1>3. \A o \in DOMAIN attr : o < tail
  BY SMTT(60) DEF BlobInv, BlobTyped, ExtentsNest, End
<1>4. attr' = WithAttr(tail, Attr(type, n, bytes)) /\ tail' = tail + AttrLen(n, bytes)
  BY DEF Add
<1>5. tail \notin DOMAIN attr
  BY <1>3 DEF BlobInv, BlobTyped
<1>6. attr'[tail] = Attr(type, n, bytes)
  BY <1>4 DEF WithAttr
<1>7. DOMAIN attr' = DOMAIN attr \cup {tail} /\ \A o \in DOMAIN attr : attr'[o] = attr[o]
  BY <1>4, <1>5 DEF WithAttr
<1>8. DOMAIN attr'[tail] = Fields /\ attr'[tail].type = type /\ attr'[tail].len = AttrLen(n, bytes)
  BY <1>6 DEF Attr, Fields
<1>9. tail + AttrLen(n, bytes) <= BlobLen /\ AttrLen(n, bytes) \in Nat \ {0}
  BY <1>1, <1>2 DEF Add, HasRoom
<1>10. tail' \in 0..BlobLen
  BY <1>4, <1>9, Bounds DEF BlobInv, BlobTyped
<1>11. \A p \in DOMAIN attr' \ DOMAIN attr : p = tail /\ End(p)' = tail'
  BY <1>4, <1>7, <1>8 DEF End
<1>12. QED
  BY <1>3, <1>4, <1>5, <1>7, <1>8, <1>9, <1>10, <1>11

(* Attributes that follow each other at the tail lie apart from the others.   *)
LEMMA AppendedNest ==
    ASSUME BlobInv, BlobTyped',
           DOMAIN attr \subseteq DOMAIN attr',
           \A o \in DOMAIN attr : attr'[o] = attr[o],
           \A p \in DOMAIN attr' \ DOMAIN attr : p >= tail /\ End(p)' <= tail',
           \A o, p \in DOMAIN attr' \ DOMAIN attr :
              o < p => End(o)' <= p \/ End(p)' <= End(o)',
           tail' >= tail,
           \A k \in 1..Len(tbl_stack') :
              \/ k \in 1..Len(tbl_stack) /\ tbl_stack'[k] = tbl_stack[k]
              \/ tbl_stack'[k] = tail
    PROVE  ExtentsNest'
<1>1. \A o \in DOMAIN attr :
         o \in Nat /\ End(o)' = End(o) /\ End(o) \in Nat /\ o < End(o) /\ End(o) <= tail
  BY DEF End, BlobInv, BlobTyped, ExtentsNest
<1>2. \A p \in DOMAIN attr' : p \in Nat /\ End(p)' \in Nat /\ p < End(p)'
  BY DEF End, BlobTyped
<1>3. tail \in Nat /\ tail' \in Nat
  BY DEF BlobInv, BlobTyped
<1>4. \A o \in DOMAIN attr' : End(o)' <= tail'
  BY <1>1, <1>2, <1>3
<1>5. \A o, p \in DOMAIN attr' : o < p => End(o)' <= p \/ End(p)' <= End(o)'
  BY <1>1, <1>2, <1>3 DEF BlobInv, ExtentsNest
<1>6. \A k \in 1..Len(tbl_stack) : tbl_stack[k] \in DOMAIN attr
  BY DEF BlobInv, BlobTyped
<1>7. \A o \in DOMAIN attr', k \in 1..Len(tbl_stack') :
         o < tbl_stack'[k] => End(o)' <= tbl_stack'[k]
  <2> SUFFICES ASSUME NEW o \in DOMAIN attr', NEW k \in 1..Len(tbl_stack'), o < tbl_stack'[k]
               PROVE  End(o)' <= tbl_stack'[k]
    OBVIOUS
  <2>1. tbl_stack'[k] <= tail /\ tbl_stack'[k] \in Nat
    <3>1. CASE tbl_stack'[k] = tail
      BY <1>3, <3>1
    <3>2. CASE k \in 1..Len(tbl_stack) /\ tbl_stack'[k] = tbl_stack[k]
      BY <1>1, <1>3, <1>6, <3>2
    <3>3. QED
      BY <3>1, <3>2
  <2>2. o \in DOMAIN attr
    BY <1>2, <1>3, <2>1
  <2>3. CASE tbl_stack'[k] = tail
    BY <1>1, <2>2, <2>3
  <2>4. CASE k \in 1..Len(tbl_stack) /\ tbl_stack'[k] = tbl_stack[k]
    BY <1>1, <2>2, <2>4 DEF BlobInv, ExtentsNest
  <2>5. QED
    BY <2>3, <2>4
<1>8. QED
  BY <1>4, <1>5, <1>7 DEF ExtentsNest

-----------------------------------------------------------------------------
(* Adding a value.                                                           *)
LEMMA StepValue ==
    ASSUME BlobInv, NEW n \in Name, AddValue(n)
    PROVE  BlobInv'
<1>1. PICK type, bytes : Len(bytes) \in Nat /\ Add(type, n, bytes)
  <2>1. CASE \E type \in DOMAIN IntLen, v \in Number : AddInt(type, n, v)
    <3>1. PICK type \in DOMAIN IntLen, v \in Number : AddInt(type, n, v)
      BY <2>1
    <3>2. IntLen[type] \in Nat
      BY <3>1 DEF IntLen
    <3>3. ASSUME NEW w \in Nat PROVE Len(BigEndian(v, w)) \in Nat
      <4> DEFINE B == BigEndian(v, w)
                 S == {B[i] : i \in 1..w}
      <4>1. B \in [1..w -> S]
        BY DEF BigEndian
      <4>2. B \in Seq(S)
        BY <4>1
      <4>3. QED
        BY <4>2
    <3>4. QED
      BY <3>1, <3>2, <3>3 DEF AddInt
  <2>2. CASE \E s \in String : AddString(n, s)
    BY <2>2, Inputs DEF AddString, Byte
  <2>3. CASE \E b \in Buffer : AddBuffer(n, b)
    BY <2>3, Inputs DEF AddBuffer
  <2>4. QED
    BY <2>1, <2>2, <2>3 DEF AddValue
<1>2. UNCHANGED <<tbl_stack, nesting, blob_fault>>
  BY DEF AddValue
<1>3. /\ DOMAIN attr' = DOMAIN attr \cup {tail}
      /\ \A o \in DOMAIN attr : attr'[o] = attr[o]
      /\ DOMAIN attr'[tail] = Fields
      /\ attr'[tail].len \in Nat \ {0}
      /\ tail' = tail + attr'[tail].len
      /\ tail' \in 0..BlobLen
      /\ \A p \in DOMAIN attr' \ DOMAIN attr : p = tail /\ End(p)' = tail'
  BY <1>1, AddedAttr
<1>4. tail \in Nat
  BY Bounds DEF BlobInv, BlobTyped
<1>5. BlobTyped'
  <2>1. tbl_stack \in Seq(DOMAIN attr')
    BY <1>3 DEF BlobInv, BlobTyped
  <2>2. \A o \in DOMAIN attr' :
           o \in Nat /\ DOMAIN attr'[o] = Fields /\ attr'[o].len \in Nat \ {0}
    BY <1>3, <1>4 DEF BlobInv, BlobTyped
  <2>3. QED
    BY <1>2, <1>3, <2>1, <2>2 DEF BlobInv, BlobTyped
<1>6. TablesPaired'
  <2>1. \A k \in 1..Len(tbl_stack) : tbl_stack[k] \in DOMAIN attr
    BY DEF BlobInv, BlobTyped
  <2>2. QED
    BY <1>2, <1>3, <2>1 DEF BlobInv, TablesPaired
<1>7. ExtentsNest'
  <2>1. tail' >= tail
    BY <1>3, <1>4
  <2>2. \A k \in 1..Len(tbl_stack') : k \in 1..Len(tbl_stack) /\ tbl_stack'[k] = tbl_stack[k]
    BY <1>2
  <2>3. \A p \in DOMAIN attr' \ DOMAIN attr : p >= tail /\ End(p)' <= tail'
    BY <1>3, <1>4, Bounds
  <2>4. \A o, p \in DOMAIN attr' \ DOMAIN attr :
           o < p => End(o)' <= p \/ End(p)' <= End(o)'
    BY <1>3, <1>4
  <2>5. QED
    BY <1>3, <1>5, <2>1, <2>2, <2>3, <2>4, AppendedNest
<1>8. QED
  BY <1>5, <1>6, <1>7 DEF BlobInv

(* Opening a table.                                                          *)
LEMMA StepTableStart ==
    ASSUME BlobInv, NEW n \in Name, AddTableStart(n)
    PROVE  BlobInv'
<1>1. Add("table", n, <<>>) /\ Len(<<>>) \in Nat /\ UNCHANGED blob_fault /\ nesting' = nesting + 1
  BY DEF AddTableStart
<1>2. Len(tbl_stack) = nesting /\ nesting < MaxDepth /\ nesting \in Nat
  BY DEF AddTableStart, BlobInv, BlobTyped, TablesPaired
<1>3. tbl_stack' = Append(tbl_stack, tail)
  BY <1>2, StackTakes DEF AddTableStart, Pushed
<1>4. /\ tbl_stack \in Seq(DOMAIN attr)
      /\ \A k \in 1..Len(tbl_stack) : tbl_stack[k] \in DOMAIN attr
  BY DEF BlobInv, BlobTyped
<1>5. /\ Len(tbl_stack') = Len(tbl_stack) + 1
      /\ tbl_stack'[Len(tbl_stack) + 1] = tail
      /\ \A k \in 1..Len(tbl_stack) : tbl_stack'[k] = tbl_stack[k]
  BY <1>3, <1>4
<1>6. /\ DOMAIN attr' = DOMAIN attr \cup {tail}
      /\ \A o \in DOMAIN attr : attr'[o] = attr[o] /\ o < tail
      /\ DOMAIN attr'[tail] = Fields /\ attr'[tail].type = "table"
      /\ attr'[tail].len \in Nat \ {0}
      /\ tail' = tail + attr'[tail].len
      /\ tail' \in 0..BlobLen
      /\ \A p \in DOMAIN attr' \ DOMAIN attr : p = tail /\ End(p)' = tail'
  BY <1>1, AddedAttr
<1>7. tail \in Nat
  BY Bounds DEF BlobInv, BlobTyped
<1>8. BlobTyped'
  <2>1. tbl_stack' \in Seq(DOMAIN attr')
    <3>1. tbl_stack \in Seq(DOMAIN attr') /\ tail \in DOMAIN attr'
      BY <1>4, <1>6
    <3>2. QED
      BY <1>3, <3>1
  <2>2. \A o \in DOMAIN attr' :
           o \in Nat /\ DOMAIN attr'[o] = Fields /\ attr'[o].len \in Nat \ {0}
    BY <1>6, <1>7 DEF BlobInv, BlobTyped
  <2>3. nesting' \in 0..MaxDepth
    BY <1>1, <1>2, Bounds
  <2>4. QED
    BY <1>6, <2>1, <2>2, <2>3 DEF BlobTyped
<1>9. TablesPaired'
  BY <1>1, <1>2, <1>4, <1>5, <1>6 DEF BlobInv, TablesPaired
<1>10. ExtentsNest'
  <2>1. tail' >= tail
    BY <1>6, <1>7
  <2>2. \A k \in 1..Len(tbl_stack') :
           (k \in 1..Len(tbl_stack) /\ tbl_stack'[k] = tbl_stack[k]) \/ tbl_stack'[k] = tail
    BY <1>4, <1>5
  <2>3. \A p \in DOMAIN attr' \ DOMAIN attr : p >= tail /\ End(p)' <= tail'
    BY <1>6, <1>7, Bounds
  <2>4. \A o, p \in DOMAIN attr' \ DOMAIN attr :
           o < p => End(o)' <= p \/ End(p)' <= End(o)'
    BY <1>6, <1>7
  <2>5. QED
    BY <1>6, <1>8, <2>1, <2>2, <2>3, <2>4, AppendedNest
<1>11. QED
  BY <1>8, <1>9, <1>10 DEF BlobInv

(* Closing a table: everything after its head becomes its contents.          *)
LEMMA StepTableEnd ==
    ASSUME BlobInv, AddTableEnd
    PROVE  BlobInv'
<1> DEFINE k == Len(tbl_stack)
<1> PICK s : s = tbl_stack[k]
  OBVIOUS
<1>1. k = nesting /\ k \in Nat /\ k > 0 /\ tbl_stack # <<>>
  <2>1. k \in Nat
    BY DEF BlobInv, BlobTyped
  <2>2. k = nesting /\ nesting > 0
    BY DEF BlobInv, TablesPaired, AddTableEnd
  <2>3. QED
    BY <2>1, <2>2
<1>2. /\ attr' = [attr EXCEPT ![s].len = TableLen(s)]
      /\ tbl_stack' = Popped(tbl_stack)
      /\ nesting' = nesting - 1
      /\ UNCHANGED <<tail, blob_fault>>
  BY <1>1 DEF AddTableEnd, Top
<1>3. \A i \in 1..k : tbl_stack[i] \in DOMAIN attr /\ tbl_stack[i] \in Nat
  BY DEF BlobInv, BlobTyped
<1>4. s \in DOMAIN attr /\ s \in Nat /\ tail \in Nat /\ s < tail
  BY <1>1, <1>3 DEF BlobInv, BlobTyped, ExtentsNest, End
<1>5. TableLen(s) = tail - s /\ TableLen(s) \in Nat \ {0}
  <2>1. tail <= BlobLen
    BY DEF BlobInv, BlobTyped
  <2>2. s \in Nat /\ tail \in Nat /\ s < tail /\ tail - s < 65536
    BY <1>4, <2>1, Bounds
  <2>3. (tail - s) % 65536 = tail - s
    BY <2>2
  <2>4. QED
    BY SMTT(60), <2>2, <2>3 DEF TableLen, Width
<1>6. /\ DOMAIN attr' = DOMAIN attr
      /\ \A o \in DOMAIN attr : o # s => attr'[o] = attr[o]
      /\ DOMAIN attr'[s] = Fields /\ attr'[s].type = attr[s].type
      /\ attr'[s].len = tail - s
  BY <1>2, <1>4, <1>5 DEF BlobInv, BlobTyped, Fields
<1>7. /\ Len(tbl_stack') = k - 1
      /\ \A i \in 1..(k - 1) : tbl_stack'[i] = tbl_stack[i]
      /\ tbl_stack' \in Seq(DOMAIN attr)
  BY SMTT(60), <1>1, <1>2 DEF Popped, BlobInv, BlobTyped
<1>8. BlobTyped'
  <2>1. \A o \in DOMAIN attr' :
           o \in Nat /\ DOMAIN attr'[o] = Fields /\ attr'[o].len \in Nat \ {0}
    BY SMTT(60), <1>5, <1>6 DEF BlobInv, BlobTyped
  <2>2. QED
    BY <1>1, <1>2, <1>6, <1>7, <2>1, Bounds DEF BlobInv, BlobTyped
<1>9. TablesPaired'
  BY <1>1, <1>2, <1>3, <1>6, <1>7 DEF BlobInv, TablesPaired
<1>10. ExtentsNest'
  <2>1. End(s)' = tail /\ \A o \in DOMAIN attr : o # s => End(o)' = End(o)
    BY <1>4, <1>6 DEF End
  <2>2. \A o \in DOMAIN attr : o \in Nat /\ End(o) \in Nat /\ End(o) <= tail
    BY SMTT(60) DEF BlobInv, BlobTyped, ExtentsNest, End
  <2>3. \A o \in DOMAIN attr : o < s => End(o) <= s
    BY <1>1 DEF BlobInv, ExtentsNest
  <2>4. \A i \in 1..(k - 1) : tbl_stack[i] < s
    BY <1>1 DEF BlobInv, TablesPaired
  <2>5. \A o \in DOMAIN attr' : End(o)' <= tail'
    BY <1>2, <1>4, <1>6, <2>1, <2>2
  <2>6. \A o, p \in DOMAIN attr' : o < p => End(o)' <= p \/ End(p)' <= End(o)'
    BY SMTT(60), <1>4, <1>6, <2>1, <2>2, <2>3 DEF BlobInv, ExtentsNest
  <2>7. \A o \in DOMAIN attr', i \in 1..Len(tbl_stack') :
           o < tbl_stack'[i] => End(o)' <= tbl_stack'[i]
    <3> SUFFICES ASSUME NEW o \in DOMAIN attr', NEW i \in 1..Len(tbl_stack'), o < tbl_stack'[i]
                 PROVE  End(o)' <= tbl_stack'[i]
      OBVIOUS
    <3>1. i \in 1..(k - 1) /\ i \in 1..k /\ tbl_stack'[i] = tbl_stack[i]
      BY <1>1, <1>7
    <3>2. o # s /\ o \in DOMAIN attr
      BY <1>3, <1>4, <1>6, <2>4, <3>1
    <3>3. End(o) <= tbl_stack[i]
      BY <3>1, <3>2 DEF BlobInv, ExtentsNest
    <3>4. QED
      BY <2>1, <3>1, <3>2, <3>3
  <2>8. QED
    BY <2>5, <2>6, <2>7 DEF ExtentsNest
<1>11. QED
  BY <1>8, <1>9, <1>10 DEF BlobInv

(* Copying an attribute: what lies in it is copied with it, and no open       *)
(* table does.                                                               *)
LEMMA StepCatenate ==
    ASSUME BlobInv, NEW from \in Closed, Catenate(from)
    PROVE  BlobInv'
<1> DEFINE len  == attr[from].len
           Span == from..(from + len - 1)
           D    == tail - from
           To   == {tail + p - from : p \in DOMAIN attr \cap Span}
<1>1. from \in DOMAIN attr /\ from \in Nat /\ len \in Nat \ {0} /\ tail \in Nat /\ from + len <= tail
  BY DEF Closed, BlobInv, BlobTyped, ExtentsNest, End
<1>2. /\ DOMAIN attr' = DOMAIN attr \cup To
      /\ \A p \in DOMAIN attr' : attr'[p] = IF p \in To THEN attr[p - tail + from] ELSE attr[p]
      /\ tail' = tail + len /\ tail' <= BlobLen /\ UNCHANGED <<tbl_stack, nesting, blob_fault>>
  BY DEF Catenate, Copied, HasRoom
<1>3. \A o \in DOMAIN attr : o \in Nat /\ o < tail /\ attr[o].len \in Nat \ {0}
  BY DEF BlobInv, BlobTyped, ExtentsNest, End
<1>4. \A q \in To : /\ q \in Nat /\ q >= tail
                    /\ q - D \in DOMAIN attr /\ q - D >= from /\ q - D < from + len
                    /\ q - tail + from = q - D
  BY <1>1, <1>3
<1>5. \A q \in To : q \notin DOMAIN attr /\ attr'[q] = attr[q - D]
  <2>1. ASSUME NEW q \in To PROVE q \notin DOMAIN attr
    BY <1>1, <1>3, <1>4
  <2>2. ASSUME NEW q \in To PROVE attr'[q] = attr[q - D]
    <3>1. q \in DOMAIN attr'
      BY <1>2
    <3>2. attr'[q] = attr[q - tail + from]
      BY <1>2, <3>1
    <3>3. QED
      BY <1>4, <3>2
  <2>3. QED
    BY <2>1, <2>2
<1>6. \A o \in DOMAIN attr : o \notin To /\ attr'[o] = attr[o]
  BY <1>2, <1>5
<1>7. DOMAIN attr' \ DOMAIN attr = To
  BY <1>2, <1>5
<1>8. \A q \in To : End(q)' = End(q - D) + D /\ End(q - D) \in Nat /\ End(q - D) <= from + len
  <2> SUFFICES ASSUME NEW q \in To
               PROVE  End(q)' = End(q - D) + D /\ End(q - D) \in Nat /\ End(q - D) <= from + len
    OBVIOUS
  <2>1. q - D \in DOMAIN attr /\ q - D \in Nat /\ q - D >= from /\ q - D < from + len /\ q \in Nat
    BY <1>3, <1>4
  <2>2. attr[q - D].len \in Nat
    BY <1>3, <2>1
  <2>3. End(q)' = q + attr[q - D].len
    BY <1>5 DEF End
  <2>4. End(q - D) = (q - D) + attr[q - D].len /\ End(from) = from + len
    BY DEF End
  <2>5. q - D = from \/ End(q - D) <= from + len
    <3>1. PICK e \in DOMAIN attr : e = q - D
      BY <2>1
    <3>2. from < e => End(from) <= e \/ End(e) <= End(from)
      BY <1>1 DEF BlobInv, ExtentsNest
    <3> HIDE DEF D
    <3>3. QED
      BY <1>1, <2>1, <2>4, <3>1, <3>2
  <2>6. q - D = from => End(q - D) = from + len
    BY <2>4
  <2> HIDE DEF D
  <2>7. D \in Int
    BY <1>1 DEF D
  <2>8. QED
    BY <1>1, <2>1, <2>2, <2>3, <2>4, <2>5, <2>6, <2>7
<1>9. BlobTyped'
  <2>1. \A o \in DOMAIN attr' :
           o \in Nat /\ DOMAIN attr'[o] = Fields /\ attr'[o].len \in Nat \ {0}
    BY <1>2, <1>4, <1>5, <1>6 DEF BlobInv, BlobTyped
  <2>2. tbl_stack \in Seq(DOMAIN attr')
    BY <1>2 DEF BlobInv, BlobTyped
  <2>3. QED
    BY <1>1, <1>2, <2>1, <2>2 DEF BlobInv, BlobTyped
<1>10. TablesPaired'
  <2>1. \A k \in 1..Len(tbl_stack) : tbl_stack[k] \in DOMAIN attr
    BY DEF BlobInv, BlobTyped
  <2>2. QED
    BY <1>2, <1>6, <2>1 DEF BlobInv, TablesPaired
<1>11. ExtentsNest'
  <2>1. \A p \in DOMAIN attr' \ DOMAIN attr : p >= tail /\ End(p)' <= tail'
    BY <1>1, <1>2, <1>4, <1>7, <1>8
  <2>2. \A o, p \in DOMAIN attr' \ DOMAIN attr : o < p => End(o)' <= p \/ End(p)' <= End(o)'
    <3> SUFFICES ASSUME NEW o \in To, NEW p \in To, o < p
                 PROVE  End(o)' <= p \/ End(p)' <= End(o)'
      BY <1>7
    <3>1. o - D < p - D /\ o - D \in DOMAIN attr /\ p - D \in DOMAIN attr
      BY <1>1, <1>4
    <3>2. End(o - D) <= p - D \/ End(p - D) <= End(o - D)
      BY <3>1 DEF BlobInv, ExtentsNest
    <3>3. D \in Int /\ o \in Nat /\ p \in Nat
      BY <1>1, <1>4
    <3>4. End(o)' = End(o - D) + D /\ End(p)' = End(p - D) + D
          /\ End(o - D) \in Nat /\ End(p - D) \in Nat
      BY <1>8
    <3> HIDE DEF D
    <3>5. QED
      BY <3>2, <3>3, <3>4
  <2>3. DOMAIN attr \subseteq DOMAIN attr' /\ tail' >= tail
    BY <1>1, <1>2
  <2>4. \A k \in 1..Len(tbl_stack') : k \in 1..Len(tbl_stack) /\ tbl_stack'[k] = tbl_stack[k]
    BY <1>2
  <2>5. QED
    BY <1>6, <1>9, <2>1, <2>2, <2>3, <2>4, AppendedNest
<1>12. QED
  BY <1>9, <1>10, <1>11 DEF BlobInv

LEMMA InitBlob == BlobInit => BlobInv
BY Bounds DEF BlobInit, BlobInv, BlobTyped, TablesPaired, ExtentsNest

LEMMA StepBlob == BlobInv /\ [BlobNext]_blobVars => BlobInv'
<1> SUFFICES ASSUME BlobInv, [BlobNext]_blobVars PROVE BlobInv'
  OBVIOUS
<1>1. CASE Reset
  BY <1>1, Bounds DEF Reset, BlobInv, BlobTyped, TablesPaired, ExtentsNest
<1>2. CASE UNCHANGED blobVars
  BY <1>2 DEF blobVars, BlobInv, BlobTyped, TablesPaired, ExtentsNest, End
<1>3. QED
  BY <1>1, <1>2, StepValue, StepTableStart, StepTableEnd, StepCatenate DEF BlobNext

(* For any depth that the stack has room for, a table's end is written to its *)
(* own head, and no attribute is ever cut by the length of another, whatever  *)
(* is opened, closed and copied in between.                                  *)
THEOREM AlwaysWellNested == BlobSpec => []WellNested
<1>1. BlobInv => WellNested
  BY DEF BlobInv, WellNested
<1>2. QED
  BY InitBlob, StepBlob, <1>1, PTL DEF BlobSpec

-----------------------------------------------------------------------------
(* Attributes that follow each other from b to e: where each begins, and e.    *)
IsChain(A, t, b, e) ==
    /\ t \in Seq(Nat) /\ Len(t) > 0
    /\ t[1] = b /\ t[Len(t)] = e
    /\ \A i \in 1..(Len(t) - 1) : t[i] \in DOMAIN A /\ t[i + 1] = t[i] + A[t[i]].len

HasLengths(A) == \A o \in DOMAIN A : o \in Nat /\ A[o].len \in Nat \ {0}

(* They all lie from b to e.                                                 *)
LEMMA ChainBounds ==
    ASSUME NEW A, HasLengths(A), NEW t, NEW b, NEW e, IsChain(A, t, b, e)
    PROVE  /\ b \in Nat /\ e \in Nat /\ b <= e
           /\ \A i \in 1..Len(t) : t[i] \in Nat /\ b <= t[i] /\ t[i] <= e
           /\ \A i \in 1..(Len(t) - 1) : t[i] < t[i + 1]
<1>1. PICK n \in Nat : n = Len(t)
  BY DEF IsChain
<1>2. /\ n > 0 /\ t[1] = b /\ t[n] = e
      /\ \A i \in 1..n : t[i] \in Nat
  BY <1>1 DEF IsChain
<1>3. \A i \in 1..(n - 1) : t[i] < t[i + 1]
  <2>1. ASSUME NEW i \in 1..(n - 1) PROVE t[i] < t[i + 1]
    <3>1. t[i] \in DOMAIN A /\ t[i + 1] = t[i] + A[t[i]].len
      BY <1>1 DEF IsChain
    <3>2. t[i] \in Nat /\ A[t[i]].len \in Nat /\ A[t[i]].len > 0
      BY <3>1 DEF HasLengths
    <3>3. QED
      BY <3>1, <3>2
  <2>2. QED
    BY <2>1
<1>4. ASSUME NEW i \in 1..n PROVE b <= t[i]
  <2>1. PICK D : D = {k \in 0..(n - 1) : b <= t[k + 1]}
    OBVIOUS
  <2>2. 0 \in D
    BY <1>2, <2>1
  <2>3. ASSUME NEW k \in 1..(n - 1), k - 1 \in D PROVE k \in D
    <3>1. b <= t[k] /\ t[k] < t[k + 1] /\ t[k] \in Nat /\ t[k + 1] \in Nat /\ b \in Nat
      BY <1>2, <1>3, <2>1, <2>3
    <3>2. QED
      BY <2>1, <3>1
  <2>4. \A k \in 0..(n - 1) : k \in D
    BY <1>2, <2>2, <2>3, UpTo
  <2>5. i - 1 \in 0..(n - 1) /\ (i - 1) + 1 = i
    OBVIOUS
  <2>6. QED
    BY <2>1, <2>4, <2>5
<1>5. ASSUME NEW i \in 1..n PROVE t[i] <= e
  <2>1. PICK D : D = {k \in 0..(n - 1) : t[n - k] <= e}
    OBVIOUS
  <2>2. 0 \in D
    BY <1>2, <2>1
  <2>3. ASSUME NEW k \in 1..(n - 1), k - 1 \in D PROVE k \in D
    <3>1. n - k \in 1..(n - 1) /\ (n - k) + 1 = n - (k - 1) /\ n - (k - 1) \in 1..n
      OBVIOUS
    <3>2. t[n - (k - 1)] <= e
      BY <2>1, <2>3
    <3>3. t[n - k] < t[n - (k - 1)] /\ t[n - k] \in Nat /\ t[n - (k - 1)] \in Nat /\ e \in Nat
      BY <1>2, <1>3, <3>1
    <3>4. QED
      BY <2>1, <3>2, <3>3
  <2>4. \A k \in 0..(n - 1) : k \in D
    BY <1>2, <2>2, <2>3, UpTo
  <2>5. n - i \in 0..(n - 1) /\ n - (n - i) = i
    OBVIOUS
  <2>6. QED
    BY <2>1, <2>4, <2>5
<1>6. b <= e
  BY <1>2, <1>4
<1>7. QED
  BY <1>1, <1>2, <1>3, <1>4, <1>5, <1>6

(* And leave nothing out.                                                    *)
LEMMA ChainCovers ==
    ASSUME NEW A, HasLengths(A), NEW t, NEW b, NEW e, IsChain(A, t, b, e),
           NEW x \in Nat, b <= x, x < e
    PROVE  \E i \in 1..(Len(t) - 1) : t[i] <= x /\ x < t[i + 1]
<1>1. PICK n \in Nat : n = Len(t)
  BY DEF IsChain
<1>2. /\ n > 0 /\ t[1] = b /\ t[n] = e /\ e \in Nat
      /\ \A i \in 1..n : t[i] \in Nat
  BY <1>1 DEF IsChain
<1>3. SUFFICES ASSUME \A i \in 1..(n - 1) : ~(t[i] <= x /\ x < t[i + 1]) PROVE FALSE
  BY <1>1
<1>4. PICK D : D = {k \in 0..(n - 1) : t[k + 1] <= x}
  OBVIOUS
<1>5. 0 \in D
  BY <1>2, <1>4
<1>6. ASSUME NEW k \in 1..(n - 1), k - 1 \in D PROVE k \in D
  <2>1. t[k] <= x /\ t[k + 1] \in Nat /\ t[k] \in Nat
    BY <1>2, <1>4, <1>6
  <2>2. t[k + 1] <= x
    BY <1>3, <2>1
  <2>3. QED
    BY <1>4, <2>2
<1>7. \A k \in 0..(n - 1) : k \in D
  BY <1>2, <1>5, <1>6, UpTo
<1>8. n - 1 \in 0..(n - 1) /\ (n - 1) + 1 = n
  BY <1>2
<1>9. t[n] <= x
  BY <1>4, <1>7, <1>8
<1>10. QED
  BY <1>2, <1>9

(* MovedBy by d, to where there are attributes of the same lengths.             *)
MovedBy(t, d) == [i \in 1..Len(t) |-> t[i] + d]

SameLengths(A, B, b, e, d) ==
    \A o \in DOMAIN A : b <= o /\ o < e => o + d \in DOMAIN B /\ B[o + d].len = A[o].len

LEMMA ChainMoves ==
    ASSUME NEW A, HasLengths(A), NEW t, NEW b, NEW e, IsChain(A, t, b, e),
           NEW B, NEW d \in Int, b + d \in Nat, SameLengths(A, B, b, e, d)
    PROVE  /\ IsChain(B, MovedBy(t, d), b + d, e + d)
           /\ Len(MovedBy(t, d)) = Len(t)
           /\ \A i \in 1..Len(t) : MovedBy(t, d)[i] = t[i] + d
<1>1. PICK n \in Nat : n = Len(t)
  BY SMTT(60) DEF IsChain
<1>2. PICK m : m = MovedBy(t, d)
  OBVIOUS
<1>3. /\ n > 0 /\ t[1] = b /\ t[n] = e /\ b \in Nat /\ e \in Nat
      /\ \A i \in 1..n : t[i] \in Nat /\ b <= t[i] /\ t[i] <= e
      /\ \A i \in 1..(n - 1) : /\ t[i] \in DOMAIN A /\ t[i + 1] = t[i] + A[t[i]].len
                               /\ t[i] < t[i + 1]
  BY <1>1, ChainBounds DEF IsChain
<1>4. \A i \in 1..n : t[i] + d \in Nat
  BY <1>3
<1>5. m \in [1..n -> Nat] /\ \A i \in 1..n : m[i] = t[i] + d
  BY <1>1, <1>2, <1>4 DEF MovedBy
<1>6. m \in Seq(Nat) /\ Len(m) = n
  BY <1>5, FunctionIsSeq
<1>7. ASSUME NEW i \in 1..(n - 1) PROVE m[i] \in DOMAIN B /\ m[i + 1] = m[i] + B[m[i]].len
  <2>1. i \in 1..n /\ i + 1 \in 1..n
    OBVIOUS
  <2>2. /\ t[i] \in DOMAIN A /\ t[i + 1] = t[i] + A[t[i]].len /\ t[i] < t[i + 1]
        /\ b <= t[i] /\ t[i] \in Nat /\ t[i + 1] <= e /\ t[i + 1] \in Nat
    BY <1>3, <2>1
  <2>3. t[i] + d \in DOMAIN B /\ B[t[i] + d].len = A[t[i]].len
    BY <1>3, <2>2 DEF SameLengths
  <2>4. m[i] = t[i] + d /\ m[i + 1] = t[i + 1] + d
    BY <1>5, <2>1
  <2>5. A[t[i]].len \in Nat
    BY <2>2 DEF HasLengths
  <2>6. QED
    BY <2>2, <2>3, <2>4, <2>5
<1>8. m[1] = b + d /\ m[n] = e + d
  BY <1>3, <1>5
<1>9. IsChain(B, m, b + d, e + d)
  BY <1>3, <1>6, <1>7, <1>8 DEF IsChain
<1>10. QED
  BY <1>1, <1>2, <1>5, <1>6, <1>9

(* The same where they are.                                                  *)
LengthsKept(A, B, b, e) ==
    \A o \in DOMAIN A : b <= o /\ o < e => o \in DOMAIN B /\ B[o].len = A[o].len

LEMMA ChainKept ==
    ASSUME NEW A, NEW t, NEW b, NEW e, IsChain(A, t, b, e), HasLengths(A),
           NEW B, LengthsKept(A, B, b, e)
    PROVE  IsChain(B, t, b, e)
<1>1. PICK n \in Nat : n = Len(t)
  BY DEF IsChain
<1>2. /\ \A i \in 1..n : t[i] \in Nat /\ b <= t[i] /\ t[i] <= e
      /\ \A i \in 1..(n - 1) : t[i] < t[i + 1]
      /\ e \in Nat
  BY <1>1, ChainBounds
<1>3. ASSUME NEW i \in 1..(n - 1) PROVE t[i] \in DOMAIN B /\ t[i + 1] = t[i] + B[t[i]].len
  <2>1. t[i] \in DOMAIN A /\ t[i + 1] = t[i] + A[t[i]].len
    BY <1>1 DEF IsChain
  <2>2. i \in 1..n /\ i + 1 \in 1..n
    OBVIOUS
  <2>3. b <= t[i] /\ t[i] < e
    BY <1>2, <2>2
  <2>4. QED
    BY <2>1, <2>3 DEF LengthsKept
<1>4. QED
  BY <1>1, <1>3 DEF IsChain

(* And with one more at the end.                                             *)
LEMMA ChainGrows ==
    ASSUME NEW A, NEW t, NEW b, NEW e, IsChain(A, t, b, e),
           e \in DOMAIN A, NEW f \in Nat, f = e + A[e].len
    PROVE  /\ IsChain(A, Append(t, f), b, f)
           /\ Len(Append(t, f)) = Len(t) + 1
           /\ \A i \in 1..Len(t) : Append(t, f)[i] = t[i]
<1>1. PICK n \in Nat : n = Len(t)
  BY DEF IsChain
<1>2. PICK g : g = Append(t, f)
  OBVIOUS
<1>3. /\ n > 0 /\ t \in Seq(Nat) /\ t[1] = b /\ t[n] = e
      /\ \A i \in 1..(n - 1) : t[i] \in DOMAIN A /\ t[i + 1] = t[i] + A[t[i]].len
  BY <1>1 DEF IsChain
<1>4. g \in Seq(Nat) /\ Len(g) = n + 1 /\ g[n + 1] = f /\ \A i \in 1..n : g[i] = t[i]
  BY <1>1, <1>2, <1>3
<1>5. ASSUME NEW i \in 1..n PROVE g[i] \in DOMAIN A /\ g[i + 1] = g[i] + A[g[i]].len
  <2>1. CASE i = n
    BY <1>3, <1>4, <2>1
  <2>2. CASE i # n
    <3>1. i \in 1..(n - 1) /\ i + 1 \in 1..n
      BY <2>2
    <3>2. QED
      BY <1>3, <1>4, <3>1
  <2>3. QED
    BY <2>1, <2>2
<1>6. g[1] = b
  <2>1. 1 \in 1..n
    BY <1>3
  <2>2. QED
    BY <1>3, <1>4, <2>1
<1>7. IsChain(A, g, b, f)
  BY <1>3, <1>4, <1>5, <1>6 DEF IsChain
<1>8. QED
  BY <1>1, <1>2, <1>4, <1>7

LEMMA EmptyChain ==
    ASSUME NEW A, NEW b \in Nat
    PROVE  IsChain(A, <<b>>, b, b) /\ Len(<<b>>) = 1
BY DEF IsChain

-----------------------------------------------------------------------------
(* What for_each goes through.                                               *)
StepsAt(f, o, stop) ==
    IF o >= stop \/ o \notin DOMAIN attr THEN <<>> ELSE <<o>> \o f[o + attr[o].len]

StepsFrom(f, stop) == f = [o \in 0..(BlobLen + Width) |-> StepsAt(f, o, stop)]

(* What BlobInv says of where attributes are.                                *)
LEMMA AttrFacts ==
    ASSUME BlobInv
    PROVE  /\ HasLengths(attr)
           /\ tail \in Nat /\ tail <= BlobLen
           /\ \A o \in DOMAIN attr : /\ o \in Nat /\ attr[o].len \in Nat \ {0}
                                     /\ o + attr[o].len <= tail /\ o < tail
           /\ \A o, p \in DOMAIN attr :
                o < p => o + attr[o].len <= p \/ p + attr[p].len <= o + attr[o].len
BY Bounds DEF BlobInv, BlobTyped, ExtentsNest, End, HasLengths

LEMMA StepsRecur ==
    ASSUME BlobInv, NEW first, NEW stop
    PROVE  \E f : Steps(first, stop) = f[first] /\ StepsFrom(f, stop)
<1>1. Steps(first, stop) = (CHOOSE f : StepsFrom(f, stop))[first]
  BY Zenon DEF Steps, StepsFrom, StepsAt
<1>2. PICK N \in Nat : N = BlobLen + Width /\ BlobLen < N
  BY Bounds DEF Width
<1>3. PICK D : D = {m \in 0..N : \E f : f = [o \in (N - m)..N |-> StepsAt(f, o, stop)]}
  OBVIOUS
<1>4. 0 \in D
  <2>1. N \notin DOMAIN attr
    BY <1>2, AttrFacts, Bounds
  <2>2. PICK f : f = [o \in (N - 0)..N |-> <<>>]
    OBVIOUS
  <2>3. ASSUME NEW o \in (N - 0)..N PROVE StepsAt(f, o, stop) = <<>>
    <3>1. o = N
      OBVIOUS
    <3>2. QED
      BY <2>1, <3>1 DEF StepsAt
  <2>4. f = [o \in (N - 0)..N |-> StepsAt(f, o, stop)]
    BY <2>2, <2>3
  <2>5. QED
    BY <1>3, <2>4
<1>5. ASSUME NEW m \in 1..N, m - 1 \in D PROVE m \in D
  <2>1. PICK f : f = [o \in (N - (m - 1))..N |-> StepsAt(f, o, stop)]
    BY <1>3, <1>5
  <2>2. PICK g : g = [o \in (N - m)..N |-> IF o = N - m THEN StepsAt(f, o, stop) ELSE f[o]]
    OBVIOUS
  <2>3. \A o \in (N - (m - 1))..N : g[o] = f[o] /\ f[o] = StepsAt(f, o, stop)
    <3>1. ASSUME NEW o \in (N - (m - 1))..N PROVE o \in (N - m)..N /\ o # N - m
      OBVIOUS
    <3>2. \A o \in (N - (m - 1))..N : g[o] = f[o]
      BY <2>2, <3>1
    <3>3. \A o \in (N - (m - 1))..N : f[o] = StepsAt(f, o, stop)
      BY <2>1
    <3>4. QED
      BY <3>2, <3>3
  <2>4. ASSUME NEW o \in (N - m)..N PROVE StepsAt(g, o, stop) = StepsAt(f, o, stop)
    <3>1. CASE o >= stop \/ o \notin DOMAIN attr
      BY <3>1 DEF StepsAt
    <3>2. CASE ~(o >= stop) /\ o \in DOMAIN attr
      <4>1. o + attr[o].len \in (N - (m - 1))..N
        BY <1>2, <3>2, AttrFacts, Bounds
      <4>2. g[o + attr[o].len] = f[o + attr[o].len]
        BY <2>3, <4>1
      <4>3. QED
        BY <4>2 DEF StepsAt
    <3>3. QED
      BY <3>1, <3>2
  <2>5. ASSUME NEW o \in (N - m)..N PROVE g[o] = StepsAt(g, o, stop)
    <3>1. CASE o = N - m
      BY <2>2, <2>4, <3>1
    <3>2. CASE o # N - m
      <4>1. o \in (N - (m - 1))..N
        BY <3>2
      <4>2. g[o] = StepsAt(f, o, stop)
        BY <2>3, <4>1
      <4>3. QED
        BY <2>4, <4>2
    <3>3. QED
      BY <3>1, <3>2
  <2>6. g = [o \in (N - m)..N |-> StepsAt(g, o, stop)]
    <3>1. g = [o \in (N - m)..N |-> g[o]]
      BY <2>2
    <3>2. QED
      BY <2>5, <3>1
  <2>7. QED
    BY <1>3, <2>6
<1>6. N \in D
  <2>1. \A m \in 0..N : m \in D
    BY <1>4, <1>5, UpTo
  <2>2. QED
    BY <2>1
<1>7. \E f : StepsFrom(f, stop)
  <2>1. PICK f : f = [o \in (N - N)..N |-> StepsAt(f, o, stop)]
    BY <1>3, <1>6
  <2>2. N - N = 0
    OBVIOUS
  <2>3. StepsFrom(f, stop)
    BY <1>2, <2>1, <2>2 DEF StepsFrom
  <2>4. QED
    BY <2>3
<1>8. PICK h : h = CHOOSE f : StepsFrom(f, stop)
  OBVIOUS
<1>9. StepsFrom(h, stop)
  BY <1>7, <1>8
<1>10. Steps(first, stop) = h[first]
  BY <1>1, <1>8, Zenon
<1>11. QED
  BY <1>9, <1>10

(* Over a chain, it is where each attribute of it begins.                     *)
StartsOf(t) == [i \in 1..(Len(t) - 1) |-> t[i]]

LEMMA StepsAre ==
    ASSUME BlobInv, NEW t, NEW b, NEW e, IsChain(attr, t, b, e), e <= tail
    PROVE  Steps(b, e) = StartsOf(t)
<1>1. PICK n \in Nat : n = Len(t)
  BY DEF IsChain
<1>2. PICK f : Steps(b, e) = f[b] /\ StepsFrom(f, e)
  BY StepsRecur
<1>3. HasLengths(attr) /\ tail \in Nat /\ tail <= BlobLen /\ BlobLen + Width \in Nat /\ BlobLen < BlobLen + Width
  BY AttrFacts, Bounds DEF Width
<1>4. /\ n > 0 /\ t[1] = b /\ t[n] = e /\ b \in Nat /\ e \in Nat
      /\ \A i \in 1..n : t[i] \in Nat /\ b <= t[i] /\ t[i] <= e
      /\ \A i \in 1..(n - 1) : /\ t[i] \in DOMAIN attr /\ t[i + 1] = t[i] + attr[t[i]].len
                               /\ t[i] < t[i + 1]
  BY <1>1, <1>3, ChainBounds DEF IsChain
<1>5. \A i \in 1..n : f[t[i]] = StepsAt(f, t[i], e)
  <2>1. \A i \in 1..n : t[i] \in 0..(BlobLen + Width)
    BY <1>3, <1>4, Bounds
  <2>2. QED
    BY <1>2, <2>1 DEF StepsFrom
<1>6. \A i \in 1..(n - 1) : f[t[i]] = <<t[i]>> \o f[t[i + 1]]
  <2>1. ASSUME NEW i \in 1..(n - 1) PROVE f[t[i]] = <<t[i]>> \o f[t[i + 1]]
    <3>1. i \in 1..n /\ i + 1 \in 1..n
      OBVIOUS
    <3>2. t[i] < e /\ t[i] \in DOMAIN attr /\ t[i + 1] = t[i] + attr[t[i]].len
      BY <1>4, <3>1
    <3>3. ~(t[i] >= e)
      BY <1>4, <3>1, <3>2
    <3>4. QED
      BY <1>5, <3>1, <3>2, <3>3 DEF StepsAt
  <2>2. QED
    BY <2>1
<1>7. f[t[n]] = <<>>
  <2>1. n \in 1..n /\ t[n] >= e
    BY <1>4
  <2>2. QED
    BY <1>5, <2>1 DEF StepsAt
<1>8. PICK D : D = {k \in 0..(n - 1) :
                      /\ f[t[n - k]] \in Seq(Nat) /\ Len(f[t[n - k]]) = k
                      /\ \A j \in 1..k : f[t[n - k]][j] = t[n - k + j - 1]}
  OBVIOUS
<1>9. 0 \in D
  <2>1. n - 0 = n /\ 0 \in 0..(n - 1)
    BY <1>4
  <2>2. <<>> \in Seq(Nat) /\ Len(<<>>) = 0 /\ 1..0 = {}
    OBVIOUS
  <2>3. PICK y : y = f[t[n - 0]]
    OBVIOUS
  <2>4. y = <<>>
    BY <1>7, <2>1, <2>3
  <2>5. y \in Seq(Nat) /\ Len(y) = 0 /\ \A j \in 1..0 : y[j] = t[n - 0 + j - 1]
    BY <2>2, <2>4
  <2>6. QED
    BY <1>8, <2>1, <2>3, <2>5
<1>10. ASSUME NEW k \in 1..(n - 1), k - 1 \in D PROVE k \in D
  <2>1. n - k \in 1..(n - 1) /\ (n - k) + 1 = n - (k - 1) /\ n - k \in 1..n
    OBVIOUS
  <2>2. PICK r : r = f[t[n - (k - 1)]]
    OBVIOUS
  <2>3. r \in Seq(Nat) /\ Len(r) = k - 1 /\ \A j \in 1..(k - 1) : r[j] = t[n - (k - 1) + j - 1]
    BY <1>8, <1>10, <2>2
  <2>4. PICK x \in Nat : x = t[n - k]
    BY <1>4, <2>1
  <2>5. f[t[n - k]] = <<x>> \o r
    BY <1>6, <2>1, <2>2, <2>4
  <2>6. <<x>> \o r \in Seq(Nat) /\ Len(<<x>> \o r) = k /\ (<<x>> \o r)[1] = x
        /\ \A j \in 2..k : (<<x>> \o r)[j] = r[j - 1]
    BY <2>3
  <2>7. ASSUME NEW j \in 1..k PROVE (<<x>> \o r)[j] = t[n - k + j - 1]
    <3>1. CASE j = 1
      <4>1. n - k + j - 1 = n - k
        BY <3>1
      <4>2. QED
        BY <2>4, <2>6, <3>1, <4>1
    <3>2. CASE j # 1
      <4>1. j \in 2..k /\ j - 1 \in 1..(k - 1) /\ n - (k - 1) + (j - 1) - 1 = n - k + j - 1
        BY <3>2
      <4>2. QED
        BY <2>3, <2>6, <4>1
    <3>3. QED
      BY <3>1, <3>2
  <2>8. PICK y : y = <<x>> \o r
    OBVIOUS
  <2>9. y \in Seq(Nat) /\ Len(y) = k /\ \A j \in 1..k : y[j] = t[n - k + j - 1]
    BY <2>6, <2>7, <2>8
  <2>10. f[t[n - k]] = y /\ k \in 0..(n - 1)
    BY <2>5, <2>8
  <2>11. QED
    BY <1>8, <2>9, <2>10
<1>11. n - 1 \in D
  <2>1. \A k \in 0..(n - 1) : k \in D
    BY SMTT(60), <1>4, <1>9, <1>10, UpTo
  <2>2. QED
    BY <1>4, <2>1
<1>12. PICK s : s = Steps(b, e)
  OBVIOUS
<1>13. s \in Seq(Nat) /\ Len(s) = n - 1 /\ \A j \in 1..(n - 1) : s[j] = t[j]
  <2>1. n - (n - 1) = 1 /\ \A j \in 1..(n - 1) : 1 + j - 1 = j
    BY <1>4
  <2>2. QED
    BY ZenonT(60), <1>2, <1>4, <1>8, <1>11, <1>12, <2>1
<1>14. s = [j \in 1..(n - 1) |-> s[j]]
  BY <1>13
<1>15. s = [j \in 1..(n - 1) |-> t[j]]
  BY <1>13, <1>14
<1>16. QED
  BY <1>1, <1>12, <1>15 DEF StartsOf

-----------------------------------------------------------------------------
(* What is in a table, closed or open, and in the blob is a chain; a name and  *)
(* its length fit into the bytes that count them; only tables have something   *)
(* in them, and only after their names.                                      *)
FrameBegin(k) == IF k = 1 THEN 0 ELSE DataAt(tbl_stack[k - 1])
FrameEnd(k) == IF k <= Len(tbl_stack) THEN tbl_stack[k] ELSE tail

Headed ==
    \A o \in DOMAIN attr :
       /\ attr[o].name \in Name
       /\ attr[o].name_len \in Nat \ {0} /\ FixedLen + attr[o].name_len < 256
       /\ DataAt(o) <= End(o)

OnlyTablesFilled ==
    \A o, p \in DOMAIN attr :
       p < o => DataAt(p) <= o /\ (o < End(p) => attr[p].type = "table")

TablesChained ==
    \A o \in DOMAIN attr :
       attr[o].type = "table" => \E t : IsChain(attr, t, DataAt(o), End(o))

FramesChained ==
    \A k \in 1..(Len(tbl_stack) + 1) : \E t : IsChain(attr, t, FrameBegin(k), FrameEnd(k))

DocInv == BlobInv /\ Headed /\ OnlyTablesFilled /\ TablesChained /\ FramesChained

LEMMA HeadFacts ==
    ASSUME DocInv, NEW o \in DOMAIN attr
    PROVE  /\ DataAt(o) \in Nat /\ o + 6 <= DataAt(o) /\ DataAt(o) <= End(o)
           /\ DataAt(o) + DataLen(o) = End(o)
           /\ DataLen(o) = attr[o].len - (FixedLen + attr[o].name_len)
           /\ End(o) = o + attr[o].len /\ End(o) \in Nat /\ End(o) <= tail
           /\ o \in Nat
<1>1. /\ o \in Nat /\ attr[o].len \in Nat /\ o + attr[o].len <= tail
      /\ attr[o].name_len \in Nat /\ attr[o].name_len > 0 /\ 5 + attr[o].name_len < 256
  BY AttrFacts DEF DocInv, Headed, FixedLen
<1>2. DataAt(o) - o = 5 + attr[o].name_len
  BY <1>1 DEF DataAt, FixedLen
<1>3. (DataAt(o) - o) % 256 = 5 + attr[o].name_len
  BY <1>1, <1>2
<1>4. DataLen(o) = attr[o].len - (5 + attr[o].name_len)
  BY <1>3 DEF DataLen
<1>5. DataAt(o) = o + 5 + attr[o].name_len /\ End(o) = o + attr[o].len
  BY DEF DataAt, End, FixedLen
<1>6. DataAt(o) <= End(o)
  BY DEF DocInv, Headed
<1>7. QED
  BY <1>1, <1>4, <1>5, <1>6 DEF FixedLen

(* What for_each finds in a table.                                           *)
LEMMA InsideIs ==
    ASSUME DocInv, NEW o \in DOMAIN attr, NEW t, IsChain(attr, t, DataAt(o), End(o))
    PROVE  /\ Inside(o) = StartsOf(t)
           /\ DOMAIN Inside(o) = 1..(Len(t) - 1)
           /\ \A k \in 1..(Len(t) - 1) :
                Inside(o)[k] = t[k] /\ t[k] \in DOMAIN attr /\ o < t[k] /\ t[k] < End(o)
<1>1. /\ o \in Nat /\ DataAt(o) \in Nat /\ o < DataAt(o) /\ End(o) \in Nat /\ End(o) <= tail
      /\ DataAt(o) + DataLen(o) = End(o)
  BY HeadFacts
<1>2. BlobInv /\ HasLengths(attr)
  BY AttrFacts DEF DocInv
<1>3. Inside(o) = StartsOf(t)
  BY <1>1, <1>2, StepsAre DEF Inside
<1>4. PICK n \in Nat : n = Len(t)
  BY DEF IsChain
<1>5. /\ \A i \in 1..n : t[i] \in Nat /\ DataAt(o) <= t[i] /\ t[i] <= End(o)
      /\ \A i \in 1..(n - 1) : t[i] < t[i + 1]
      /\ \A i \in 1..(n - 1) : t[i] \in DOMAIN attr
  BY <1>2, <1>4, ChainBounds DEF IsChain
<1>6. ASSUME NEW k \in 1..(n - 1) PROVE t[k] \in DOMAIN attr /\ o < t[k] /\ t[k] < End(o)
  <2>1. k \in 1..n /\ k + 1 \in 1..n
    OBVIOUS
  <2>2. QED
    BY <1>1, <1>5, <2>1
<1>7. QED
  BY <1>3, <1>4, <1>6 DEF StartsOf

LEMMA InsideAfter ==
    ASSUME DocInv, NEW o \in DOMAIN attr, attr[o].type = "table"
    PROVE  \A k \in DOMAIN Inside(o) : Inside(o)[k] \in DOMAIN attr /\ o < Inside(o)[k]
<1>1. PICK t : IsChain(attr, t, DataAt(o), End(o))
  BY DEF DocInv, TablesChained
<1>2. QED
  BY <1>1, InsideIs

-----------------------------------------------------------------------------
(* What is read of each attribute.                                           *)
ReadAt(f, o) ==
    IF attr[o].type = "table"
    THEN [name |-> attr[o].name, items |-> [k \in DOMAIN Inside(o) |-> f[Inside(o)[k]]]]
    ELSE [name |-> attr[o].name, value |-> ReadValue(o)]

ReadFrom(f) == f = [o \in DOMAIN attr |-> ReadAt(f, o)]

LEMMA ReadRecurs ==
    ASSUME DocInv
    PROVE  ReadFrom(Read)
<1>1. Read = CHOOSE f : ReadFrom(f)
  BY Zenon DEF Read, ReadFrom, ReadAt
<1>2. PICK N \in Nat : N = BlobLen
  BY Bounds
<1>3. \A o \in DOMAIN attr : o \in Nat /\ o < N
  <2>1. BlobInv
    BY DEF DocInv
  <2>2. QED
    BY <1>2, <2>1, AttrFacts
<1>4. PICK S : S = [m \in 0..N |-> {o \in DOMAIN attr : o >= N - m}]
  OBVIOUS
<1>5. PICK D : D = {m \in 0..N : \E f : f = [o \in S[m] |-> ReadAt(f, o)]}
  OBVIOUS
<1>6. 0 \in D
  <2>1. 0 \in 0..N
    BY <1>2
  <2>2. S[0] = {}
    BY <1>3, <1>4, <2>1
  <2>3. PICK f : f = [o \in {} |-> {}]
    OBVIOUS
  <2>4. f = [o \in S[0] |-> ReadAt(f, o)]
    BY <2>2, <2>3
  <2>5. QED
    BY <1>5, <2>1, <2>4
<1>7. ASSUME NEW m \in 1..N, m - 1 \in D PROVE m \in D
  <2>1. m \in 0..N /\ m - 1 \in 0..N
    OBVIOUS
  <2>2. PICK f : f = [o \in S[m - 1] |-> ReadAt(f, o)]
    BY <1>5, <1>7
  <2>3. S[m - 1] \subseteq S[m] /\ S[m] \subseteq DOMAIN attr
    BY <1>3, <1>4, <2>1
  <2>4. \A o \in S[m], p \in DOMAIN attr : o < p => p \in S[m - 1]
    <3>1. \A o \in S[m] : o \in Nat /\ o >= N - m
      BY <1>3, <1>4, <2>1
    <3>2. \A p \in DOMAIN attr : p \in Nat /\ (p >= N - (m - 1) => p \in S[m - 1])
      <4>1. S[m - 1] = {o \in DOMAIN attr : o >= N - (m - 1)}
        BY <1>4, <2>1
      <4>2. QED
        BY <1>3, <4>1
    <3>3. QED
      BY <3>1, <3>2
  <2>5. PICK g : g = [o \in S[m] |-> IF o \in S[m - 1] THEN f[o] ELSE ReadAt(f, o)]
    OBVIOUS
  <2>6. \A o \in S[m - 1] : g[o] = f[o] /\ f[o] = ReadAt(f, o)
    <3>1. \A o \in S[m - 1] : g[o] = f[o]
      BY <2>3, <2>5
    <3>2. \A o \in S[m - 1] : f[o] = ReadAt(f, o)
      BY <2>2
    <3>3. QED
      BY <3>1, <3>2
  <2>7. ASSUME NEW o \in S[m] PROVE ReadAt(g, o) = ReadAt(f, o)
    <3>1. CASE attr[o].type = "table"
      <4>1. \A k \in DOMAIN Inside(o) : Inside(o)[k] \in S[m - 1]
        BY <2>3, <2>4, <3>1, InsideAfter
      <4>2. [k \in DOMAIN Inside(o) |-> g[Inside(o)[k]]] = [k \in DOMAIN Inside(o) |-> f[Inside(o)[k]]]
        BY <2>6, <4>1
      <4>3. QED
        BY <4>2 DEF ReadAt
    <3>2. CASE attr[o].type # "table"
      BY <3>2 DEF ReadAt
    <3>3. QED
      BY <3>1, <3>2
  <2>8. ASSUME NEW o \in S[m] PROVE g[o] = ReadAt(g, o)
    <3>1. CASE o \in S[m - 1]
      BY <2>6, <2>7, <3>1
    <3>2. CASE o \notin S[m - 1]
      BY <2>5, <2>7, <3>2
    <3>3. QED
      BY <3>1, <3>2
  <2>9. g = [o \in S[m] |-> ReadAt(g, o)]
    <3>1. g = [o \in S[m] |-> g[o]]
      BY <2>5
    <3>2. QED
      BY <2>8, <3>1
  <2>10. QED
    BY <1>5, <2>1, <2>9
<1>8. N \in D
  <2>1. \A m \in 0..N : m \in D
    BY <1>6, <1>7, UpTo
  <2>2. QED
    BY <1>2, <2>1
<1>9. PICK f : f = [o \in S[N] |-> ReadAt(f, o)]
  BY <1>5, <1>8
<1>10. S[N] = DOMAIN attr
  <2>1. N \in 0..N /\ N - N = 0
    BY <1>2
  <2>2. S[N] = {o \in DOMAIN attr : o >= N - N}
    BY <1>4, <2>1
  <2>3. QED
    BY <1>3, <2>1, <2>2
<1>11. ReadFrom(f)
  BY <1>9, <1>10 DEF ReadFrom
<1>12. PICK h : h = CHOOSE g : ReadFrom(g)
  OBVIOUS
<1>13. ReadFrom(h)
  BY <1>11, <1>12
<1>14. QED
  BY <1>1, <1>12, <1>13, Zenon

ItemsOf(g, t) == [i \in 1..(Len(t) - 1) |-> g[t[i]]]

IsRead(g) ==
    \A o \in DOMAIN attr :
       /\ attr[o].type = "table" =>
            \A t : IsChain(attr, t, DataAt(o), End(o)) =>
                     g[o] = [name |-> attr[o].name, items |-> ItemsOf(g, t)]
       /\ attr[o].type # "table" => g[o] = [name |-> attr[o].name, value |-> ReadValue(o)]

LEMMA ReadingIs == DocInv => IsRead(Read)
<1> SUFFICES ASSUME DocInv PROVE IsRead(Read)
  OBVIOUS
<1>1. PICK g : g = Read
  OBVIOUS
<1>2. \A o \in DOMAIN attr : g[o] = ReadAt(g, o)
  BY <1>1, ReadRecurs DEF ReadFrom
<1>3. ASSUME NEW o \in DOMAIN attr, attr[o].type = "table",
             NEW t, IsChain(attr, t, DataAt(o), End(o))
      PROVE  g[o] = [name |-> attr[o].name, items |-> ItemsOf(g, t)]
  <2>1. DOMAIN Inside(o) = 1..(Len(t) - 1) /\ \A k \in 1..(Len(t) - 1) : Inside(o)[k] = t[k]
    BY <1>3, InsideIs
  <2>2. [k \in DOMAIN Inside(o) |-> g[Inside(o)[k]]] = ItemsOf(g, t)
    BY <2>1 DEF ItemsOf
  <2>3. QED
    BY <1>2, <1>3, <2>2 DEF ReadAt
<1>4. ASSUME NEW o \in DOMAIN attr, attr[o].type # "table"
      PROVE  g[o] = [name |-> attr[o].name, value |-> ReadValue(o)]
  BY <1>2, <1>4 DEF ReadAt
<1>5. IsRead(g)
  BY <1>3, <1>4 DEF IsRead
<1>6. QED
  BY <1>1, <1>5

(* What is read of the blob and of the open tables.                          *)
FrameName(k) == IF k = 1 THEN Root ELSE attr[tbl_stack[k - 1]].name

FramesRead ==
    \A k \in 1..(Len(tbl_stack) + 1) : \A t :
       IsChain(attr, t, FrameBegin(k), FrameEnd(k)) =>
          FrameRead(k) = [name |-> FrameName(k), items |-> ItemsOf(Read, t)]

LEMMA FrameReadingIs == DocInv => FramesRead
<1> SUFFICES ASSUME DocInv, NEW k \in 1..(Len(tbl_stack) + 1),
                    NEW t, IsChain(attr, t, FrameBegin(k), FrameEnd(k))
             PROVE  FrameRead(k) = [name |-> FrameName(k), items |-> ItemsOf(Read, t)]
  BY DEF FramesRead
<1>1. BlobInv
  BY DEF DocInv
<1>2. FrameEnd(k) <= tail
  <2>1. CASE k <= Len(tbl_stack)
    <3>1. tbl_stack[k] \in DOMAIN attr
      BY <1>1, <2>1 DEF BlobInv, BlobTyped
    <3>2. tbl_stack[k] <= tail
      BY <1>1, <3>1, AttrFacts
    <3>3. QED
      BY <2>1, <3>2 DEF FrameEnd
  <2>2. CASE ~(k <= Len(tbl_stack))
    BY <1>1, <2>2, AttrFacts DEF FrameEnd
  <2>3. QED
    BY <2>1, <2>2
<1>3. PICK s : s = Steps(FrameBegin(k), FrameEnd(k))
  OBVIOUS
<1>4. s = StartsOf(t)
  BY <1>1, <1>2, <1>3, StepsAre
<1>5. FrameRead(k) = [name |-> FrameName(k), items |-> [i \in DOMAIN s |-> Read[s[i]]]]
  BY Zenon, <1>3 DEF FrameRead, FrameName, FrameBegin, FrameEnd
<1>6. [i \in DOMAIN s |-> Read[s[i]]] = ItemsOf(Read, t)
  BY <1>4 DEF StartsOf, ItemsOf
<1>7. QED
  BY <1>5, <1>6

Extents ==
    \A o \in DOMAIN attr :
       /\ o \in Nat /\ DataAt(o) \in Nat /\ o + 6 <= DataAt(o) /\ DataAt(o) <= End(o)
       /\ DataAt(o) = o + (FixedLen + attr[o].name_len) /\ FixedLen + attr[o].name_len \in Nat
       /\ DataLen(o) = attr[o].len - (FixedLen + attr[o].name_len)
       /\ End(o) = o + attr[o].len /\ End(o) \in Nat /\ End(o) <= tail
       /\ tail \in Nat /\ tail <= BlobLen

LEMMA ExtentsAre == DocInv => Extents
<1> SUFFICES ASSUME DocInv, NEW o \in DOMAIN attr
             PROVE  /\ o \in Nat /\ DataAt(o) \in Nat /\ o + 6 <= DataAt(o) /\ DataAt(o) <= End(o)
                    /\ DataAt(o) = o + (FixedLen + attr[o].name_len)
                    /\ FixedLen + attr[o].name_len \in Nat
                    /\ DataLen(o) = attr[o].len - (FixedLen + attr[o].name_len)
                    /\ End(o) = o + attr[o].len /\ End(o) \in Nat /\ End(o) <= tail
                    /\ tail \in Nat /\ tail <= BlobLen
  BY DEF Extents
<1>1. attr[o].name_len \in Nat
  BY DEF DocInv, Headed
<1>2. tail \in Nat /\ tail <= BlobLen
  BY AttrFacts DEF DocInv
<1>3. o \in Nat
  BY HeadFacts
<1>4. DataAt(o) = o + (FixedLen + attr[o].name_len)
  BY <1>1, <1>3 DEF DataAt, FixedLen
<1>5. FixedLen + attr[o].name_len \in Nat
  BY <1>1 DEF FixedLen
<1>6. QED
  BY <1>2, <1>4, <1>5, HeadFacts

-----------------------------------------------------------------------------
(* An attribute that is where it was, or is copied to somewhere else, is read  *)
(* as it was.                                                                *)
LEMMA ValueMoves ==
    ASSUME Extents, Extents', NEW o \in DOMAIN attr, NEW p \in DOMAIN attr', attr'[p] = attr[o]
    PROVE  ReadValue(p)' = ReadValue(o)
<1>1. DataLen(p)' = DataLen(o)
  BY DEF Extents
<1>2. GetString(p)' = GetString(o)
  BY Zenon DEF GetString
<1>3. GetBuffer(p)' = GetBuffer(o)
  BY <1>1 DEF GetBuffer
<1>4. GetInt(p)' = GetInt(o)
  BY Zenon DEF GetInt
<1>5. QED
  BY <1>2, <1>3, <1>4 DEF ReadValue

(* What is in the tables of X is in X.                                       *)
ClosedUnder(X) ==
    \A o \in X, p \in DOMAIN attr :
       attr[o].type = "table" /\ DataAt(o) <= p /\ p < End(o) => p \in X

LEMMA SameRead ==
    ASSUME DocInv, DocInv', IsRead(Read), IsRead(Read)', Extents, Extents',
           NEW X \in SUBSET DOMAIN attr, ClosedUnder(X),
           NEW d \in Int, \A o \in X : o + d \in DOMAIN attr' /\ attr'[o + d] = attr[o]
    PROVE  \A o \in X : Read'[o + d] = Read[o]
<1>1. PICK g : g = Read
  OBVIOUS
<1>2. PICK h : h = Read'
  OBVIOUS
<1>3. PICK N \in Nat : N = BlobLen
  BY Bounds
<1>4. \A o \in X : o \in Nat /\ o \in DOMAIN attr /\ o < N
  <2>1. \A o \in DOMAIN attr : o \in Nat /\ o < N
    BY <1>3, Bounds DEF Extents
  <2>2. QED
    BY <2>1
<1>5. PICK D : D = {m \in 0..N : \A o \in X : o >= N - m => h[o + d] = g[o]}
  OBVIOUS
<1>6. 0 \in D
  <2>1. \A o \in X : ~(o >= N - 0)
    BY <1>3, <1>4
  <2>2. QED
    BY <1>3, <1>5, <2>1
<1>7. ASSUME NEW m \in 1..N, m - 1 \in D, NEW o \in X, o >= N - m
      PROVE  h[o + d] = g[o]
  <2>1. /\ o \in Nat /\ o \in DOMAIN attr /\ o + d \in DOMAIN attr' /\ attr'[o + d] = attr[o]
        /\ o + d \in Nat
    BY <1>4 DEF Extents
  <2>2. CASE attr[o].type # "table"
    <3>1. g[o] = [name |-> attr[o].name, value |-> ReadValue(o)]
      BY <1>1, <2>1, <2>2 DEF IsRead
    <3>2. h[o + d] = [name |-> attr'[o + d].name, value |-> ReadValue(o + d)']
      BY <1>2, <2>1, <2>2 DEF IsRead
    <3>3. ReadValue(o + d)' = ReadValue(o)
      BY <2>1, ValueMoves
    <3>4. QED
      BY <2>1, <3>1, <3>2, <3>3
  <2>3. CASE attr[o].type = "table"
    <3>1. PICK t : IsChain(attr, t, DataAt(o), End(o))
      BY <2>1, <2>3 DEF DocInv, TablesChained
    <3>2. g[o] = [name |-> attr[o].name, items |-> ItemsOf(g, t)]
      BY <1>1, <2>1, <2>3, <3>1 DEF IsRead
    <3>3. /\ DataAt(o) \in Nat /\ End(o) \in Nat /\ DataAt(o) + d \in Nat
          /\ DataAt(o + d)' = DataAt(o) + d /\ End(o + d)' = End(o) + d
      <4>1. /\ DataAt(o) = o + (FixedLen + attr[o].name_len) /\ FixedLen + attr[o].name_len \in Nat
            /\ DataAt(o) \in Nat /\ End(o) \in Nat /\ End(o) = o + attr[o].len
        BY <2>1 DEF Extents
      <4>2. /\ DataAt(o + d)' = (o + d) + (FixedLen + attr'[o + d].name_len)
            /\ DataAt(o + d)' \in Nat
            /\ End(o + d)' = (o + d) + attr'[o + d].len /\ attr[o].len \in Nat
        BY <2>1, AttrFacts DEF Extents, DocInv
      <4>3. QED
        BY <2>1, <4>1, <4>2
    <3>4. \A q \in DOMAIN attr : DataAt(o) <= q /\ q < End(o) =>
                                   q \in X /\ q + d \in DOMAIN attr' /\ attr'[q + d] = attr[q]
      BY <2>1, <2>3 DEF ClosedUnder
    <3>5. HasLengths(attr)
      BY AttrFacts DEF DocInv
    <3>6. PICK u : u = MovedBy(t, d)
      OBVIOUS
    <3>7. /\ IsChain(attr', u, DataAt(o) + d, End(o) + d)
          /\ Len(u) = Len(t) /\ \A i \in 1..Len(t) : u[i] = t[i] + d
      <4>1. \A q \in DOMAIN attr : DataAt(o) <= q /\ q < End(o) =>
                                      q + d \in DOMAIN attr' /\ attr'[q + d].len = attr[q].len
        BY <3>4
      <4>2. DataAt(o) + d \in Nat
        BY <3>3
      <4>3. PICK A, B, b, e : A = attr /\ B = attr' /\ b = DataAt(o) /\ e = End(o)
        OBVIOUS
      <4>4. IsChain(A, t, b, e) /\ HasLengths(A) /\ b + d \in Nat
        BY <3>1, <3>5, <4>2, <4>3
      <4>5. SameLengths(A, B, b, e, d)
        BY <4>1, <4>3 DEF SameLengths
      <4>6. /\ IsChain(B, u, b + d, e + d)
            /\ Len(u) = Len(t) /\ \A i \in 1..Len(t) : u[i] = t[i] + d
        BY <3>6, <4>4, <4>5, ChainMoves
      <4>7. QED
        BY <4>3, <4>6
    <3>8. IsChain(attr', u, DataAt(o + d)', End(o + d)')
      BY <3>3, <3>7
    <3>9. h[o + d] = [name |-> attr'[o + d].name, items |-> ItemsOf(h, u)]
      BY <1>2, <2>1, <2>3, <3>8 DEF IsRead
    <3>10. PICK n \in Nat : n = Len(t)
      BY <3>1 DEF IsChain
    <3>11. ASSUME NEW i \in 1..(n - 1) PROVE h[u[i]] = g[t[i]]
      <4>1. t[i] \in DOMAIN attr /\ t[i] \in Nat /\ DataAt(o) <= t[i] /\ t[i] < End(o)
        <5>1. i \in 1..n /\ i + 1 \in 1..n
          OBVIOUS
        <5>2. /\ t[i] \in DOMAIN attr /\ t[i] \in Nat /\ t[i + 1] \in Nat
              /\ DataAt(o) <= t[i] /\ t[i] < t[i + 1] /\ t[i + 1] <= End(o)
          BY <3>1, <3>5, <3>10, <5>1, ChainBounds DEF IsChain
        <5>3. QED
          BY <3>3, <5>2
      <4>2. t[i] \in X
        BY <3>4, <4>1
      <4>3. t[i] >= N - (m - 1)
        <5>1. o < DataAt(o)
          BY <2>1 DEF Extents
        <5>2. QED
          BY <1>3, <1>7, <2>1, <3>3, <4>1, <5>1
      <4>4. h[t[i] + d] = g[t[i]]
        BY <1>5, <1>7, <4>2, <4>3
      <4>5. u[i] = t[i] + d
        BY <3>7, <3>10
      <4>6. QED
        BY <4>4, <4>5
    <3>12. ItemsOf(h, u) = ItemsOf(g, t)
      BY <3>7, <3>10, <3>11 DEF ItemsOf
    <3>13. QED
      BY <2>1, <3>2, <3>9, <3>12
  <2>4. QED
    BY <2>2, <2>3
<1>8. N \in D
  <2>1. \A m \in 1..N : m - 1 \in D => m \in D
    BY <1>5, <1>7
  <2>2. \A m \in 0..N : m \in D
    BY <1>6, <2>1, UpTo
  <2>3. QED
    BY <1>3, <2>2
<1>9. \A o \in X : h[o + d] = g[o]
  <2>1. \A o \in X : o >= N - N
    BY <1>3, <1>4
  <2>2. QED
    BY <1>5, <1>8, <2>1
<1>10. QED
  BY <1>1, <1>2, <1>9

-----------------------------------------------------------------------------
(* A frame in which nothing changes is read as before.                       *)
ReadKept(b, e) == \A o \in DOMAIN attr : b <= o /\ o < e => Read'[o] = Read[o]

LEMMA ItemsStay ==
    ASSUME NEW t, NEW b, NEW e, IsChain(attr, t, b, e), HasLengths(attr), ReadKept(b, e)
    PROVE  ItemsOf(Read', t) = ItemsOf(Read, t)
<1>1. PICK n \in Nat : n = Len(t)
  BY DEF IsChain
<1>2. ASSUME NEW i \in 1..(n - 1) PROVE Read'[t[i]] = Read[t[i]]
  <2>1. i \in 1..n /\ i + 1 \in 1..n
    OBVIOUS
  <2>2. /\ t[i] \in DOMAIN attr /\ t[i] \in Nat /\ b <= t[i] /\ t[i] < t[i + 1]
        /\ t[i + 1] <= e /\ t[i + 1] \in Nat /\ e \in Nat
    BY <1>1, <2>1, ChainBounds DEF IsChain
  <2>3. t[i] < e
    BY <2>2
  <2>4. QED
    BY <2>2, <2>3 DEF ReadKept
<1>3. QED
  BY <1>1, <1>2 DEF ItemsOf

LEMMA FrameStays ==
    ASSUME DocInv, FramesRead, FramesRead',
           NEW k \in 1..(Len(tbl_stack) + 1), k \in 1..(Len(tbl_stack') + 1),
           NEW b, NEW e, b = FrameBegin(k), e = FrameEnd(k),
           FrameBegin(k)' = b, FrameEnd(k)' = e, FrameName(k)' = FrameName(k),
           LengthsKept(attr, attr', b, e), ReadKept(b, e)
    PROVE  FrameRead(k)' = FrameRead(k)
<1>1. PICK t : IsChain(attr, t, b, e)
  BY DEF DocInv, FramesChained
<1>2. HasLengths(attr)
  BY AttrFacts DEF DocInv
<1>3. IsChain(attr', t, b, e)
  BY <1>1, <1>2, ChainKept
<1>4. FrameRead(k) = [name |-> FrameName(k), items |-> ItemsOf(Read, t)]
  BY <1>1 DEF FramesRead
<1>5. FrameRead(k)' = [name |-> FrameName(k)', items |-> ItemsOf(Read', t)]
  BY <1>3 DEF FramesRead
<1>6. ItemsOf(Read', t) = ItemsOf(Read, t)
  BY <1>1, <1>2, ItemsStay
<1>7. QED
  BY <1>4, <1>5, <1>6

(* One to whose end an attribute is added has it as one item more.            *)
LEMMA FrameGrows ==
    ASSUME DocInv, FramesRead, FramesRead',
           NEW k \in 1..(Len(tbl_stack) + 1), k \in 1..(Len(tbl_stack') + 1),
           NEW b, NEW e, NEW f \in Nat, b = FrameBegin(k), e = FrameEnd(k),
           FrameBegin(k)' = b, FrameEnd(k)' = f, FrameName(k)' = FrameName(k),
           LengthsKept(attr, attr', b, e), ReadKept(b, e),
           e \in DOMAIN attr', f = e + attr'[e].len
    PROVE  FrameRead(k)' = [name |-> FrameRead(k).name, items |-> Append(FrameRead(k).items, Read'[e])]
<1>1. PICK t : IsChain(attr, t, b, e)
  BY DEF DocInv, FramesChained
<1>2. HasLengths(attr)
  BY AttrFacts DEF DocInv
<1>3. IsChain(attr', t, b, e)
  BY <1>1, <1>2, ChainKept
<1>4. PICK n \in Nat : n = Len(t) /\ n > 0 /\ t[n] = e
  BY <1>1 DEF IsChain
<1>5. PICK u : u = Append(t, f)
  OBVIOUS
<1>6. /\ IsChain(attr', u, b, f) /\ Len(u) = n + 1
      /\ \A i \in 1..n : u[i] = t[i]
  BY <1>3, <1>4, <1>5, ChainGrows
<1>7. FrameRead(k) = [name |-> FrameName(k), items |-> ItemsOf(Read, t)]
  BY <1>1 DEF FramesRead
<1>8. FrameRead(k)' = [name |-> FrameName(k)', items |-> ItemsOf(Read', u)]
  BY <1>6 DEF FramesRead
<1>9. ItemsOf(Read', t) = ItemsOf(Read, t)
  BY <1>1, <1>2, ItemsStay
<1>10. ItemsOf(Read', u) = Append(ItemsOf(Read', t), Read'[e])
  <2>1. PICK h : h = Read'
    OBVIOUS
  <2>2. PICK a : a = ItemsOf(h, t)
    OBVIOUS
  <2>3. a = [i \in 1..(n - 1) |-> h[t[i]]]
    BY <1>4, <2>2 DEF ItemsOf
  <2>4. PICK S : S = {h[t[i]] : i \in 1..(n - 1)}
    OBVIOUS
  <2>5. a \in [1..(n - 1) -> S] /\ n - 1 \in Nat
    BY <1>4, <2>3, <2>4
  <2>6. a \in Seq(S) /\ Len(a) = n - 1
    BY <2>5, FunctionIsSeq
  <2>7. Append(a, h[e]) = [i \in 1..n |-> IF i = n THEN h[e] ELSE a[i]]
    BY <1>4, <2>6
  <2>8. ItemsOf(h, u) = [i \in 1..n |-> h[u[i]]]
    BY <1>6 DEF ItemsOf
  <2>9. ASSUME NEW i \in 1..n PROVE h[u[i]] = IF i = n THEN h[e] ELSE a[i]
    BY <1>4, <1>6, <2>3
  <2>10. QED
    BY <2>1, <2>2, <2>7, <2>8, <2>9
<1>11. QED
  BY <1>7, <1>8, <1>9, <1>10

-----------------------------------------------------------------------------
(* An attribute added at the tail: what was there stays, and it becomes a tile *)
(* of what it is added to.                                                   *)
AddedAt(z, type, n, bytes) ==
    /\ DOMAIN attr' = DOMAIN attr \cup {z} /\ z \notin DOMAIN attr
    /\ \A o \in DOMAIN attr : attr'[o] = attr[o]
    /\ attr'[z].type = type /\ attr'[z].name = n /\ attr'[z].value = bytes
    /\ attr'[z].name_len = NameLen[n] + 1
    /\ attr'[z].len = FixedLen + (NameLen[n] + 1) + Len(bytes)
    /\ NameLen[n] \in Nat /\ FixedLen + (NameLen[n] + 1) < 256
    /\ tail' = z + attr'[z].len

LEMMA AddedIs ==
    ASSUME DocInv, NEW type, NEW n \in Name, NEW bytes, Len(bytes) \in Nat, Add(type, n, bytes),
           NEW z, z = tail
    PROVE  AddedAt(z, type, n, bytes)
<1>1. BlobInv
  BY DEF DocInv
<1>2. /\ DOMAIN attr' = DOMAIN attr \cup {tail} /\ tail \notin DOMAIN attr
      /\ \A o \in DOMAIN attr : attr'[o] = attr[o]
      /\ tail' = tail + attr'[tail].len
  BY <1>1, AddedAttr
<1>3. NameLen[n] \in Nat /\ FixedLen + NameLen[n] + 1 < 256
  BY Inputs
<1>4. PrefixLen(n) = FixedLen + (NameLen[n] + 1) /\ PrefixLen(n) \in Nat
  BY <1>3 DEF PrefixLen, FixedLen
<1>5. AttrLen(n, bytes) = PrefixLen(n) + Len(bytes)
  <2>1. tail \in Nat /\ tail + (PrefixLen(n) + Len(bytes)) <= BlobLen
    BY <1>1, <1>4, AttrFacts DEF Add, HasRoom
  <2>2. PrefixLen(n) + Len(bytes) <= BlobLen
    BY SMTT(60), <1>4, <2>1, Bounds
  <2>3. QED
    BY SMTT(60), <1>4, <2>2, Bounds DEF AttrLen, Width
<1>6. attr'[z] = Attr(type, n, bytes)
  <2>1. attr' = WithAttr(z, Attr(type, n, bytes))
    BY DEF Add
  <2>2. QED
    BY <2>1 DEF WithAttr
<1>7. (NameLen[n] + 1) % Width = NameLen[n] + 1
  BY SMTT(60), <1>3 DEF Width, FixedLen
<1>8. /\ attr'[z].type = type /\ attr'[z].name = n
      /\ attr'[z].value = bytes
      /\ attr'[z].name_len = (NameLen[n] + 1) % Width
      /\ attr'[z].len = AttrLen(n, bytes)
  BY <1>6 DEF Attr
<1>9. FixedLen + (NameLen[n] + 1) < 256
  BY <1>3 DEF FixedLen
<1>10. tail' = z + attr'[z].len /\ DOMAIN attr' = DOMAIN attr \cup {z} /\ z \notin DOMAIN attr
  BY <1>2
<1>11. attr'[z].len = FixedLen + (NameLen[n] + 1) + Len(bytes)
  BY <1>4, <1>5, <1>8
<1>12. attr'[z].name_len = NameLen[n] + 1
  BY <1>7, <1>8
<1>13. QED
  BY <1>2, <1>3, <1>8, <1>9, <1>10, <1>11, <1>12 DEF AddedAt

LEMMA AddedDoc ==
    ASSUME DocInv, BlobInv', NEW type, NEW n \in Name, NEW bytes, Len(bytes) \in Nat,
           Add(type, n, bytes), type = "table" => Len(bytes) = 0
    PROVE  Headed' /\ OnlyTablesFilled' /\ TablesChained'
<1>1. PICK z : z = tail
  OBVIOUS
<1>2. /\ DOMAIN attr' = DOMAIN attr \cup {z} /\ z \notin DOMAIN attr
      /\ \A o \in DOMAIN attr : attr'[o] = attr[o]
      /\ attr'[z].type = type /\ attr'[z].name = n
      /\ attr'[z].name_len = NameLen[n] + 1
      /\ attr'[z].len = FixedLen + (NameLen[n] + 1) + Len(bytes)
      /\ NameLen[n] \in Nat /\ FixedLen + (NameLen[n] + 1) < 256
  <2>1. AddedAt(z, type, n, bytes)
    BY <1>1, AddedIs
  <2>2. QED
    BY <2>1 DEF AddedAt
<1>3. /\ z \in Nat
      /\ \A o \in DOMAIN attr : o \in Nat /\ o < z /\ End(o) <= z /\ End(o) \in Nat
  BY <1>1, AttrFacts DEF DocInv, End
<1>4. \A o \in DOMAIN attr : DataAt(o)' = DataAt(o) /\ End(o)' = End(o)
  BY <1>2 DEF DataAt, End
<1>5. /\ DataAt(z)' = z + (FixedLen + (NameLen[n] + 1)) /\ DataAt(z)' \in Nat
      /\ End(z)' = DataAt(z)' + Len(bytes)
  <2>1. DataAt(z)' = z + FixedLen + attr'[z].name_len /\ End(z)' = z + attr'[z].len
    BY DEF DataAt, End
  <2>2. PICK l : l = NameLen[n] + 1
    OBVIOUS
  <2>3. PICK m : m = Len(bytes)
    OBVIOUS
  <2>4. l \in Nat /\ m \in Nat /\ FixedLen \in Nat /\ z \in Nat
    BY SMTT(60), <1>2, <1>3, <2>2, <2>3 DEF FixedLen
  <2>5. DataAt(z)' = z + FixedLen + l /\ End(z)' = z + (FixedLen + l + m)
    BY <1>2, <2>1, <2>2, <2>3
  <2>6. DataAt(z)' = z + (FixedLen + l) /\ DataAt(z)' \in Nat /\ End(z)' = DataAt(z)' + m
    BY <2>4, <2>5
  <2>7. QED
    BY <2>2, <2>3, <2>6
<1>6. \A o \in DOMAIN attr : DataAt(o) \in Nat /\ DataAt(o) <= End(o)
  BY HeadFacts
<1>7. Headed'
  <2>1. ASSUME NEW o \in DOMAIN attr'
        PROVE  /\ attr'[o].name \in Name
               /\ attr'[o].name_len \in Nat \ {0} /\ FixedLen + attr'[o].name_len < 256
               /\ DataAt(o)' <= End(o)'
    <3>1. CASE o = z
      BY <1>2, <1>5, <3>1
    <3>2. CASE o # z
      <4>1. o \in DOMAIN attr
        BY <1>2, <3>2
      <4>2. QED
        BY <1>2, <1>4, <4>1 DEF DocInv, Headed
    <3>3. QED
      BY <3>1, <3>2
  <2>2. QED
    BY <2>1 DEF Headed
<1>8. OnlyTablesFilled'
  <2>1. ASSUME NEW o \in DOMAIN attr', NEW p \in DOMAIN attr', p < o
        PROVE  DataAt(p)' <= o /\ (o < End(p)' => attr'[p].type = "table")
    <3>1. p \in DOMAIN attr
      BY <1>2, <1>3, <2>1
    <3>2. CASE o = z
      BY <1>3, <1>4, <1>6, <3>1, <3>2
    <3>3. CASE o \in DOMAIN attr
      BY <1>2, <1>4, <2>1, <3>1, <3>3 DEF DocInv, OnlyTablesFilled
    <3>4. QED
      BY <1>2, <3>2, <3>3
  <2>2. QED
    BY <2>1 DEF OnlyTablesFilled
<1>9. TablesChained'
  <2>1. ASSUME NEW o \in DOMAIN attr', attr'[o].type = "table"
        PROVE  \E t : IsChain(attr', t, DataAt(o)', End(o)')
    <3>1. CASE o = z
      <4>1. DataAt(o)' = End(o)' /\ DataAt(o)' \in Nat
        BY <1>2, <1>5, <2>1, <3>1
      <4>2. QED
        BY <4>1, EmptyChain
    <3>2. CASE o \in DOMAIN attr
      <4>1. PICK t : IsChain(attr, t, DataAt(o), End(o))
        BY <1>2, <2>1, <3>2 DEF DocInv, TablesChained
      <4>2. HasLengths(attr) /\ LengthsKept(attr, attr', DataAt(o), End(o))
        BY <1>2, AttrFacts DEF DocInv, LengthsKept
      <4>3. IsChain(attr', t, DataAt(o), End(o))
        BY <4>1, <4>2, ChainKept
      <4>4. QED
        BY <1>4, <3>2, <4>3
    <3>3. QED
      BY <1>2, <3>1, <3>2
  <2>2. QED
    BY <2>1 DEF TablesChained
<1>10. QED
  BY <1>7, <1>8, <1>9

-----------------------------------------------------------------------------
(* What is read of a value is what was added.                                *)
IntOf(bytes) ==
    LET Low(k) == IF k <= Len(bytes) THEN bytes[Len(bytes) + 1 - k] ELSE 0
    IN  Low(1) + Weight[2] * Low(2) + Weight[3] * Low(3) + Weight[4] * Signed(Low(4))

LEMMA Digits ==
    ASSUME NEW v \in Int32
    PROVE  /\ v \in Int /\ v \div 1 = v
           /\ (v % 256) + 256 * ((v \div 256) % 256) = v % 65536
           /\ (v % 256) + 256 * ((v \div 256) % 256) + 65536 * ((v \div 65536) % 256)
                + 16777216 * Signed((v \div 16777216) % 256) = v
<1>1. v \in Int /\ -32768 <= v \div 65536 /\ v \div 65536 <= 32767
  BY DEF Int32
<1>2. v \div 1 = v
  BY SMTT(60), <1>1
<1>3. (v % 256) + 256 * ((v \div 256) % 256) = v % 65536
  BY SMTT(60), <1>1
<1>4. (v % 256) + 256 * ((v \div 256) % 256) + 65536 * ((v \div 65536) % 256)
        + 16777216 * Signed((v \div 16777216) % 256) = v
  BY SMTT(60), <1>1 DEF Signed
<1>5. QED
  BY SMTT(60), <1>1, <1>2, <1>3, <1>4

LEMMA Weights ==
    /\ Weight[1] = 1 /\ Weight[2] = 256 /\ Weight[3] = 65536 /\ Weight[4] = 16777216
BY SMTT(60) DEF Weight

LEMMA IntLens ==
    /\ DOMAIN IntLen = {"u8", "u16", "u32", "u64"}
    /\ IntLen["u8"] = 1 /\ IntLen["u16"] = 2 /\ IntLen["u32"] = 4 /\ IntLen["u64"] = 8
BY DEF IntLen

LEMMA BigEndianIs ==
    ASSUME NEW v, NEW w \in Nat, NEW B, B = BigEndian(v, w)
    PROVE  /\ Len(B) = w
           /\ \A k \in 1..4 : k <= w => B[w + 1 - k] = (v \div Weight[k]) % 256
<1>1. PICK S : S = {B[i] : i \in 1..w}
  OBVIOUS
<1>2. B = [i \in 1..w |-> IF w - i < 4 THEN (v \div Weight[w - i + 1]) % 256
                          ELSE IF v < 0 THEN 255 ELSE 0]
  BY DEF BigEndian
<1>3. B \in [1..w -> S]
  BY <1>1, <1>2
<1>4. Len(B) = w
  BY <1>3, FunctionIsSeq
<1>5. ASSUME NEW k \in 1..4, k <= w PROVE B[w + 1 - k] = (v \div Weight[k]) % 256
  <2>1. w + 1 - k \in 1..w /\ w - (w + 1 - k) < 4 /\ w - (w + 1 - k) + 1 = k
    BY <1>5
  <2>2. B[w + 1 - k] = (v \div Weight[w - (w + 1 - k) + 1]) % 256
    BY <1>2, <2>1
  <2>3. QED
    BY <2>1, <2>2
<1>6. QED
  BY <1>4, <1>5

LEMMA IntReads ==
    ASSUME NEW v \in Int32, NEW t \in DOMAIN IntLen
    PROVE  IntOf(BigEndian(v, IntLen[t])) = Held(t, v)
<1>1. PICK w, B : w = IntLen[t] /\ B = BigEndian(v, w)
  OBVIOUS
<1>2. w \in {1, 2, 4, 8} /\ (t \in {"u8", "u16"} => w \in {1, 2}) /\ (t \notin {"u8", "u16"} => w \in {4, 8})
      /\ (t = "u8" <=> w = 1) /\ (t = "u16" <=> w = 2)
  BY <1>1, IntLens
<1>3. Len(B) = w /\ \A k \in 1..4 : k <= w => B[w + 1 - k] = (v \div Weight[k]) % 256
  BY SMTT(60), <1>1, <1>2, BigEndianIs
<1>4. DEFINE Low(k) == IF k <= Len(B) THEN B[Len(B) + 1 - k] ELSE 0
<1>5. IntOf(B) = Low(1) + Weight[2] * Low(2) + Weight[3] * Low(3) + Weight[4] * Signed(Low(4))
  BY DEF IntOf
<1> HIDE DEF Low
<1>6. \A k \in 1..4 : /\ k <= w => Low(k) = (v \div Weight[k]) % 256
                      /\ w < k => Low(k) = 0
  BY <1>2, <1>3 DEF Low
<1>7. /\ Low(1) = (v \div Weight[1]) % 256
      /\ w >= 2 => Low(2) = (v \div Weight[2]) % 256
      /\ w >= 4 => Low(3) = (v \div Weight[3]) % 256 /\ Low(4) = (v \div Weight[4]) % 256
      /\ w = 1 => Low(2) = 0
      /\ w <= 2 => Low(3) = 0 /\ Low(4) = 0
  BY SMTT(60), <1>2, <1>6
<1>8. Signed(0) = 0
  BY DEF Signed
<1>9. CASE w = 1
  <2>1. IntOf(B) = v % 256
    BY SMTT(60), <1>5, <1>7, <1>8, <1>9, Weights, Digits
  <2>2. Held(t, v) = v % 256
    BY SMTT(60), <1>2, <1>9, IntLens, Weights DEF Held
  <2>3. QED
    BY <1>1, <2>1, <2>2
<1>10. CASE w = 2
  <2>1. IntOf(B) = v % 65536
    BY SMTT(60), <1>5, <1>7, <1>8, <1>10, Weights, Digits
  <2>2. Held(t, v) = v % 65536
    BY SMTT(60), <1>2, <1>10, IntLens, Weights DEF Held
  <2>3. QED
    BY SMTT(60), <1>1, <2>1, <2>2
<1>11. CASE w \in {4, 8}
  <2>1. IntOf(B) = v
    BY SMTT(60), <1>5, <1>7, <1>11, Weights, Digits
  <2>2. Held(t, v) = v
    BY <1>2, <1>11 DEF Held
  <2>3. QED
    BY <1>1, <2>1, <2>2
<1>12. QED
  BY <1>2, <1>9, <1>10, <1>11

StringOf(bytes) ==
    LET zero == CHOOSE k \in DOMAIN bytes : bytes[k] = 0 /\ \A j \in 1..(k - 1) : bytes[j] # 0
    IN  SubSeq(bytes, 1, zero - 1)

LEMMA StringReads ==
    ASSUME NEW s \in String
    PROVE  StringOf(Append(s, 0)) = s
<1>1. s \in Seq(Byte \ {0})
  BY BlobAssumption DEF BlobAssumption
<1>2. PICK n, B : n = Len(s) /\ B = Append(s, 0)
  OBVIOUS
<1>3. n \in Nat /\ \A i \in 1..n : s[i] # 0
  BY <1>1, <1>2
<1>4. B \in Seq(Byte) /\ Len(B) = n + 1 /\ DOMAIN B = 1..(n + 1)
      /\ B[n + 1] = 0 /\ \A i \in 1..n : B[i] = s[i]
  <2>1. s \in Seq(Byte)
    BY Inputs
  <2>2. QED
    BY <1>2, <2>1 DEF Byte
<1>5. PICK e : e = CHOOSE k \in DOMAIN B : B[k] = 0 /\ \A j \in 1..(k - 1) : B[j] # 0
  OBVIOUS
<1>6. n + 1 \in DOMAIN B /\ B[n + 1] = 0 /\ \A j \in 1..((n + 1) - 1) : B[j] # 0
  BY <1>3, <1>4
<1>7. e \in DOMAIN B /\ B[e] = 0
  BY <1>5, <1>6
<1>8. e = n + 1
  BY <1>3, <1>4, <1>7
<1>9. StringOf(B) = SubSeq(B, 1, e - 1)
  BY Zenon, <1>5 DEF StringOf
<1>10. SubSeq(B, 1, n) = s
  <2>1. s \in Seq(Byte)
    BY Inputs
  <2>2. SubSeq(B, 1, n) \in Seq(Byte) /\ Len(SubSeq(B, 1, n)) = n
        /\ \A i \in 1..n : SubSeq(B, 1, n)[i] = B[i]
    BY <1>3, <1>4
  <2>3. QED
    BY <1>2, <1>4, <2>1, <2>2
<1>11. QED
  BY <1>2, <1>3, <1>8, <1>9, <1>10

LEMMA BufferReads ==
    ASSUME NEW b \in Buffer
    PROVE  SubSeq(b, 1, Len(b)) = b
<1>1. b \in Seq(Byte)
  BY Inputs
<1>2. PICK n, c : n = Len(b) /\ c = SubSeq(b, 1, n)
  OBVIOUS
<1>3. c \in Seq(Byte) /\ Len(c) = n /\ \A i \in 1..n : c[i] = b[i]
  BY <1>1, <1>2
<1>4. QED
  BY <1>1, <1>2, <1>3

(* The bytes of each value that is added.                                    *)
BytesOf(type, bytes) ==
    \/ type \in DOMAIN IntLen /\ \E v \in Number : bytes = BigEndian(v, IntLen[type])
    \/ type = "string" /\ \E s \in String : bytes = Append(s, 0)
    \/ type = "buffer" /\ bytes \in Buffer

LEMMA ValueIsAdded ==
    ASSUME NEW n \in Name, AddValue(n)
    PROVE  \E type, bytes : Add(type, n, bytes) /\ Len(bytes) \in Nat /\ type # "table"
                            /\ BytesOf(type, bytes)
<1>1. CASE \E type \in DOMAIN IntLen, v \in Number : AddInt(type, n, v)
  <2>1. PICK type \in DOMAIN IntLen, v \in Number : AddInt(type, n, v)
    BY <1>1
  <2>2. PICK w : w = IntLen[type]
    OBVIOUS
  <2>3. type # "table" /\ w \in Nat
    BY <2>1, <2>2, IntLens
  <2>4. PICK bytes : bytes = BigEndian(v, w)
    OBVIOUS
  <2>5. Len(bytes) \in Nat
    BY <2>3, <2>4, BigEndianIs
  <2>6. Add(type, n, bytes)
    BY <2>1, <2>2, <2>4 DEF AddInt
  <2>7. BytesOf(type, bytes)
    BY <2>1, <2>2, <2>4 DEF BytesOf
  <2>8. QED
    BY <2>3, <2>5, <2>6, <2>7
<1>2. CASE \E s \in String : AddString(n, s)
  <2>1. PICK s \in String : AddString(n, s)
    BY <1>2
  <2>2. PICK bytes : bytes = Append(s, 0)
    OBVIOUS
  <2>3. Len(bytes) \in Nat
    BY <2>2, Inputs DEF Byte
  <2>4. Add("string", n, bytes) /\ BytesOf("string", bytes)
    BY <2>1, <2>2 DEF AddString, BytesOf
  <2>5. QED
    BY <2>3, <2>4
<1>3. CASE \E b \in Buffer : AddBuffer(n, b)
  <2>1. PICK b \in Buffer : AddBuffer(n, b)
    BY <1>3
  <2>2. Len(b) \in Nat
    BY Inputs
  <2>3. Add("buffer", n, b) /\ BytesOf("buffer", b)
    BY <2>1 DEF AddBuffer, BytesOf
  <2>4. QED
    BY <2>2, <2>3
<1>4. QED
  BY <1>1, <1>2, <1>3 DEF AddValue

LEMMA AddedReads ==
    ASSUME NEW type, NEW n, NEW bytes, NEW z, AddedAt(z, type, n, bytes), Len(bytes) \in Nat,
           BytesOf(type, bytes), Extents'
    PROVE  ReadValue(z)' \in Value
<1>1. /\ z \in DOMAIN attr' /\ attr'[z].type = type /\ attr'[z].value = bytes
      /\ attr'[z].name_len = NameLen[n] + 1
      /\ attr'[z].len = FixedLen + (NameLen[n] + 1) + Len(bytes)
      /\ NameLen[n] \in Nat
  BY DEF AddedAt
<1>2. DataLen(z)' = Len(bytes)
  <2>1. DataLen(z)' = attr'[z].len - (FixedLen + attr'[z].name_len)
    BY <1>1 DEF Extents
  <2>2. PICK l, m : l = NameLen[n] /\ m = Len(bytes)
    OBVIOUS
  <2>3. l \in Nat /\ m \in Nat /\ FixedLen \in Nat
    BY <1>1, <2>2 DEF FixedLen
  <2>4. DataLen(z)' = (FixedLen + (l + 1) + m) - (FixedLen + (l + 1))
    BY <1>1, <2>1, <2>2
  <2>5. QED
    BY SMTT(60), <2>2, <2>3, <2>4
<1>3. ReadValue(z)' =
         [type |-> type,
          data |-> CASE type = "string" -> StringOf(bytes)
                     [] type = "buffer" -> SubSeq(bytes, 1, Len(bytes))
                     [] OTHER -> IntOf(bytes)]
  <2>1. GetString(z)' = StringOf(bytes)
    BY Zenon, <1>1 DEF GetString, StringOf
  <2>2. GetBuffer(z)' = SubSeq(bytes, 1, Len(bytes))
    BY <1>1, <1>2 DEF GetBuffer
  <2>3. GetInt(z)' = IntOf(bytes)
    BY Zenon, <1>1 DEF GetInt, IntOf
  <2>4. ReadValue(z)' =
         [type |-> attr'[z].type,
          data |-> CASE attr'[z].type = "string" -> GetString(z)'
                     [] attr'[z].type = "buffer" -> GetBuffer(z)'
                     [] OTHER -> GetInt(z)']
    BY Zenon DEF ReadValue
  <2>5. QED
    BY <1>1, <2>1, <2>2, <2>3, <2>4
<1>4. CASE type \in DOMAIN IntLen /\ \E v \in Number : bytes = BigEndian(v, IntLen[type])
  <2>1. PICK v \in Number : bytes = BigEndian(v, IntLen[type])
    BY <1>4
  <2>2. v \in Int32
    BY BlobAssumption DEF BlobAssumption
  <2>3. IntOf(bytes) = Held(type, v)
    BY <1>4, <2>1, <2>2, IntReads
  <2>4. type # "string" /\ type # "buffer"
    BY <1>4, IntLens
  <2>5. ReadValue(z)' = [type |-> type, data |-> Held(type, v)]
    BY <1>3, <2>3, <2>4
  <2>6. QED
    BY <1>4, <2>5 DEF Value
<1>5. CASE type = "string" /\ \E s \in String : bytes = Append(s, 0)
  <2>1. PICK s \in String : bytes = Append(s, 0)
    BY <1>5
  <2>2. ReadValue(z)' = [type |-> "string", data |-> s]
    BY <1>3, <1>5, <2>1, StringReads
  <2>3. QED
    BY <2>2 DEF Value
<1>6. CASE type = "buffer" /\ bytes \in Buffer
  <2>1. ReadValue(z)' = [type |-> "buffer", data |-> bytes]
    BY <1>3, <1>6, BufferReads
  <2>2. QED
    BY <1>6, <2>1 DEF Value
<1>7. QED
  BY <1>4, <1>5, <1>6 DEF BytesOf

-----------------------------------------------------------------------------
(* Where the open tables are.                                                *)
StackIs ==
    /\ Len(tbl_stack) \in Nat
    /\ \A k \in 1..Len(tbl_stack) :
         /\ tbl_stack[k] \in DOMAIN attr /\ tbl_stack[k] \in Nat
         /\ attr[tbl_stack[k]].type = "table"
         /\ tbl_stack[k] < tail
         /\ \A j \in 1..(k - 1) : tbl_stack[j] < tbl_stack[k]
         /\ \A o \in DOMAIN attr : o < tbl_stack[k] => End(o) <= tbl_stack[k]

LEMMA StackFacts == DocInv => StackIs
<1> SUFFICES ASSUME DocInv PROVE StackIs
  OBVIOUS
<1>1. BlobInv
  BY DEF DocInv
<1>2. Len(tbl_stack) \in Nat /\ \A k \in 1..Len(tbl_stack) : tbl_stack[k] \in DOMAIN attr
  BY <1>1 DEF BlobInv, BlobTyped
<1>3. \A o \in DOMAIN attr : o \in Nat /\ o < tail
  BY <1>1, AttrFacts
<1>4. \A k \in 1..Len(tbl_stack) : /\ attr[tbl_stack[k]].type = "table"
                                   /\ \A j \in 1..(k - 1) : tbl_stack[j] < tbl_stack[k]
  BY <1>1 DEF BlobInv, TablesPaired
<1>5. \A o \in DOMAIN attr, k \in 1..Len(tbl_stack) : o < tbl_stack[k] => End(o) <= tbl_stack[k]
  BY <1>1 DEF BlobInv, ExtentsNest
<1>6. QED
  BY <1>2, <1>3, <1>4, <1>5 DEF StackIs

LEMMA FrameBounds ==
    ASSUME DocInv, NEW k \in 1..(Len(tbl_stack) + 1)
    PROVE  /\ FrameBegin(k) \in Nat /\ FrameEnd(k) \in Nat
           /\ FrameBegin(k) <= FrameEnd(k) /\ FrameEnd(k) <= tail
           /\ k <= Len(tbl_stack) => FrameEnd(k) = tbl_stack[k] /\ FrameEnd(k) < tail
           /\ k = Len(tbl_stack) + 1 => FrameEnd(k) = tail
<1>1. PICK t : IsChain(attr, t, FrameBegin(k), FrameEnd(k))
  BY DEF DocInv, FramesChained
<1>2. HasLengths(attr) /\ tail \in Nat
  BY AttrFacts DEF DocInv
<1>3. FrameBegin(k) \in Nat /\ FrameEnd(k) \in Nat /\ FrameBegin(k) <= FrameEnd(k)
  BY <1>1, <1>2, ChainBounds
<1>4. Len(tbl_stack) \in Nat /\ \A i \in 1..Len(tbl_stack) : tbl_stack[i] < tail
  BY StackFacts DEF StackIs
<1>5. CASE k <= Len(tbl_stack)
  BY <1>2, <1>3, <1>4, <1>5 DEF FrameEnd
<1>6. CASE k = Len(tbl_stack) + 1
  BY <1>2, <1>3, <1>4, <1>6 DEF FrameEnd
<1>7. QED
  BY <1>4, <1>5, <1>6

(* A step that leaves what was there and adds an attribute at z, with what is  *)
(* in it.                                                                    *)
GrownAt(z) ==
    /\ tail = z /\ z \notin DOMAIN attr
    /\ DOMAIN attr \subseteq DOMAIN attr' /\ z \in DOMAIN attr'
    /\ \A o \in DOMAIN attr : attr'[o] = attr[o]
    /\ tail' = z + attr'[z].len

(* The frames of which the step changes nothing begin where they began.        *)
LEMMA BeginsKept ==
    ASSUME DocInv, NEW k \in 1..(Len(tbl_stack) + 1),
           \A i \in 1..(k - 1) : /\ tbl_stack'[i] = tbl_stack[i]
                                 /\ attr'[tbl_stack[i]].name_len = attr[tbl_stack[i]].name_len
                                 /\ attr'[tbl_stack[i]].name = attr[tbl_stack[i]].name
    PROVE  FrameBegin(k)' = FrameBegin(k) /\ FrameName(k)' = FrameName(k)
<1>1. CASE k = 1
  BY <1>1 DEF FrameBegin, FrameName
<1>2. CASE k # 1
  <2>1. k - 1 \in 1..(k - 1)
    BY <1>2
  <2>2. PICK s : s = tbl_stack[k - 1]
    OBVIOUS
  <2>3. tbl_stack'[k - 1] = s /\ attr'[s].name_len = attr[s].name_len /\ attr'[s].name = attr[s].name
    BY <2>1, <2>2
  <2>4. DataAt(s)' = DataAt(s)
    BY <2>3 DEF DataAt
  <2>5. FrameBegin(k) = DataAt(s) /\ FrameName(k) = attr[s].name
    BY <1>2, <2>2 DEF FrameBegin, FrameName
  <2>6. FrameBegin(k)' = DataAt(s)' /\ FrameName(k)' = attr'[s].name
    BY <1>2, <2>3 DEF FrameBegin, FrameName, DataAt
  <2>7. QED
    BY <2>3, <2>4, <2>5, <2>6
<1>3. QED
  BY <1>1, <1>2

LEMMA GrownFrames ==
    ASSUME DocInv, BlobInv', NEW z, GrownAt(z), tbl_stack' = tbl_stack
    PROVE  /\ \A k \in 1..(Len(tbl_stack) + 1) :
                /\ FrameBegin(k)' = FrameBegin(k) /\ FrameName(k)' = FrameName(k)
                /\ LengthsKept(attr, attr', FrameBegin(k), FrameEnd(k))
           /\ \A k \in 1..Len(tbl_stack) : FrameEnd(k)' = FrameEnd(k)
           /\ FrameEnd(Len(tbl_stack) + 1) = z /\ FrameEnd(Len(tbl_stack) + 1)' = tail'
           /\ FramesChained'
<1>1. PICK L \in Nat : L = Len(tbl_stack)
  BY StackFacts DEF StackIs
<1>2. \A i \in 1..L : attr'[tbl_stack[i]] = attr[tbl_stack[i]]
  BY <1>1, StackFacts DEF StackIs, GrownAt
<1>3. \A k \in 1..(L + 1) : FrameBegin(k)' = FrameBegin(k) /\ FrameName(k)' = FrameName(k)
  <2> SUFFICES ASSUME NEW k \in 1..(L + 1)
               PROVE  FrameBegin(k)' = FrameBegin(k) /\ FrameName(k)' = FrameName(k)
    OBVIOUS
  <2>1. \A i \in 1..(k - 1) : i \in 1..L
    OBVIOUS
  <2>2. QED
    BY <1>1, <1>2, <2>1, BeginsKept
<1>4. \A k \in 1..L : FrameEnd(k)' = FrameEnd(k)
  BY <1>1 DEF FrameEnd
<1>5. FrameEnd(L + 1) = z /\ FrameEnd(L + 1)' = tail'
  BY <1>1 DEF FrameEnd, GrownAt
<1>6. \A k \in 1..(L + 1) : LengthsKept(attr, attr', FrameBegin(k), FrameEnd(k))
  BY DEF LengthsKept, GrownAt
<1>7. ASSUME NEW k \in 1..(L + 1) PROVE \E t : IsChain(attr', t, FrameBegin(k)', FrameEnd(k)')
  <2>1. PICK t : IsChain(attr, t, FrameBegin(k), FrameEnd(k))
    BY <1>1 DEF DocInv, FramesChained
  <2>2. HasLengths(attr)
    BY AttrFacts DEF DocInv
  <2>3. IsChain(attr', t, FrameBegin(k), FrameEnd(k))
    BY <1>6, <2>1, <2>2, ChainKept
  <2>4. CASE k \in 1..L
    BY <1>3, <1>4, <2>3, <2>4
  <2>5. CASE k = L + 1
    <3>1. tail' \in Nat
      BY Bounds DEF BlobInv, BlobTyped
    <3>2. z \in DOMAIN attr' /\ tail' = z + attr'[z].len
      BY DEF GrownAt
    <3>3. IsChain(attr', t, FrameBegin(k), z)
      BY <1>5, <2>3, <2>5
    <3>4. IsChain(attr', Append(t, tail'), FrameBegin(k), tail')
      BY <3>1, <3>2, <3>3, ChainGrows
    <3>5. QED
      BY <1>3, <1>5, <2>5, <3>4
  <2>6. QED
    BY <2>4, <2>5
<1>8. FramesChained'
  BY <1>1, <1>7 DEF FramesChained
<1>9. QED
  BY <1>1, <1>3, <1>4, <1>5, <1>6, <1>8

LEMMA AddedGrows ==
    ASSUME NEW z, NEW type, NEW n, NEW bytes, AddedAt(z, type, n, bytes), z = tail
    PROVE  GrownAt(z)
BY DEF AddedAt, GrownAt

LEMMA DocValue ==
    ASSUME DocInv, NEW n \in Name, AddValue(n)
    PROVE  DocInv'
<1>1. BlobInv' /\ tbl_stack' = tbl_stack
  BY StepValue DEF DocInv, AddValue
<1>2. PICK type, bytes : Add(type, n, bytes) /\ Len(bytes) \in Nat /\ type # "table"
  BY ValueIsAdded
<1>3. PICK z : z = tail
  OBVIOUS
<1>4. Headed' /\ OnlyTablesFilled' /\ TablesChained'
  BY <1>1, <1>2, AddedDoc
<1>5. GrownAt(z)
  BY <1>2, <1>3, AddedIs, AddedGrows
<1>6. FramesChained'
  BY <1>1, <1>5, GrownFrames
<1>7. QED
  BY <1>1, <1>4, <1>6 DEF DocInv

LEMMA OpensAt ==
    ASSUME DocInv, NEW n \in Name, AddTableStart(n), NEW z, z = tail
    PROVE  /\ AddedAt(z, "table", n, <<>>)
           /\ tbl_stack' = Append(tbl_stack, z)
           /\ Len(tbl_stack') = Len(tbl_stack) + 1
           /\ tbl_stack'[Len(tbl_stack) + 1] = z
           /\ \A k \in 1..Len(tbl_stack) : tbl_stack'[k] = tbl_stack[k]
           /\ DataAt(z)' = tail' /\ tail' \in Nat
<1>1. Add("table", n, <<>>) /\ Len(<<>>) \in Nat /\ Len(<<>>) = 0
  BY DEF AddTableStart
<1>2. AddedAt(z, "table", n, <<>>)
  BY <1>1, AddedIs
<1>3. Len(tbl_stack) = nesting /\ nesting < MaxDepth /\ nesting \in Nat
  BY DEF AddTableStart, DocInv, BlobInv, BlobTyped, TablesPaired
<1>4. tbl_stack' = Append(tbl_stack, z)
  BY <1>3, StackTakes DEF AddTableStart, Pushed
<1>5. tbl_stack \in Seq(DOMAIN attr)
  BY DEF DocInv, BlobInv, BlobTyped
<1>6. /\ Len(tbl_stack') = Len(tbl_stack) + 1
      /\ tbl_stack'[Len(tbl_stack) + 1] = z
      /\ \A k \in 1..Len(tbl_stack) : tbl_stack'[k] = tbl_stack[k]
  BY <1>4, <1>5
<1>7. DataAt(z)' = tail' /\ tail' \in Nat
  <2>1. PICK l : l = NameLen[n] + 1
    OBVIOUS
  <2>2. /\ l \in Nat /\ FixedLen \in Nat /\ attr'[z].name_len = l
        /\ attr'[z].len = FixedLen + l + Len(<<>>) /\ tail' = z + attr'[z].len
    BY <1>2, <2>1 DEF AddedAt, FixedLen
  <2>3. z \in Nat
    BY AttrFacts DEF DocInv
  <2>4. tail' = z + FixedLen + l
    BY <1>1, <2>2, <2>3
  <2>5. DataAt(z)' = z + FixedLen + l
    BY <2>2 DEF DataAt
  <2>6. QED
    BY <2>2, <2>3, <2>4, <2>5
<1>8. QED
  BY <1>2, <1>4, <1>6, <1>7

(* When a table is opened, the innermost of those that were open ends there.   *)
LEMMA OpenedFrames ==
    ASSUME DocInv, NEW n \in Name, AddTableStart(n), NEW z, z = tail,
           NEW L \in Nat, L = Len(tbl_stack)
    PROVE  /\ \A k \in 1..(L + 1) :
                /\ FrameBegin(k)' = FrameBegin(k) /\ FrameName(k)' = FrameName(k)
                /\ FrameEnd(k)' = FrameEnd(k)
                /\ LengthsKept(attr, attr', FrameBegin(k), FrameEnd(k))
           /\ FrameBegin(L + 2)' = tail' /\ FrameEnd(L + 2)' = tail'
           /\ FrameName(L + 2)' = n
           /\ FramesChained'
<1>1. L \in Nat /\ L = Len(tbl_stack)
  OBVIOUS
<1>2. /\ AddedAt(z, "table", n, <<>>)
      /\ Len(tbl_stack') = L + 1 /\ tbl_stack'[L + 1] = z
      /\ \A k \in 1..L : tbl_stack'[k] = tbl_stack[k]
      /\ DataAt(z)' = tail' /\ tail' \in Nat
  BY <1>1, OpensAt
<1>3. /\ \A o \in DOMAIN attr : o \in DOMAIN attr' /\ attr'[o] = attr[o]
      /\ attr'[z].name = n
  BY <1>2 DEF AddedAt
<1>4. \A i \in 1..L : attr'[tbl_stack[i]] = attr[tbl_stack[i]]
  BY <1>1, <1>3, StackFacts DEF StackIs
<1>5. \A k \in 1..(L + 1) : FrameBegin(k)' = FrameBegin(k) /\ FrameName(k)' = FrameName(k)
  <2> SUFFICES ASSUME NEW k \in 1..(L + 1)
               PROVE  FrameBegin(k)' = FrameBegin(k) /\ FrameName(k)' = FrameName(k)
    OBVIOUS
  <2>1. \A i \in 1..(k - 1) : i \in 1..L
    OBVIOUS
  <2>2. QED
    BY <1>1, <1>2, <1>4, <2>1, BeginsKept
<1>6. \A k \in 1..(L + 1) : FrameEnd(k)' = FrameEnd(k)
  <2>1. ASSUME NEW k \in 1..L PROVE FrameEnd(k)' = tbl_stack'[k] /\ FrameEnd(k) = tbl_stack[k]
    BY <1>1, <1>2 DEF FrameEnd
  <2>2. FrameEnd(L + 1)' = z /\ FrameEnd(L + 1) = z
    BY <1>1, <1>2 DEF FrameEnd
  <2>3. QED
    BY <1>2, <2>1, <2>2
<1>7. \A k \in 1..(L + 1) : LengthsKept(attr, attr', FrameBegin(k), FrameEnd(k))
  BY <1>3 DEF LengthsKept
<1>8. FrameBegin(L + 2)' = tail' /\ FrameEnd(L + 2)' = tail' /\ FrameName(L + 2)' = n
  <2>1. (L + 2) - 1 = L + 1 /\ L + 2 # 1 /\ ~(L + 2 <= L + 1)
    OBVIOUS
  <2>2. FrameBegin(L + 2)' = DataAt(z)' /\ FrameName(L + 2)' = attr'[z].name
    BY <1>2, <2>1 DEF FrameBegin, FrameName, DataAt
  <2>3. FrameEnd(L + 2)' = tail'
    BY <1>2, <2>1 DEF FrameEnd
  <2>4. QED
    BY <1>2, <1>3, <2>2, <2>3
<1>9. ASSUME NEW k \in 1..(L + 1) PROVE \E t : IsChain(attr', t, FrameBegin(k)', FrameEnd(k)')
  <2>1. PICK t : IsChain(attr, t, FrameBegin(k), FrameEnd(k))
    BY <1>1 DEF DocInv, FramesChained
  <2>2. HasLengths(attr)
    BY AttrFacts DEF DocInv
  <2>3. IsChain(attr', t, FrameBegin(k), FrameEnd(k))
    BY <1>7, <2>1, <2>2, ChainKept
  <2>4. QED
    BY <1>5, <1>6, <2>3
<1>10. \E t : IsChain(attr', t, FrameBegin(L + 2)', FrameEnd(L + 2)')
  BY <1>2, <1>8, EmptyChain
<1>11. FramesChained'
  <2>1. \A k \in 1..(L + 2) : k \in 1..(L + 1) \/ k = L + 2
    OBVIOUS
  <2>2. Len(tbl_stack') + 1 = L + 2
    BY <1>2
  <2>3. QED
    BY <1>9, <1>10, <2>1, <2>2 DEF FramesChained
<1>12. \A k \in 1..(L + 1) : /\ FrameBegin(k)' = FrameBegin(k) /\ FrameName(k)' = FrameName(k)
                             /\ FrameEnd(k)' = FrameEnd(k)
                             /\ LengthsKept(attr, attr', FrameBegin(k), FrameEnd(k))
  BY <1>5, <1>6, <1>7
<1>13. QED
  BY <1>8, <1>11, <1>12

LEMMA DocTableStart ==
    ASSUME DocInv, NEW n \in Name, AddTableStart(n)
    PROVE  DocInv'
<1>1. BlobInv'
  BY StepTableStart DEF DocInv
<1>2. Add("table", n, <<>>) /\ Len(<<>>) \in Nat /\ Len(<<>>) = 0
  BY DEF AddTableStart
<1>3. Headed' /\ OnlyTablesFilled' /\ TablesChained'
  BY <1>1, <1>2, AddedDoc
<1>4. FramesChained'
  <2>1. Len(tbl_stack) \in Nat
    BY StackFacts DEF StackIs
  <2>2. QED
    BY <2>1, OpenedFrames
<1>5. QED
  BY <1>1, <1>3, <1>4 DEF DocInv

LEMMA EmptyDoc ==
    ASSUME BlobInv, attr = <<>>, tail = 0, tbl_stack = <<>>
    PROVE  DocInv
<1>1. DOMAIN attr = {}
  OBVIOUS
<1>2. Headed /\ OnlyTablesFilled /\ TablesChained
  BY <1>1 DEF Headed, OnlyTablesFilled, TablesChained
<1>3. Len(tbl_stack) = 0
  OBVIOUS
<1>4. ASSUME NEW k \in 1..1 PROVE \E t : IsChain(attr, t, FrameBegin(k), FrameEnd(k))
  <2>1. FrameBegin(k) = 0 /\ FrameEnd(k) = 0
    BY <1>3 DEF FrameBegin, FrameEnd
  <2>2. IsChain(attr, <<0>>, 0, 0)
    BY EmptyChain
  <2>3. QED
    BY <2>1, <2>2
<1>5. FramesChained
  BY <1>3, <1>4 DEF FramesChained
<1>6. QED
  BY <1>2, <1>5 DEF DocInv

LEMMA InitDoc == BlobInit => DocInv
BY InitBlob, EmptyDoc DEF BlobInit

LEMMA EmptyStack == BlobInv /\ nesting = 0 => tbl_stack = <<>>
<1> SUFFICES ASSUME BlobInv, nesting = 0 PROVE tbl_stack = <<>>
  OBVIOUS
<1>1. tbl_stack \in Seq(DOMAIN attr) /\ Len(tbl_stack) = 0
  BY DEF BlobInv, BlobTyped, TablesPaired
<1>2. QED
  BY <1>1

LEMMA DocReset ==
    ASSUME DocInv, Reset
    PROVE  DocInv'
<1>1. BlobInv'
  BY StepBlob DEF DocInv, BlobNext
<1>2. tbl_stack = <<>>
  BY EmptyStack DEF DocInv, Reset
<1>3. attr' = <<>> /\ tail' = 0 /\ tbl_stack' = <<>>
  BY <1>2 DEF Reset
<1>4. (BlobInv /\ attr = <<>> /\ tail = 0 /\ tbl_stack = <<>> => DocInv)'
  BY EmptyDoc, PTL
<1>5. QED
  BY <1>1, <1>3, <1>4

-----------------------------------------------------------------------------
(* A table that is closed: its length is what has come after it.              *)
ClosesAt(s, L) ==
    /\ L > 0 /\ s = tbl_stack[L] /\ s \in DOMAIN attr /\ attr[s].type = "table"
    /\ DOMAIN attr' = DOMAIN attr
    /\ \A o \in DOMAIN attr : o # s => attr'[o] = attr[o]
    /\ attr'[s].type = attr[s].type /\ attr'[s].name = attr[s].name
    /\ attr'[s].name_len = attr[s].name_len
    /\ attr'[s].len = tail - s /\ tail' = tail
    /\ Len(tbl_stack') = L - 1
    /\ \A i \in 1..(L - 1) : tbl_stack'[i] = tbl_stack[i]

LEMMA ClosesIs ==
    ASSUME DocInv, AddTableEnd, NEW L \in Nat, L = Len(tbl_stack), NEW s, s = tbl_stack[L]
    PROVE  ClosesAt(s, L)
<1>1. BlobInv
  BY DEF DocInv
<1>2. L > 0 /\ tbl_stack # <<>>
  <2>1. L = nesting /\ nesting > 0
    BY <1>1 DEF BlobInv, TablesPaired, AddTableEnd
  <2>2. L > 0
    BY <2>1
  <2>3. Len(<<>>) = 0
    OBVIOUS
  <2>4. QED
    BY <2>2, <2>3
<1>3. /\ attr' = [attr EXCEPT ![s].len = TableLen(s)]
      /\ tbl_stack' = Popped(tbl_stack) /\ tail' = tail
  BY <1>2 DEF AddTableEnd, Top
<1>4. s \in DOMAIN attr /\ s \in Nat /\ attr[s].type = "table" /\ s < tail
  BY <1>2, StackFacts DEF StackIs
<1>5. TableLen(s) = tail - s
  <2>1. tail \in Nat /\ tail <= BlobLen
    BY <1>1, AttrFacts
  <2>2. tail - s \in Nat /\ tail - s < 65536
    BY <1>4, <2>1, Bounds, SMTT(60)
  <2>3. QED
    BY <2>2, SMTT(60) DEF TableLen, Width
<1>6. DOMAIN attr[s] = {"type", "len", "name_len", "name", "value"}
  BY <1>1, <1>4 DEF BlobInv, BlobTyped, Fields
<1>7. DOMAIN attr' = DOMAIN attr /\ \A o \in DOMAIN attr : o # s => attr'[o] = attr[o]
  BY <1>3
<1>8. attr'[s] = [attr[s] EXCEPT !.len = tail - s]
  BY <1>3, <1>4, <1>5
<1>9. /\ attr'[s].type = attr[s].type /\ attr'[s].name = attr[s].name
      /\ attr'[s].name_len = attr[s].name_len /\ attr'[s].len = tail - s
  BY <1>6, <1>8
<1>10. tbl_stack \in Seq(DOMAIN attr)
  BY <1>1 DEF BlobInv, BlobTyped
<1>11. Len(tbl_stack') = L - 1 /\ \A i \in 1..(L - 1) : tbl_stack'[i] = tbl_stack[i]
  BY <1>2, <1>3, <1>10 DEF Popped
<1>12. QED
  BY <1>2, <1>3, <1>4, <1>7, <1>9, <1>11 DEF ClosesAt

(* It lies in none of the attributes before it.                              *)
LEMMA NoneCut ==
    ASSUME DocInv, NEW L \in Nat, L = Len(tbl_stack), NEW s, L > 0, s = tbl_stack[L],
           NEW o \in DOMAIN attr, attr[o].type = "table" \/ o # s
    PROVE  ~(DataAt(o) <= s /\ s < End(o))
<1>1. s \in DOMAIN attr /\ s \in Nat /\ (o < s => End(o) <= s)
  BY StackFacts DEF StackIs
<1>2. o \in Nat /\ DataAt(o) \in Nat /\ End(o) \in Nat /\ o < DataAt(o)
  BY ExtentsAre DEF Extents
<1>3. QED
  BY <1>1, <1>2

LEMMA ClosedFrames ==
    ASSUME DocInv, NEW L \in Nat, L = Len(tbl_stack), NEW s, ClosesAt(s, L)
    PROVE  /\ \A k \in 1..L :
                /\ FrameBegin(k)' = FrameBegin(k) /\ FrameName(k)' = FrameName(k)
                /\ LengthsKept(attr, attr', FrameBegin(k), FrameEnd(k))
           /\ \A k \in 1..(L - 1) : FrameEnd(k)' = FrameEnd(k)
           /\ FrameEnd(L) = s /\ FrameEnd(L)' = tail /\ tail = s + attr'[s].len
           /\ FrameBegin(L + 1) = DataAt(s) /\ FrameEnd(L + 1) = tail /\ FrameName(L + 1) = attr[s].name
           /\ LengthsKept(attr, attr', FrameBegin(L + 1), FrameEnd(L + 1))
<1>1. L > 0 /\ L \in 1..L /\ s = tbl_stack[L] /\ s \in DOMAIN attr /\ s \in Nat
  BY StackFacts DEF ClosesAt, StackIs
<1>2. /\ DOMAIN attr' = DOMAIN attr /\ \A o \in DOMAIN attr : o # s => attr'[o] = attr[o]
      /\ attr'[s].name_len = attr[s].name_len /\ attr'[s].name = attr[s].name
      /\ attr'[s].len = tail - s /\ tail' = tail
      /\ Len(tbl_stack') = L - 1 /\ \A i \in 1..(L - 1) : tbl_stack'[i] = tbl_stack[i]
  BY DEF ClosesAt
<1>3. /\ tail \in Nat
      /\ \A o \in DOMAIN attr : o \in Nat
  BY AttrFacts DEF DocInv
<1>4. \A k \in 1..L : FrameBegin(k)' = FrameBegin(k) /\ FrameName(k)' = FrameName(k)
  <2> SUFFICES ASSUME NEW k \in 1..L
               PROVE  FrameBegin(k)' = FrameBegin(k) /\ FrameName(k)' = FrameName(k)
    OBVIOUS
  <2>1. \A i \in 1..(k - 1) : i \in 1..(L - 1) /\ i \in 1..L
    OBVIOUS
  <2>2. \A i \in 1..L : tbl_stack[i] \in DOMAIN attr
    BY StackFacts DEF StackIs
  <2>3. \A i \in 1..(k - 1) : /\ tbl_stack'[i] = tbl_stack[i]
                              /\ attr'[tbl_stack[i]].name_len = attr[tbl_stack[i]].name_len
                              /\ attr'[tbl_stack[i]].name = attr[tbl_stack[i]].name
    BY <1>2, <2>1, <2>2
  <2>4. k \in 1..(Len(tbl_stack) + 1)
    OBVIOUS
  <2>5. QED
    BY <2>3, <2>4, BeginsKept
<1>5. \A k \in 1..(L - 1) : FrameEnd(k)' = FrameEnd(k)
  BY <1>2 DEF FrameEnd
<1>6. FrameEnd(L) = s /\ FrameEnd(L)' = tail /\ tail = s + attr'[s].len
  <2>1. ~(L <= L - 1)
    OBVIOUS
  <2>2. QED
    BY <1>1, <1>2, <1>3, <2>1 DEF FrameEnd
<1>7. ASSUME NEW k \in 1..L PROVE LengthsKept(attr, attr', FrameBegin(k), FrameEnd(k))
  <2>1. FrameEnd(k) = tbl_stack[k]
    BY DEF FrameEnd
  <2>2. tbl_stack[k] <= s /\ tbl_stack[k] \in Nat
    BY <1>1, StackFacts DEF StackIs
  <2>3. \A o \in DOMAIN attr : o < FrameEnd(k) => o # s
    BY <1>1, <1>3, <2>1, <2>2
  <2>4. QED
    BY <1>2, <2>3 DEF LengthsKept
<1>8. FrameBegin(L + 1) = DataAt(s) /\ FrameEnd(L + 1) = tail /\ FrameName(L + 1) = attr[s].name
  <2>1. L + 1 # 1 /\ (L + 1) - 1 = L /\ ~(L + 1 <= L)
    BY <1>1
  <2>2. QED
    BY <1>1, <2>1 DEF FrameBegin, FrameEnd, FrameName
<1>9. LengthsKept(attr, attr', FrameBegin(L + 1), FrameEnd(L + 1))
  <2>1. DataAt(s) \in Nat /\ s < DataAt(s)
    BY <1>1, ExtentsAre DEF Extents
  <2>2. \A o \in DOMAIN attr : FrameBegin(L + 1) <= o => o # s
    BY <1>1, <1>3, <1>8, <2>1
  <2>3. QED
    BY <1>2, <2>2 DEF LengthsKept
<1>10. QED
  BY <1>4, <1>5, <1>6, <1>7, <1>8, <1>9

LEMMA DocTableEnd ==
    ASSUME DocInv, AddTableEnd
    PROVE  DocInv'
<1>1. BlobInv'
  BY StepTableEnd DEF DocInv
<1>2. PICK L \in Nat : L = Len(tbl_stack)
  BY StackFacts DEF StackIs
<1>3. PICK s : s = tbl_stack[L]
  OBVIOUS
<1>4. ClosesAt(s, L)
  BY <1>2, <1>3, ClosesIs
<1>5. /\ L > 0 /\ L \in 1..L /\ s \in DOMAIN attr /\ attr[s].type = "table"
      /\ DOMAIN attr' = DOMAIN attr
      /\ \A o \in DOMAIN attr : o # s => attr'[o] = attr[o]
      /\ attr'[s].type = attr[s].type /\ attr'[s].name = attr[s].name
      /\ attr'[s].name_len = attr[s].name_len
      /\ attr'[s].len = tail - s /\ tail' = tail
      /\ Len(tbl_stack') = L - 1
      /\ \A i \in 1..(L - 1) : tbl_stack'[i] = tbl_stack[i]
  BY <1>4 DEF ClosesAt
<1>6. \A o \in DOMAIN attr : /\ o \in Nat /\ DataAt(o) \in Nat /\ o < DataAt(o)
                             /\ DataAt(o) <= End(o) /\ End(o) \in Nat /\ End(o) <= tail
                             /\ tail \in Nat
  BY ExtentsAre DEF Extents
<1>7. /\ \A o \in DOMAIN attr : DataAt(o)' = DataAt(o) /\ attr'[o].type = attr[o].type
                                /\ attr'[o].name = attr[o].name /\ attr'[o].name_len = attr[o].name_len
      /\ \A o \in DOMAIN attr : o # s => End(o)' = End(o)
      /\ End(s)' = tail
  <2>1. \A o \in DOMAIN attr : attr'[o].name_len = attr[o].name_len /\ attr'[o].type = attr[o].type
                               /\ attr'[o].name = attr[o].name
    BY <1>5
  <2>2. \A o \in DOMAIN attr : DataAt(o)' = DataAt(o)
    BY <2>1 DEF DataAt
  <2>3. \A o \in DOMAIN attr : o # s => End(o)' = End(o)
    BY <1>5 DEF End
  <2>4. End(s)' = s + (tail - s)
    BY <1>5 DEF End
  <2>5. QED
    BY <1>5, <1>6, <2>1, <2>2, <2>3, <2>4
<1>8. Headed'
  <2>1. ASSUME NEW o \in DOMAIN attr' PROVE DataAt(o)' <= End(o)'
    BY SMTT(60), <1>5, <1>6, <1>7
  <2>2. QED
    BY <1>5, <1>7, <2>1 DEF DocInv, Headed
<1>9. OnlyTablesFilled'
  <2>1. ASSUME NEW o \in DOMAIN attr', NEW p \in DOMAIN attr', p < o
        PROVE  DataAt(p)' <= o /\ (o < End(p)' => attr'[p].type = "table")
    <3>1. DataAt(p) <= o /\ (o < End(p) => attr[p].type = "table")
      BY <1>5, <2>1 DEF DocInv, OnlyTablesFilled
    <3>2. CASE p = s
      BY <1>5, <1>7, <3>1, <3>2
    <3>3. CASE p # s
      BY <1>5, <1>7, <3>1, <3>3
    <3>4. QED
      BY <3>2, <3>3
  <2>2. QED
    BY <2>1 DEF OnlyTablesFilled
<1>10. HasLengths(attr)
  BY AttrFacts DEF DocInv
<1>11. TablesChained'
  <2>1. ASSUME NEW o \in DOMAIN attr', attr'[o].type = "table"
        PROVE  \E t : IsChain(attr', t, DataAt(o)', End(o)')
    <3>1. CASE o = s
      <4>1. L + 1 \in 1..(Len(tbl_stack) + 1)
        BY <1>2
      <4>2. PICK t : IsChain(attr, t, FrameBegin(L + 1), FrameEnd(L + 1))
        BY <4>1 DEF DocInv, FramesChained
      <4>3. IsChain(attr', t, FrameBegin(L + 1), FrameEnd(L + 1))
        BY <1>2, <1>4, <1>10, <4>2, ClosedFrames, ChainKept
      <4>4. FrameBegin(L + 1) = DataAt(o)' /\ FrameEnd(L + 1) = End(o)'
        BY <1>2, <1>4, <1>5, <1>7, <3>1, ClosedFrames
      <4>5. QED
        BY <4>3, <4>4
    <3>2. CASE o # s
      <4>1. attr[o].type = "table" /\ o \in DOMAIN attr
        BY <1>5, <1>7, <2>1
      <4>2. PICK t : IsChain(attr, t, DataAt(o), End(o))
        BY <4>1 DEF DocInv, TablesChained
      <4>3. ~(DataAt(o) <= s /\ s < End(o))
        BY <1>2, <1>3, <1>5, <4>1, NoneCut
      <4>4. LengthsKept(attr, attr', DataAt(o), End(o))
        BY <1>5, <4>3 DEF LengthsKept
      <4>5. IsChain(attr', t, DataAt(o), End(o))
        BY <1>10, <4>2, <4>4, ChainKept
      <4>6. QED
        BY <1>7, <3>2, <4>1, <4>5
    <3>3. QED
      BY <3>1, <3>2
  <2>2. QED
    BY <2>1 DEF TablesChained
<1>12. FramesChained'
  <2>1. ASSUME NEW k \in 1..L PROVE \E t : IsChain(attr', t, FrameBegin(k)', FrameEnd(k)')
    <3>1. k \in 1..(Len(tbl_stack) + 1)
      BY <1>2
    <3>2. PICK t : IsChain(attr, t, FrameBegin(k), FrameEnd(k))
      BY <3>1 DEF DocInv, FramesChained
    <3>3. IsChain(attr', t, FrameBegin(k), FrameEnd(k))
      BY <1>2, <1>4, <1>10, <3>2, ClosedFrames, ChainKept
    <3>4. CASE k \in 1..(L - 1)
      BY <1>2, <1>4, <3>3, <3>4, ClosedFrames
    <3>5. CASE k = L
      <4>1. IsChain(attr', t, FrameBegin(k), s)
        BY <1>2, <1>4, <3>3, <3>5, ClosedFrames
      <4>2. s \in DOMAIN attr' /\ tail \in Nat /\ tail = s + attr'[s].len
        BY <1>2, <1>4, <1>5, <1>6, ClosedFrames
      <4>3. IsChain(attr', Append(t, tail), FrameBegin(k), tail)
        BY <4>1, <4>2, ChainGrows
      <4>4. FrameBegin(k)' = FrameBegin(k) /\ FrameEnd(k)' = tail
        BY <1>2, <1>4, <3>5, ClosedFrames
      <4>5. QED
        BY <4>3, <4>4
    <3>6. QED
      BY <3>4, <3>5
  <2>2. Len(tbl_stack') + 1 = L
    BY <1>5
  <2>3. QED
    BY <2>1, <2>2 DEF FramesChained
<1>13. QED
  BY <1>1, <1>8, <1>9, <1>11, <1>12 DEF DocInv

-----------------------------------------------------------------------------
(* What lies in an attribute ends in it.                                     *)
Span(from) == {p \in DOMAIN attr : from <= p /\ p < End(from)}

LEMMA SpanFacts ==
    ASSUME DocInv, NEW from \in DOMAIN attr
    PROVE  /\ from \in Span(from) /\ Span(from) \in SUBSET DOMAIN attr
           /\ \A p \in Span(from) : from <= p /\ p < End(from) /\ End(p) <= End(from)
           /\ ClosedUnder(Span(from))
<1>1. \A o \in DOMAIN attr : /\ o \in Nat /\ DataAt(o) \in Nat /\ o < DataAt(o)
                             /\ DataAt(o) <= End(o) /\ End(o) \in Nat
  BY ExtentsAre DEF Extents
<1>2. \A o, p \in DOMAIN attr : o < p => End(o) <= p \/ End(p) <= End(o)
  BY DEF DocInv, BlobInv, ExtentsNest
<1>3. \A p \in Span(from) : p \in DOMAIN attr /\ from <= p /\ p < End(from) /\ End(p) <= End(from)
  <2>1. ASSUME NEW p \in Span(from)
        PROVE  p \in DOMAIN attr /\ from <= p /\ p < End(from) /\ End(p) <= End(from)
    <3>1. p \in DOMAIN attr /\ from <= p /\ p < End(from)
      BY DEF Span
    <3>2. from = p \/ from < p
      BY <1>1, <3>1
    <3>3. QED
      BY <1>1, <1>2, <3>1, <3>2
  <2>2. QED
    BY <2>1
<1>4. ClosedUnder(Span(from))
  <2>1. ASSUME NEW o \in Span(from), NEW p \in DOMAIN attr, DataAt(o) <= p, p < End(o)
        PROVE  from <= p /\ p < End(from)
    BY <1>1, <1>3, <2>1
  <2>2. QED
    BY <2>1 DEF ClosedUnder, Span
<1>5. from \in Span(from)
  BY <1>1 DEF Span
<1>6. QED
  BY <1>3, <1>4, <1>5 DEF Span

(* An attribute that is copied, by D, to the end.                             *)
CopiesAt(z, from, D) ==
    /\ from \in DOMAIN attr /\ from \in Nat
    /\ z = tail /\ D \in Nat /\ z = from + D
    /\ DOMAIN attr \subseteq DOMAIN attr' /\ z \notin DOMAIN attr
    /\ \A o \in DOMAIN attr : o < z /\ attr'[o] = attr[o]
    /\ \A p \in Span(from) : p + D \in DOMAIN attr' /\ attr'[p + D] = attr[p]
    /\ \A q \in DOMAIN attr' : q \in DOMAIN attr \/ (q >= z /\ \E p \in Span(from) : q = p + D)
    /\ tail' = z + attr[from].len /\ tbl_stack' = tbl_stack

LEMMA CopiesIs ==
    ASSUME DocInv, NEW from \in Closed, Catenate(from), NEW z, z = tail, NEW D, D = z - from
    PROVE  CopiesAt(z, from, D)
<1>1. PICK len : len = attr[from].len
  OBVIOUS
<1>2. /\ from \in DOMAIN attr /\ from \in Nat /\ len \in Nat \ {0} /\ z \in Nat
      /\ End(from) = from + len /\ from + len <= z
  <2>1. from \in DOMAIN attr
    BY DEF Closed
  <2>2. QED
    BY <1>1, <2>1, AttrFacts DEF DocInv, End
<1>3. D \in Nat /\ z = from + D
  BY <1>2
<1>4. \A o \in DOMAIN attr : o \in Nat /\ o < z
  BY AttrFacts DEF DocInv
<1>5. PICK To : To = {tail + p - from : p \in DOMAIN attr \cap (from..(from + attr[from].len - 1))}
  OBVIOUS
<1>6. /\ attr' = [p \in DOMAIN attr \cup To |-> IF p \in To THEN attr[p - tail + from] ELSE attr[p]]
      /\ tail' = tail + attr[from].len /\ tbl_stack' = tbl_stack
  BY <1>5 DEF Catenate, Copied
<1>7. Span(from) = DOMAIN attr \cap (from..(from + attr[from].len - 1))
  BY <1>1, <1>2, <1>4 DEF Span
<1>8. To = {p + D : p \in Span(from)}
  <2>1. \A p \in Span(from) : tail + p - from = p + D
    BY <1>2, <1>4 DEF Span
  <2>2. QED
    BY <1>5, <1>7, <2>1
<1>9. \A p \in Span(from) : p \in Nat /\ p + D >= z /\ (p + D) - tail + from = p /\ p + D \notin DOMAIN attr
  <2>1. \A p \in Span(from) : p \in Nat /\ p >= from
    BY <1>4 DEF Span
  <2>2. QED
    BY <1>2, <1>3, <1>4, <2>1
<1>10. \A p \in Span(from) : p + D \in DOMAIN attr' /\ attr'[p + D] = attr[p]
  BY <1>6, <1>8, <1>9
<1>11. \A q \in DOMAIN attr' : q \in DOMAIN attr \/ (q >= z /\ \E p \in Span(from) : q = p + D)
  BY <1>6, <1>8, <1>9
<1>12. \A o \in DOMAIN attr : o \notin To
  BY <1>8, <1>9
<1>13. DOMAIN attr \subseteq DOMAIN attr' /\ \A o \in DOMAIN attr : attr'[o] = attr[o]
  BY <1>6, <1>12
<1>14. z \notin DOMAIN attr
  BY <1>2, <1>4
<1>15. QED
  BY <1>2, <1>3, <1>4, <1>6, <1>10, <1>11, <1>13, <1>14 DEF CopiesAt

LEMMA CopyGrows ==
    ASSUME DocInv, NEW z, NEW from, NEW D, CopiesAt(z, from, D)
    PROVE  GrownAt(z) /\ tbl_stack' = tbl_stack
<1>1. from \in DOMAIN attr /\ z = from + D
  BY DEF CopiesAt
<1>2. from \in Span(from)
  BY <1>1, SpanFacts
<1>3. z \in DOMAIN attr' /\ attr'[z] = attr[from]
  BY <1>1, <1>2 DEF CopiesAt
<1>4. QED
  BY <1>3 DEF CopiesAt, GrownAt

LEMMA DocCatenate ==
    ASSUME DocInv, NEW from \in Closed, Catenate(from)
    PROVE  DocInv'
<1>1. BlobInv'
  BY StepCatenate DEF DocInv
<1>2. PICK z, D : z = tail /\ D = z - from
  OBVIOUS
<1>3. CopiesAt(z, from, D)
  BY <1>2, CopiesIs
<1>4. /\ from \in DOMAIN attr /\ from \in Nat
      /\ z = tail /\ D \in Nat /\ z = from + D
      /\ DOMAIN attr \subseteq DOMAIN attr' /\ z \notin DOMAIN attr
      /\ \A o \in DOMAIN attr : o < z /\ attr'[o] = attr[o]
      /\ \A p \in Span(from) : p + D \in DOMAIN attr' /\ attr'[p + D] = attr[p]
      /\ \A q \in DOMAIN attr' : q \in DOMAIN attr \/ (q >= z /\ \E p \in Span(from) : q = p + D)
  BY <1>3 DEF CopiesAt
<1>5. \A o \in DOMAIN attr : /\ o \in Nat /\ DataAt(o) \in Nat /\ o < DataAt(o)
                             /\ DataAt(o) <= End(o) /\ End(o) \in Nat /\ End(o) <= z
                             /\ z \in Nat
  BY <1>4, ExtentsAre DEF Extents
<1>6. /\ Span(from) \in SUBSET DOMAIN attr
      /\ \A p \in Span(from) : from <= p /\ p < End(from) /\ End(p) <= End(from)
  BY <1>4, SpanFacts
<1>7. \A o \in DOMAIN attr : DataAt(o)' = DataAt(o) /\ End(o)' = End(o)
  BY <1>4 DEF DataAt, End
<1>8. \A p \in Span(from) : DataAt(p + D)' = DataAt(p) + D /\ End(p + D)' = End(p) + D
  <2>1. ASSUME NEW p \in Span(from) PROVE DataAt(p + D)' = DataAt(p) + D /\ End(p + D)' = End(p) + D
    <3>1. p \in DOMAIN attr /\ p \in Nat /\ D \in Nat
      BY <1>4, <1>5, <1>6
    <3>2. attr[p].len \in Nat /\ attr[p].name_len \in Nat
      BY <3>1, AttrFacts DEF DocInv, Headed
    <3>3. DataAt(p + D)' = p + D + FixedLen + attr'[p + D].name_len /\ End(p + D)' = p + D + attr'[p + D].len
      BY DEF DataAt, End
    <3>4. DataAt(p) = p + FixedLen + attr[p].name_len /\ End(p) = p + attr[p].len
      BY DEF DataAt, End
    <3>5. attr'[p + D] = attr[p] /\ FixedLen \in Nat
      BY <1>4 DEF FixedLen
    <3>6. QED
      BY <3>1, <3>2, <3>3, <3>4, <3>5
  <2>2. QED
    BY <2>1
<1>9. Headed'
  <2>1. ASSUME NEW o \in DOMAIN attr'
        PROVE  /\ attr'[o].name \in Name
               /\ attr'[o].name_len \in Nat \ {0} /\ FixedLen + attr'[o].name_len < 256
               /\ DataAt(o)' <= End(o)'
    <3>1. CASE o \in DOMAIN attr
      BY <1>4, <1>7, <3>1 DEF DocInv, Headed
    <3>2. CASE \E p \in Span(from) : o = p + D
      <4>1. PICK p \in Span(from) : o = p + D
        BY <3>2
      <4>2. p \in DOMAIN attr /\ attr'[o] = attr[p]
        BY <1>4, <1>6, <4>1
      <4>3. DataAt(o)' = DataAt(p) + D /\ End(o)' = End(p) + D
        BY <1>8, <4>1
      <4>4. DataAt(o)' <= End(o)'
        BY <1>4, <1>5, <4>2, <4>3
      <4>5. QED
        BY <4>2, <4>4 DEF DocInv, Headed
    <3>3. QED
      BY <1>4, <3>1, <3>2
  <2>2. QED
    BY <2>1 DEF Headed
<1>10. OnlyTablesFilled'
  <2>1. ASSUME NEW o \in DOMAIN attr', NEW p \in DOMAIN attr', p < o
        PROVE  DataAt(p)' <= o /\ (o < End(p)' => attr'[p].type = "table")
    <3>1. CASE p \in DOMAIN attr /\ o \in DOMAIN attr
      BY <1>4, <1>7, <2>1, <3>1 DEF DocInv, OnlyTablesFilled
    <3>2. CASE p \in DOMAIN attr /\ o \notin DOMAIN attr
      <4>1. PICK q \in Span(from) : o = q + D
        BY <1>4, <3>2
      <4>2. o \in Nat /\ o >= z
        BY <1>4, <1>5, <1>6, <4>1
      <4>3. QED
        BY <1>5, <1>7, <3>2, <4>2
    <3>3. CASE p \notin DOMAIN attr
      <4>1. PICK q \in Span(from) : p = q + D
        BY <1>4, <3>3
      <4>2. p \in Nat /\ p >= z /\ q \in Nat /\ q \in DOMAIN attr
        BY <1>4, <1>5, <1>6, <4>1
      <4>3. o \notin DOMAIN attr
        BY <1>4, <1>5, <2>1, <4>2
      <4>4. PICK r \in Span(from) : o = r + D
        BY <1>4, <4>3
      <4>5. r \in Nat /\ r \in DOMAIN attr /\ q < r
        BY <1>4, <1>5, <1>6, <2>1, <4>1, <4>2, <4>4
      <4>6. DataAt(q) <= r /\ (r < End(q) => attr[q].type = "table")
        BY <4>2, <4>5 DEF DocInv, OnlyTablesFilled
      <4>7. DataAt(p)' = DataAt(q) + D /\ End(p)' = End(q) + D /\ attr'[p] = attr[q]
        BY <1>4, <1>8, <4>1
      <4>8. QED
        BY <1>4, <1>5, <4>2, <4>4, <4>5, <4>6, <4>7
    <3>4. QED
      BY <3>1, <3>2, <3>3
  <2>2. QED
    BY <2>1 DEF OnlyTablesFilled
<1>11. HasLengths(attr)
  BY AttrFacts DEF DocInv
<1>12. TablesChained'
  <2>1. ASSUME NEW o \in DOMAIN attr', attr'[o].type = "table"
        PROVE  \E t : IsChain(attr', t, DataAt(o)', End(o)')
    <3>1. CASE o \in DOMAIN attr
      <4>1. PICK t : IsChain(attr, t, DataAt(o), End(o))
        BY <1>4, <2>1, <3>1 DEF DocInv, TablesChained
      <4>2. LengthsKept(attr, attr', DataAt(o), End(o))
        BY <1>4 DEF LengthsKept
      <4>3. IsChain(attr', t, DataAt(o), End(o))
        BY <1>11, <4>1, <4>2, ChainKept
      <4>4. QED
        BY <1>7, <3>1, <4>3
    <3>2. CASE \E p \in Span(from) : o = p + D
      <4>1. PICK p \in Span(from) : o = p + D
        BY <3>2
      <4>2. p \in DOMAIN attr /\ attr[p].type = "table"
        BY <1>4, <1>6, <2>1, <4>1
      <4>3. PICK t : IsChain(attr, t, DataAt(p), End(p))
        BY <4>2 DEF DocInv, TablesChained
      <4>4. PICK A, B, b, e : A = attr /\ B = attr' /\ b = DataAt(p) /\ e = End(p)
        OBVIOUS
      <4>5. SameLengths(A, B, b, e, D)
        <5>1. \A q \in DOMAIN attr : DataAt(p) <= q /\ q < End(p) => q \in Span(from)
          BY <1>4, <1>5, <1>6, <4>2 DEF Span
        <5>2. \A q \in DOMAIN attr : DataAt(p) <= q /\ q < End(p) =>
                                       q + D \in DOMAIN attr' /\ attr'[q + D].len = attr[q].len
          BY <1>4, <5>1
        <5>3. QED
          BY <4>4, <5>2 DEF SameLengths
      <4>6. IsChain(A, t, b, e) /\ HasLengths(A) /\ D \in Int /\ b + D \in Nat
        BY <1>4, <1>5, <1>11, <4>2, <4>3, <4>4
      <4>7. IsChain(B, MovedBy(t, D), b + D, e + D)
        BY <4>5, <4>6, ChainMoves
      <4>8. DataAt(o)' = b + D /\ End(o)' = e + D
        BY <1>8, <4>1, <4>4
      <4>9. QED
        BY <4>4, <4>7, <4>8
    <3>3. QED
      BY <1>4, <3>1, <3>2
  <2>2. QED
    BY <2>1 DEF TablesChained
<1>13. FramesChained'
  BY <1>1, <1>3, CopyGrows, GrownFrames
<1>14. QED
  BY <1>1, <1>9, <1>10, <1>12, <1>13 DEF DocInv

LEMMA DocSame ==
    ASSUME DocInv, UNCHANGED blobVars
    PROVE  DocInv'
BY ZenonT(60) DEF blobVars, DocInv, BlobInv, BlobTyped, TablesPaired, ExtentsNest, End, Headed, OnlyTablesFilled,
       TablesChained, FramesChained, DataAt, FrameBegin, FrameEnd

LEMMA StepDoc == DocInv /\ [BlobNext]_blobVars => DocInv'
<1> SUFFICES ASSUME DocInv, [BlobNext]_blobVars PROVE DocInv'
  OBVIOUS
<1>1. QED
  BY DocValue, DocTableStart, DocTableEnd, DocCatenate, DocReset, DocSame DEF BlobNext

-----------------------------------------------------------------------------
(* blob_parse_to_attr.                                                       *)
LEMMA ParsedIs ==
    ASSUME NEW first, NEW stop, NEW s, s = Steps(first, stop), NEW i \in DOMAIN Policy,
           NEW M, M = {k \in DOMAIN s : attr[s[k]].name \in Extensions[Policy[i]]}
    PROVE  Parsed(first, stop)[i] = IF M = {} THEN Unset ELSE s[CHOOSE k \in M : \A j \in M : j <= k]
<1>1. PICK f : f = Parsed(first, stop)
  OBVIOUS
<1>2. f = [x \in DOMAIN Policy |->
             IF {k \in DOMAIN Steps(first, stop) :
                   attr[Steps(first, stop)[k]].name \in Extensions[Policy[x]]} = {} THEN Unset
             ELSE Steps(first, stop)[CHOOSE k \in {m \in DOMAIN Steps(first, stop) :
                           attr[Steps(first, stop)[m]].name \in Extensions[Policy[x]]} :
                      \A j \in {m \in DOMAIN Steps(first, stop) :
                           attr[Steps(first, stop)[m]].name \in Extensions[Policy[x]]} : j <= k]]
  BY Zenon, <1>1 DEF Parsed
<1>3. f = [x \in DOMAIN Policy |->
             IF {k \in DOMAIN s : attr[s[k]].name \in Extensions[Policy[x]]} = {} THEN Unset
             ELSE s[CHOOSE k \in {m \in DOMAIN s : attr[s[m]].name \in Extensions[Policy[x]]} :
                      \A j \in {m \in DOMAIN s : attr[s[m]].name \in Extensions[Policy[x]]} : j <= k]]
  BY <1>2
<1>4. f[i] = IF {k \in DOMAIN s : attr[s[k]].name \in Extensions[Policy[i]]} = {} THEN Unset
             ELSE s[CHOOSE k \in {m \in DOMAIN s : attr[s[m]].name \in Extensions[Policy[i]]} :
                      \A j \in {m \in DOMAIN s : attr[s[m]].name \in Extensions[Policy[i]]} : j <= k]
  BY <1>3
<1>5. QED
  BY <1>1, <1>4

LEMMA LastIsOne ==
    ASSUME NEW n \in Nat, NEW M \in SUBSET (1..n), M # {}
    PROVE  (CHOOSE k \in M : \A j \in M : j <= k) \in M
<1>1. PICK T : T = {n - k : k \in M}
  OBVIOUS
<1>2. T \in SUBSET Nat /\ T # {}
  <2>1. \A k \in M : n - k \in Nat
    OBVIOUS
  <2>2. QED
    BY <1>1, <2>1
<1>3. PICK x \in T : \A y \in T : x <= y
  BY <1>2, LeastNatural
<1>4. PICK m \in M : x = n - m
  BY <1>1
<1>5. \A j \in M : j <= m
  BY SMTT(60), <1>1, <1>3, <1>4
<1>6. QED
  BY <1>4, <1>5

LEMMA LookupDoc == DocInv => LookupFindsOwn
<1> SUFFICES ASSUME DocInv, NEW o \in Closed, attr[o].type = "table", NEW i \in DOMAIN Policy,
                    {k \in DOMAIN Read[o].items : Read[o].items[k].name \in Extensions[Policy[i]]}
                      = {k \in DOMAIN Read[o].items : Read[o].items[k].name = Policy[i]}
             PROVE  IF {k \in DOMAIN Read[o].items : Read[o].items[k].name = Policy[i]} = {}
                    THEN Parsed(DataAt(o), DataAt(o) + DataLen(o))[i] = Unset
                    ELSE Read[Parsed(DataAt(o), DataAt(o) + DataLen(o))[i]] = Read[o].items[
                           CHOOSE k \in {m \in DOMAIN Read[o].items : Read[o].items[m].name = Policy[i]} :
                           \A j \in {m \in DOMAIN Read[o].items : Read[o].items[m].name = Policy[i]} : j <= k]
  BY DEF LookupFindsOwn
<1> PICK items, parsed : items = Read[o].items /\ parsed = Parsed(DataAt(o), DataAt(o) + DataLen(o))
  OBVIOUS
<1> PICK named : named = {k \in DOMAIN items : items[k].name = Policy[i]}
  OBVIOUS
<1>0. named = {k \in DOMAIN items : items[k].name \in Extensions[Policy[i]]}
  OBVIOUS
<1> SUFFICES IF named = {} THEN parsed[i] = Unset
             ELSE Read[parsed[i]] = items[CHOOSE k \in named : \A j \in named : j <= k]
  OBVIOUS
<1>1. o \in DOMAIN attr
  BY DEF Closed
<1>2. PICK t : IsChain(attr, t, DataAt(o), End(o))
  BY <1>1 DEF DocInv, TablesChained
<1>3. PICK n \in Nat : n = Len(t) - 1
  <2>1. Len(t) \in Nat /\ Len(t) > 0
    BY <1>2 DEF IsChain
  <2>2. Len(t) - 1 \in Nat
    BY <2>1
  <2>3. QED
    BY <2>2
<1>4. PICK s : s = Inside(o)
  OBVIOUS
<1>5. DOMAIN s = 1..n /\ \A k \in 1..n : s[k] = t[k] /\ t[k] \in DOMAIN attr
  BY <1>1, <1>2, <1>3, <1>4, InsideIs
<1>6. PICK g : g = Read
  OBVIOUS
<1>7. IsRead(g)
  BY <1>6, ReadingIs
<1>8. items = ItemsOf(g, t)
  <2>1. g[o] = [name |-> attr[o].name, items |-> ItemsOf(g, t)]
    BY <1>1, <1>2, <1>7 DEF IsRead
  <2>2. QED
    BY <1>6, <2>1
<1>9. DOMAIN items = 1..n /\ \A k \in 1..n : items[k] = g[s[k]]
  BY <1>3, <1>5, <1>8 DEF ItemsOf
<1>10. \A p \in DOMAIN attr : g[p].name = attr[p].name
  <2>1. ASSUME NEW p \in DOMAIN attr PROVE g[p].name = attr[p].name
    <3>1. CASE attr[p].type = "table"
      <4>1. PICK u : IsChain(attr, u, DataAt(p), End(p))
        BY <3>1 DEF DocInv, TablesChained
      <4>2. g[p] = [name |-> attr[p].name, items |-> ItemsOf(g, u)]
        BY <1>7, <3>1, <4>1 DEF IsRead
      <4>3. QED
        BY <4>2
    <3>2. CASE attr[p].type # "table"
      <4>1. g[p] = [name |-> attr[p].name, value |-> ReadValue(p)]
        BY <1>7, <3>2 DEF IsRead
      <4>2. QED
        BY <4>1
    <3>3. QED
      BY <3>1, <3>2
  <2>2. QED
    BY <2>1
<1>11. \A k \in 1..n : items[k].name = attr[s[k]].name
  BY <1>5, <1>9, <1>10
<1>12. named = {k \in DOMAIN s : attr[s[k]].name \in Extensions[Policy[i]]}
  BY <1>0, <1>5, <1>9, <1>11
<1>13. parsed[i] = IF named = {} THEN Unset ELSE s[CHOOSE k \in named : \A j \in named : j <= k]
  <2>1. s = Steps(DataAt(o), DataAt(o) + DataLen(o))
    BY <1>4 DEF Inside
  <2>2. QED
    BY <1>12, <2>1, ParsedIs
<1>14. CASE named = {}
  BY SMTT(60), <1>13, <1>14
<1>15. CASE named # {}
  <2>1. named \in SUBSET (1..n)
    BY <1>9
  <2>2. PICK m : m = CHOOSE k \in named : \A j \in named : j <= k
    OBVIOUS
  <2>3. m \in named
    BY <1>15, <2>1, <2>2, LastIsOne
  <2>4. parsed[i] = s[m]
    BY <1>13, <1>15, <2>2
  <2>5. items[m] = g[s[m]]
    BY <1>9, <2>1, <2>3
  <2>6. QED
    BY ZenonT(60), <1>6, <1>15, <2>2, <2>4, <2>5
<1>16. QED
  BY <1>14, <1>15

(* Whatever has been added, opened, closed, copied and reset, the last item of *)
(* a table that has the name looked for is what blob_parse_to_attr gives, and  *)
(* none is given if there is none, unless the name of another begins with it.  *)
THEOREM LookupAlwaysFindsOwn == BlobSpec => []LookupFindsOwn
BY InitDoc, StepDoc, LookupDoc, PTL DEF BlobSpec

-----------------------------------------------------------------------------
(* What a step leaves of the document.                                       *)
LEMMA Readings ==
    DocInv => IsRead(Read) /\ FramesRead /\ Extents
BY ReadingIs, FrameReadingIs, ExtentsAre

LEMMA KeptRead ==
    ASSUME DocInv, DocInv', NEW X \in SUBSET DOMAIN attr, ClosedUnder(X),
           \A o \in X : o \in DOMAIN attr' /\ attr'[o] = attr[o]
    PROVE  \A o \in X : Read'[o] = Read[o]
<1>1. IsRead(Read) /\ Extents
  BY Readings
<1>2. (DocInv => IsRead(Read) /\ FramesRead /\ Extents)'
  BY Readings, PTL
<1>3. IsRead(Read)' /\ Extents'
  BY <1>2
<1>4. \A o \in X : o + 0 = o
  BY <1>1 DEF Extents
<1>5. \A o \in X : o + 0 \in DOMAIN attr' /\ attr'[o + 0] = attr[o]
  BY <1>4
<1>6. \A o \in X : Read'[o + 0] = Read[o]
  BY <1>1, <1>3, <1>5, SameRead
<1>7. QED
  BY <1>4, <1>6

LEMMA GrownReads ==
    ASSUME DocInv, DocInv', NEW z, GrownAt(z), tbl_stack' = tbl_stack,
           NEW L \in Nat, L = Len(tbl_stack)
    PROVE  /\ \A k \in 1..L : FrameRead(k)' = FrameRead(k)
           /\ FrameRead(L + 1)' = [name |-> FrameRead(L + 1).name,
                                   items |-> Append(FrameRead(L + 1).items, Read'[z])]
<1>1. /\ \A k \in 1..(L + 1) :
           /\ FrameBegin(k)' = FrameBegin(k) /\ FrameName(k)' = FrameName(k)
           /\ LengthsKept(attr, attr', FrameBegin(k), FrameEnd(k))
      /\ \A k \in 1..L : FrameEnd(k)' = FrameEnd(k)
      /\ FrameEnd(L + 1) = z /\ FrameEnd(L + 1)' = tail'
  <2>1. BlobInv'
    BY DEF DocInv
  <2>2. QED
    BY <2>1, GrownFrames
<1>2. \A o \in DOMAIN attr : Read'[o] = Read[o]
  <2>1. ClosedUnder(DOMAIN attr)
    BY DEF ClosedUnder
  <2>2. \A o \in DOMAIN attr : o \in DOMAIN attr' /\ attr'[o] = attr[o]
    BY DEF GrownAt
  <2>3. QED
    BY <2>1, <2>2, KeptRead
<1>3. FramesRead /\ FramesRead'
  <2>1. (DocInv => IsRead(Read) /\ FramesRead /\ Extents)'
    BY Readings, PTL
  <2>2. QED
    BY <2>1, Readings
<1>4. ASSUME NEW k \in 1..L PROVE FrameRead(k)' = FrameRead(k)
  <2>1. k \in 1..(Len(tbl_stack) + 1) /\ k \in 1..(Len(tbl_stack') + 1) /\ k \in 1..(L + 1)
    OBVIOUS
  <2>2. PICK b, e : b = FrameBegin(k) /\ e = FrameEnd(k)
    OBVIOUS
  <2>3. FrameBegin(k)' = b /\ FrameEnd(k)' = e /\ FrameName(k)' = FrameName(k)
        /\ LengthsKept(attr, attr', b, e)
    BY <1>1, <2>1, <2>2
  <2>4. ReadKept(b, e)
    BY <1>2 DEF ReadKept
  <2>5. QED
    BY <1>3, <2>1, <2>2, <2>3, <2>4, FrameStays
<1>5. FrameRead(L + 1)' = [name |-> FrameRead(L + 1).name,
                           items |-> Append(FrameRead(L + 1).items, Read'[z])]
  <2>1. PICK k : k = L + 1
    OBVIOUS
  <2>2. k \in 1..(Len(tbl_stack) + 1) /\ k \in 1..(Len(tbl_stack') + 1) /\ k \in 1..(L + 1)
    BY <2>1
  <2>3. PICK b, e : b = FrameBegin(k) /\ e = FrameEnd(k)
    OBVIOUS
  <2>4. PICK f : f = tail'
    OBVIOUS
  <2>5. f \in Nat /\ z \in DOMAIN attr' /\ f = z + attr'[z].len
    <3>1. tail' \in Nat
      BY Bounds DEF DocInv, BlobInv, BlobTyped
    <3>2. QED
      BY <2>4, <3>1 DEF GrownAt
  <2>6. FrameBegin(k)' = b /\ FrameEnd(k)' = f /\ FrameName(k)' = FrameName(k)
        /\ LengthsKept(attr, attr', b, e) /\ e = z
    BY <1>1, <2>1, <2>2, <2>3, <2>4
  <2>7. ReadKept(b, e)
    BY <1>2 DEF ReadKept
  <2>8. FrameRead(k)' = [name |-> FrameRead(k).name, items |-> Append(FrameRead(k).items, Read'[e])]
    BY <1>3, <2>2, <2>3, <2>5, <2>6, <2>7, FrameGrows
  <2>9. QED
    BY <2>1, <2>6, <2>8
<1>6. QED
  BY <1>4, <1>5

(* The frames as a sequence.                                                 *)
Frames == [k \in 1..(Len(tbl_stack) + 1) |-> FrameRead(k)]

LEMMA FramesAre ==
    ASSUME NEW L \in Nat, L = Len(tbl_stack)
    PROVE  /\ Len(Frames) = L + 1 /\ DOMAIN Frames = 1..(L + 1)
           /\ \A k \in 1..(L + 1) : Frames[k] = FrameRead(k)
<1>1. PICK F : F = Frames
  OBVIOUS
<1>2. F = [k \in 1..(L + 1) |-> FrameRead(k)]
  BY <1>1 DEF Frames
<1>3. PICK S : S = {F[k] : k \in 1..(L + 1)}
  OBVIOUS
<1>4. F \in [1..(L + 1) -> S] /\ L + 1 \in Nat
  BY <1>2, <1>3
<1>5. Len(F) = L + 1 /\ DOMAIN F = 1..(L + 1)
  BY <1>4, FunctionIsSeq
<1>6. \A k \in 1..(L + 1) : F[k] = FrameRead(k)
  BY <1>2
<1>7. QED
  BY <1>1, <1>5, <1>6

(* Each is a name and items.                                                 *)
LEMMA FrameIs ==
    ASSUME DocInv, NEW k \in 1..(Len(tbl_stack) + 1)
    PROVE  FrameRead(k) = [name |-> FrameName(k), items |-> FrameRead(k).items]
<1>1. PICK t : IsChain(attr, t, FrameBegin(k), FrameEnd(k))
  BY DEF DocInv, FramesChained
<1>2. FramesRead
  BY FrameReadingIs
<1>3. FrameRead(k) = [name |-> FrameName(k), items |-> ItemsOf(Read, t)]
  BY <1>1, <1>2 DEF FramesRead
<1>4. QED
  BY <1>3

LEMMA GrownExtends ==
    ASSUME DocInv, DocInv', NEW z, GrownAt(z), tbl_stack' = tbl_stack
    PROVE  Document!Extend(Read'[z])
<1>1. PICK L \in Nat : L = Len(tbl_stack)
  BY StackFacts DEF StackIs
<1>2. PICK F, G : F = Frames /\ G = Frames'
  OBVIOUS
<1>3. PICK x : x = Read'[z]
  OBVIOUS
<1>4. Len(F) = L + 1 /\ DOMAIN F = 1..(L + 1) /\ F = [k \in 1..(L + 1) |-> FrameRead(k)]
      /\ \A k \in 1..(L + 1) : F[k] = FrameRead(k)
  BY <1>1, <1>2, FramesAre DEF Frames
<1>5. G = [k \in 1..(L + 1) |-> FrameRead(k)']
  BY <1>1, <1>2 DEF Frames
<1>6. /\ \A k \in 1..L : FrameRead(k)' = F[k]
      /\ FrameRead(L + 1)' = [name |-> F[L + 1].name, items |-> Append(F[L + 1].items, x)]
  <2>1. \A k \in 1..L : k \in 1..(L + 1)
    OBVIOUS
  <2>2. L + 1 \in 1..(L + 1)
    OBVIOUS
  <2>3. QED
    BY <1>1, <1>3, <1>4, <2>1, <2>2, GrownReads
<1>7. F[L + 1] = [name |-> F[L + 1].name, items |-> F[L + 1].items]
  <2>1. L + 1 \in 1..(Len(tbl_stack) + 1) /\ L + 1 \in 1..(L + 1)
    BY <1>1
  <2>2. FrameRead(L + 1) = [name |-> FrameName(L + 1), items |-> FrameRead(L + 1).items]
    BY <2>1, FrameIs
  <2>3. QED
    BY <1>4, <2>1, <2>2
<1>8. PICK y : y = [F[L + 1] EXCEPT !.items = Append(@, x)]
  OBVIOUS
<1>9. y = [name |-> F[L + 1].name, items |-> Append(F[L + 1].items, x)]
  <2>1. PICK r, n, i : r = F[L + 1] /\ n = r.name /\ i = r.items
    OBVIOUS
  <2>2. r = [name |-> n, items |-> i]
    BY <1>7, <2>1
  <2>3. [r EXCEPT !.items = Append(@, x)] = [name |-> n, items |-> Append(i, x)]
    BY <2>2
  <2>4. QED
    BY <1>8, <2>1, <2>3
<1>10. G = [F EXCEPT ![Len(F)] = y]
  <2>1. \A k \in 1..(L + 1) : FrameRead(k)' = IF k = L + 1 THEN y ELSE F[k]
    BY <1>6, <1>9
  <2>2. G = [k \in 1..(L + 1) |-> IF k = L + 1 THEN y ELSE F[k]]
    BY <1>5, <2>1
  <2>3. QED
    BY <1>4, <2>2
<1>11. G = [F EXCEPT ![Len(F)] = Document!WithItem(@, x)]
  BY <1>4, <1>8, <1>10 DEF Document!WithItem
<1>12. Frames' = [Frames EXCEPT ![Len(Frames)] = Document!WithItem(@, Read'[z])]
  BY <1>2, <1>3, <1>11, Zenon
<1>13. QED
  BY <1>12 DEF Document!Extend, Frames

-----------------------------------------------------------------------------
(* Each step of the blob is one of the document.                             *)
LEMMA AddIsAdd ==
    ASSUME DocInv, NEW n \in Name, AddValue(n)
    PROVE  \E v \in Value : Document!Add(n, v)
<1>1. DocInv'
  BY DocValue
<1>2. PICK type, bytes : Add(type, n, bytes) /\ Len(bytes) \in Nat /\ type # "table"
                         /\ BytesOf(type, bytes)
  BY ValueIsAdded
<1>3. PICK z : z = tail
  OBVIOUS
<1>4. AddedAt(z, type, n, bytes)
  BY <1>2, <1>3, AddedIs
<1>5. GrownAt(z) /\ tbl_stack' = tbl_stack
  BY <1>3, <1>4, AddedGrows DEF AddValue
<1>6. IsRead(Read)' /\ Extents'
  <2>1. (DocInv => IsRead(Read) /\ FramesRead /\ Extents)'
    BY Readings, PTL
  <2>2. QED
    BY <1>1, <2>1
<1>7. PICK v : v = ReadValue(z)'
  OBVIOUS
<1>8. v \in Value
  BY <1>2, <1>4, <1>6, <1>7, AddedReads
<1>9. Read'[z] = [name |-> n, value |-> v]
  <2>1. z \in DOMAIN attr' /\ attr'[z].type # "table" /\ attr'[z].name = n
    BY <1>2, <1>4 DEF AddedAt
  <2>2. Read'[z] = [name |-> attr'[z].name, value |-> ReadValue(z)']
    BY <1>6, <2>1 DEF IsRead
  <2>3. QED
    BY <1>7, <2>1, <2>2
<1>10. Document!Extend(Read'[z])
  BY <1>1, <1>5, GrownExtends
<1>11. Document!Extend([name |-> n, value |-> v])
  BY <1>9, <1>10
<1>12. Document!Add(n, v)
  BY <1>11 DEF Document!Add
<1>13. QED
  BY <1>8, <1>12

LEMMA AppendIs ==
    ASSUME NEW m \in Nat, NEW F, F = [k \in 1..m |-> F[k]], NEW y
    PROVE  /\ Append(F, y) = [k \in 1..(m + 1) |-> IF k = m + 1 THEN y ELSE F[k]]
           /\ Len(F) = m
<1>1. PICK S : S = {F[k] : k \in 1..m}
  OBVIOUS
<1>2. F \in [1..m -> S]
  BY <1>1
<1>3. F \in Seq(S) /\ Len(F) = m
  BY <1>2, FunctionIsSeq
<1>4. QED
  BY <1>3

LEMMA OpenIsOpen ==
    ASSUME DocInv, NEW n \in Name, AddTableStart(n)
    PROVE  Document!Open(n)
<1>1. DocInv'
  BY DocTableStart
<1>2. PICK L \in Nat : L = Len(tbl_stack)
  BY StackFacts DEF StackIs
<1>3. PICK z : z = tail
  OBVIOUS
<1>4. /\ \A k \in 1..(L + 1) :
           /\ FrameBegin(k)' = FrameBegin(k) /\ FrameName(k)' = FrameName(k)
           /\ FrameEnd(k)' = FrameEnd(k)
           /\ LengthsKept(attr, attr', FrameBegin(k), FrameEnd(k))
      /\ FrameBegin(L + 2)' = tail' /\ FrameEnd(L + 2)' = tail'
      /\ FrameName(L + 2)' = n
  BY <1>2, <1>3, OpenedFrames
<1>5. AddedAt(z, "table", n, <<>>) /\ Len(tbl_stack') = L + 1 /\ tail' \in Nat
  BY <1>2, <1>3, OpensAt
<1>6. \A o \in DOMAIN attr : Read'[o] = Read[o]
  <2>1. ClosedUnder(DOMAIN attr)
    BY DEF ClosedUnder
  <2>2. \A o \in DOMAIN attr : o \in DOMAIN attr' /\ attr'[o] = attr[o]
    BY <1>5 DEF AddedAt
  <2>3. QED
    BY <1>1, <2>1, <2>2, KeptRead
<1>7. FramesRead /\ FramesRead'
  <2>1. (DocInv => IsRead(Read) /\ FramesRead /\ Extents)'
    BY Readings, PTL
  <2>2. QED
    BY <1>1, <2>1, Readings
<1>8. ASSUME NEW k \in 1..(L + 1) PROVE FrameRead(k)' = FrameRead(k)
  <2>1. k \in 1..(Len(tbl_stack) + 1) /\ k \in 1..(Len(tbl_stack') + 1)
    BY <1>2, <1>5
  <2>2. PICK b, e : b = FrameBegin(k) /\ e = FrameEnd(k)
    OBVIOUS
  <2>3. FrameBegin(k)' = b /\ FrameEnd(k)' = e /\ FrameName(k)' = FrameName(k)
        /\ LengthsKept(attr, attr', b, e)
    BY <1>4, <2>2
  <2>4. ReadKept(b, e)
    BY <1>6 DEF ReadKept
  <2>5. QED
    BY <1>7, <2>1, <2>2, <2>3, <2>4, FrameStays
<1>9. FrameRead(L + 2)' = [name |-> n, items |-> <<>>]
  <2>1. L + 2 \in 1..(Len(tbl_stack') + 1)
    BY <1>5
  <2>2. PICK t : t = <<tail'>>
    OBVIOUS
  <2>3. IsChain(attr', t, FrameBegin(L + 2)', FrameEnd(L + 2)') /\ Len(t) = 1
    BY <1>4, <1>5, <2>2, EmptyChain
  <2>4. FrameRead(L + 2)' = [name |-> FrameName(L + 2)', items |-> ItemsOf(Read', t)]
    BY <1>7, <2>1, <2>3 DEF FramesRead
  <2>5. ItemsOf(Read', t) = <<>>
    <3>1. 1..(Len(t) - 1) = {}
      BY <2>3
    <3>2. QED
      BY SMTT(60), <3>1 DEF ItemsOf
  <2>6. QED
    BY <1>4, <2>4, <2>5
<1>10. PICK F, G, y : F = Frames /\ G = Frames' /\ y = [name |-> n, items |-> <<>>]
  OBVIOUS
<1>11. Len(F) = L + 1 /\ F = [k \in 1..(L + 1) |-> F[k]] /\ \A k \in 1..(L + 1) : F[k] = FrameRead(k)
  BY <1>2, <1>10, FramesAre DEF Frames
<1>12. G = [k \in 1..(L + 2) |-> FrameRead(k)']
  <2>1. Len(tbl_stack') + 1 = L + 2
    BY <1>5
  <2>2. QED
    BY <1>10, <2>1 DEF Frames
<1>13. G = Append(F, y)
  <2>1. \A k \in 1..(L + 2) : FrameRead(k)' = IF k = L + 2 THEN y ELSE F[k]
    BY <1>8, <1>9, <1>10, <1>11
  <2>2. G = [k \in 1..(L + 2) |-> IF k = L + 2 THEN y ELSE F[k]]
    BY <1>12, <2>1
  <2>3. Append(F, y) = [k \in 1..((L + 1) + 1) |-> IF k = (L + 1) + 1 THEN y ELSE F[k]]
    BY <1>11, AppendIs
  <2>4. (L + 1) + 1 = L + 2
    OBVIOUS
  <2>5. QED
    BY <2>2, <2>3, <2>4
<1>14. Len(F) <= MaxDepth
  <2>1. L = nesting /\ nesting < MaxDepth
    BY <1>2 DEF DocInv, BlobInv, TablesPaired, AddTableStart
  <2>2. QED
    BY <1>11, <2>1, Bounds
<1>15. Len(Frames) <= MaxDepth /\ Frames' = Append(Frames, [name |-> n, items |-> <<>>])
  BY <1>10, <1>13, <1>14
<1>16. QED
  BY <1>15 DEF Document!Open, Frames

LEMMA CloseIsClose ==
    ASSUME DocInv, AddTableEnd
    PROVE  Document!Close
<1>1. DocInv'
  BY DocTableEnd
<1>2. PICK L \in Nat : L = Len(tbl_stack)
  BY StackFacts DEF StackIs
<1>3. PICK s : s = tbl_stack[L]
  OBVIOUS
<1>4. ClosesAt(s, L)
  BY <1>2, <1>3, ClosesIs
<1>5. /\ L > 0 /\ s \in DOMAIN attr /\ attr[s].type = "table"
      /\ DOMAIN attr' = DOMAIN attr
      /\ \A o \in DOMAIN attr : o # s => attr'[o] = attr[o]
      /\ attr'[s].type = attr[s].type /\ attr'[s].name = attr[s].name
      /\ attr'[s].name_len = attr[s].name_len
      /\ Len(tbl_stack') = L - 1 /\ tail' = tail
  BY <1>4 DEF ClosesAt
<1>6. /\ \A k \in 1..L :
           /\ FrameBegin(k)' = FrameBegin(k) /\ FrameName(k)' = FrameName(k)
           /\ LengthsKept(attr, attr', FrameBegin(k), FrameEnd(k))
      /\ \A k \in 1..(L - 1) : FrameEnd(k)' = FrameEnd(k)
      /\ FrameEnd(L) = s /\ FrameEnd(L)' = tail /\ tail = s + attr'[s].len
      /\ FrameBegin(L + 1) = DataAt(s) /\ FrameEnd(L + 1) = tail /\ FrameName(L + 1) = attr[s].name
      /\ LengthsKept(attr, attr', FrameBegin(L + 1), FrameEnd(L + 1))
  BY <1>2, <1>4, ClosedFrames
<1>7. \A o \in DOMAIN attr : o # s => Read'[o] = Read[o]
  <2>1. PICK X : X = DOMAIN attr \ {s}
    OBVIOUS
  <2>2. ClosedUnder(X)
    <3>1. ASSUME NEW o \in X, attr[o].type = "table", DataAt(o) <= s, s < End(o) PROVE FALSE
      BY <1>2, <1>3, <1>5, <2>1, <3>1, NoneCut
    <3>2. QED
      BY <2>1, <3>1 DEF ClosedUnder
  <2>3. \A o \in X : o \in DOMAIN attr' /\ attr'[o] = attr[o]
    BY <1>5, <2>1
  <2>4. \A o \in X : Read'[o] = Read[o]
    BY <1>1, <2>1, <2>2, <2>3, KeptRead
  <2>5. QED
    BY <2>1, <2>4
<1>8. FramesRead /\ FramesRead' /\ IsRead(Read)'
  <2>1. (DocInv => IsRead(Read) /\ FramesRead /\ Extents)'
    BY Readings, PTL
  <2>2. QED
    BY <1>1, <2>1, Readings
<1>9. \A o \in DOMAIN attr : /\ o \in Nat /\ DataAt(o) \in Nat /\ o < DataAt(o)
                             /\ tail \in Nat
  BY ExtentsAre DEF Extents
<1>10. ASSUME NEW k \in 1..L PROVE ReadKept(FrameBegin(k), FrameEnd(k)) /\ k \in 1..(Len(tbl_stack) + 1)
                                   /\ k \in 1..(Len(tbl_stack') + 1)
  <2>1. FrameEnd(k) = tbl_stack[k] /\ tbl_stack[k] \in Nat /\ tbl_stack[k] <= s
    <3>1. FrameEnd(k) = tbl_stack[k]
      BY <1>2 DEF FrameEnd
    <3>2. k = L \/ k \in 1..(L - 1)
      OBVIOUS
    <3>3. L \in 1..L
      OBVIOUS
    <3>4. QED
      BY <1>2, <1>3, <3>1, <3>2, <3>3, StackFacts DEF StackIs
  <2>2. \A o \in DOMAIN attr : o < FrameEnd(k) => o # s
    BY <1>5, <1>9, <2>1
  <2>3. QED
    BY <1>2, <1>5, <1>7, <2>2 DEF ReadKept
<1>11. ASSUME NEW k \in 1..(L - 1) PROVE FrameRead(k)' = FrameRead(k)
  <2>1. PICK b, e : b = FrameBegin(k) /\ e = FrameEnd(k)
    OBVIOUS
  <2>2. k \in 1..L
    OBVIOUS
  <2>3. FrameBegin(k)' = b /\ FrameEnd(k)' = e /\ FrameName(k)' = FrameName(k)
        /\ LengthsKept(attr, attr', b, e)
    BY <1>6, <2>1, <2>2
  <2>4. ReadKept(b, e) /\ k \in 1..(Len(tbl_stack) + 1) /\ k \in 1..(Len(tbl_stack') + 1)
    BY <1>10, <2>1, <2>2
  <2>5. QED
    BY <1>8, <2>1, <2>3, <2>4, FrameStays
<1>12. FrameRead(L)' = [name |-> FrameRead(L).name, items |-> Append(FrameRead(L).items, Read'[s])]
  <2>1. PICK b, e, f : b = FrameBegin(L) /\ e = FrameEnd(L) /\ f = tail
    OBVIOUS
  <2>2. L \in 1..L
    BY <1>5
  <2>3. FrameBegin(L)' = b /\ FrameEnd(L)' = f /\ FrameName(L)' = FrameName(L)
        /\ LengthsKept(attr, attr', b, e) /\ e = s
    BY <1>6, <2>1, <2>2
  <2>4. ReadKept(b, e) /\ L \in 1..(Len(tbl_stack) + 1) /\ L \in 1..(Len(tbl_stack') + 1)
    BY <1>10, <2>1, <2>2
  <2>5. f \in Nat /\ e \in DOMAIN attr' /\ f = e + attr'[e].len
    BY <1>5, <1>6, <1>9, <2>1, <2>3
  <2>6. FrameRead(L)' = [name |-> FrameRead(L).name, items |-> Append(FrameRead(L).items, Read'[e])]
    BY <1>8, <2>1, <2>3, <2>4, <2>5, FrameGrows
  <2>7. QED
    BY <2>3, <2>6
<1>13. Read'[s] = FrameRead(L + 1)
  <2>1. L + 1 \in 1..(Len(tbl_stack) + 1)
    BY <1>2
  <2>2. PICK t : IsChain(attr, t, FrameBegin(L + 1), FrameEnd(L + 1))
    BY <2>1 DEF DocInv, FramesChained
  <2>3. FrameRead(L + 1) = [name |-> FrameName(L + 1), items |-> ItemsOf(Read, t)]
    BY <1>8, <2>1, <2>2 DEF FramesRead
  <2>4. HasLengths(attr)
    BY AttrFacts DEF DocInv
  <2>5. ReadKept(FrameBegin(L + 1), FrameEnd(L + 1))
    <3>1. \A o \in DOMAIN attr : FrameBegin(L + 1) <= o => o # s
      BY <1>5, <1>6, <1>9
    <3>2. QED
      BY <1>7, <3>1 DEF ReadKept
  <2>6. ItemsOf(Read', t) = ItemsOf(Read, t)
    BY <2>2, <2>4, <2>5, ItemsStay
  <2>7. IsChain(attr', t, FrameBegin(L + 1), FrameEnd(L + 1))
    BY <1>6, <2>2, <2>4, ChainKept
  <2>8. DataAt(s)' = FrameBegin(L + 1)
    BY <1>5, <1>6 DEF DataAt
  <2>9. End(s)' = FrameEnd(L + 1)
    BY <1>6 DEF End
  <2>10. IsChain(attr', t, DataAt(s)', End(s)')
    BY <2>7, <2>8, <2>9
  <2>11. Read'[s] = [name |-> attr'[s].name, items |-> ItemsOf(Read', t)]
    BY <1>5, <1>8, <2>10 DEF IsRead
  <2>12. QED
    BY <1>5, <1>6, <2>3, <2>6, <2>11
<1>14. PICK F, G : F = Frames /\ G = Frames'
  OBVIOUS
<1>15. Len(F) = L + 1 /\ \A k \in 1..(L + 1) : F[k] = FrameRead(k)
  BY <1>2, <1>14, FramesAre
<1>16. G = [k \in 1..L |-> FrameRead(k)']
  <2>1. Len(tbl_stack') + 1 = L
    BY <1>5
  <2>2. QED
    BY <1>14, <2>1 DEF Frames
<1>17. FrameRead(L)' = Document!WithItem(F[L], F[L + 1])
  <2>1. L \in 1..(Len(tbl_stack) + 1) /\ L \in 1..(L + 1) /\ L + 1 \in 1..(L + 1)
    BY <1>2, <1>5
  <2>2. F[L] = FrameRead(L) /\ F[L + 1] = FrameRead(L + 1)
    BY <1>15, <2>1
  <2>3. PICK r, n, i, x : r = FrameRead(L) /\ n = r.name /\ i = r.items /\ x = FrameRead(L + 1)
    OBVIOUS
  <2>4. r = [name |-> n, items |-> i]
    <3>1. r = [name |-> FrameName(L), items |-> r.items]
      BY <2>1, <2>3, FrameIs
    <3>2. QED
      BY <2>3, <3>1
  <2>5. [r EXCEPT !.items = Append(@, x)] = [name |-> n, items |-> Append(i, x)]
    BY <2>4
  <2>6. FrameRead(L)' = [name |-> n, items |-> Append(i, x)]
    BY <1>12, <1>13, <2>3
  <2>7. QED
    BY <2>2, <2>3, <2>5, <2>6 DEF Document!WithItem
<1>18. \A k \in 1..L : FrameRead(k)' = IF k = L THEN Document!WithItem(F[k], F[L + 1]) ELSE F[k]
  <2>1. ASSUME NEW k \in 1..L, k # L PROVE FrameRead(k)' = F[k]
    <3>1. k \in 1..(L - 1) /\ k \in 1..(L + 1)
      BY <2>1
    <3>2. QED
      BY <1>11, <1>15, <3>1
  <2>2. QED
    BY <1>17, <2>1
<1>19. G = [k \in 1..L |-> IF k = L THEN Document!WithItem(F[k], F[L + 1]) ELSE F[k]]
  BY <1>16, <1>18
<1>20. Len(F) > 1 /\ Len(F) - 1 = L
  BY <1>5, <1>15
<1>21. G = [k \in 1..(Len(F) - 1) |->
              IF k = Len(F) - 1 THEN Document!WithItem(F[k], F[Len(F)]) ELSE F[k]]
  BY <1>15, <1>19, <1>20
<1>22. Frames' = [k \in 1..(Len(Frames) - 1) |->
              IF k = Len(Frames) - 1 THEN Document!WithItem(Frames[k], Frames[Len(Frames)]) ELSE Frames[k]]
       /\ Len(Frames) > 1
  BY <1>14, <1>20, <1>21
<1>23. QED
  BY <1>22 DEF Document!Close, Frames

-----------------------------------------------------------------------------
LEMMA NoItemsOf ==
    ASSUME NEW g, NEW t, Len(t) = 1
    PROVE  ItemsOf(g, t) = <<>>
<1>1. 1..(Len(t) - 1) = {}
  OBVIOUS
<1>2. QED
  BY <1>1 DEF ItemsOf

LEMMA EmptyFrames ==
    ASSUME BlobInv, attr = <<>>, tail = 0, tbl_stack = <<>>
    PROVE  Len(Frames) = 1 /\ Document!Init
<1>1. DocInv
  BY EmptyDoc
<1>2. Len(tbl_stack) = 0 /\ 0 \in Nat /\ 1 \in 1..(Len(tbl_stack) + 1)
  OBVIOUS
<1>3. PICK t : t = <<0>>
  OBVIOUS
<1>4. IsChain(attr, t, FrameBegin(1), FrameEnd(1)) /\ Len(t) = 1
  <2>1. FrameBegin(1) = 0 /\ FrameEnd(1) = 0
    BY <1>2 DEF FrameBegin, FrameEnd
  <2>2. QED
    BY <1>3, <2>1, EmptyChain
<1>5. FrameRead(1) = [name |-> FrameName(1), items |-> ItemsOf(Read, t)]
  BY <1>1, <1>2, <1>4, FrameReadingIs DEF FramesRead
<1>6. ItemsOf(Read, t) = <<>>
  BY <1>4, NoItemsOf
<1>7. FrameRead(1) = [name |-> Root, items |-> <<>>]
  BY <1>5, <1>6 DEF FrameName
<1>8. PICK F, y : F = Frames /\ y = [name |-> Root, items |-> <<>>]
  OBVIOUS
<1>9. Len(F) = 1 /\ F = [k \in 1..1 |-> F[k]] /\ F[1] = y
  <2>1. F = [k \in 1..(0 + 1) |-> FrameRead(k)]
    BY <1>2, <1>8 DEF Frames
  <2>2. Len(F) = 0 + 1 /\ F[1] = FrameRead(1)
    BY <1>2, <1>8, FramesAre
  <2>3. QED
    BY <1>7, <1>8, <2>1, <2>2
<1>10. F = <<y>>
  BY <1>9
<1>11. Len(Frames) = 1 /\ Frames = <<[name |-> Root, items |-> <<>>]>>
  BY <1>8, <1>9, <1>10
<1>12. QED
  BY <1>11 DEF Document!Init, Document!NoItems, Frames

LEMMA ResetIsClear ==
    ASSUME DocInv, Reset
    PROVE  Document!Clear
<1>1. BlobInv'
  BY StepBlob DEF DocInv, BlobNext
<1>2. tbl_stack = <<>>
  BY EmptyStack DEF DocInv, Reset
<1>3. attr' = <<>> /\ tail' = 0 /\ tbl_stack' = <<>>
  BY <1>2 DEF Reset
<1>4. (BlobInv /\ attr = <<>> /\ tail = 0 /\ tbl_stack = <<>> => Len(Frames) = 1 /\ Document!Init)'
  BY EmptyFrames, PTL
<1>5. Document!Init'
  BY <1>1, <1>3, <1>4
<1>6. Len(tbl_stack) = 0 /\ 0 \in Nat
  BY <1>2
<1>7. Len(Frames) = 0 + 1
  BY <1>6, FramesAre
<1>8. QED
  BY <1>5, <1>7 DEF Document!Clear, Frames

LEMMA NothingRead ==
    ASSUME UNCHANGED blobVars
    PROVE  Frames' = Frames
BY DEF blobVars, Frames, FrameRead, Read, ReadValue, GetInt, GetString, GetBuffer, DataLen, DataAt, Inside,
       Steps

(* What can be copied is in the document.                                    *)
ItemsIn(S) == UNION {{x.items[i] : i \in DOMAIN x.items} : x \in S}
TablesIn(S) == {x \in S : "items" \in DOMAIN x}
DownAt(f, d) ==
    IF d = 0 THEN ItemsIn({Frames[k] : k \in DOMAIN Frames})
    ELSE f[d - 1] \cup ItemsIn(TablesIn(f[d - 1]))
DownFrom(f) == f = [d \in 0..(BlobLen \div FixedLen) |-> DownAt(f, d)]

LEMMA ItemsToIs ==
    \E f : Document!ItemsTo = f[BlobLen \div FixedLen] /\ DownFrom(f)
<1>1. Document!ItemsTo = (CHOOSE f : DownFrom(f))[BlobLen \div FixedLen]
  BY Zenon DEF Document!ItemsTo, DownFrom, DownAt, ItemsIn, TablesIn, Frames
<1>2. PICK N \in Nat : N = BlobLen \div FixedLen
  <2>1. BlobLen \div FixedLen \in Nat
    BY SMTT(60), Bounds DEF FixedLen
  <2>2. QED
    BY <2>1
<1>3. PICK D : D = {m \in 0..N : \E f : f = [d \in 0..m |-> DownAt(f, d)]}
  OBVIOUS
<1>4. 0 \in D
  <2>1. PICK f : f = [d \in 0..0 |-> DownAt([x \in {} |-> x], d)]
    OBVIOUS
  <2>2. \A d \in 0..0 : DownAt([x \in {} |-> x], d) = DownAt(f, d)
    BY DEF DownAt
  <2>3. f = [d \in 0..0 |-> DownAt(f, d)]
    BY <2>1, <2>2
  <2>4. QED
    BY <1>3, <2>3
<1>5. ASSUME NEW m \in 1..N, m - 1 \in D PROVE m \in D
  <2>1. PICK f : f = [d \in 0..(m - 1) |-> DownAt(f, d)]
    BY <1>3, <1>5
  <2>2. PICK g : g = [d \in 0..m |-> IF d = m THEN DownAt(f, d) ELSE f[d]]
    OBVIOUS
  <2>3. \A d \in 0..(m - 1) : g[d] = f[d] /\ f[d] = DownAt(f, d)
    <3>1. \A d \in 0..(m - 1) : d \in 0..m /\ d # m
      OBVIOUS
    <3>2. \A d \in 0..(m - 1) : g[d] = f[d]
      BY <2>2, <3>1
    <3>3. \A d \in 0..(m - 1) : f[d] = DownAt(f, d)
      BY <2>1
    <3>4. QED
      BY <3>2, <3>3
  <2>4. ASSUME NEW d \in 0..m PROVE DownAt(g, d) = DownAt(f, d)
    <3>1. CASE d = 0
      BY <3>1 DEF DownAt
    <3>2. CASE d # 0
      <4>1. d - 1 \in 0..(m - 1)
        BY <3>2
      <4>2. QED
        BY <2>3, <3>2, <4>1 DEF DownAt
    <3>3. QED
      BY <3>1, <3>2
  <2>5. ASSUME NEW d \in 0..m PROVE g[d] = DownAt(g, d)
    <3>1. CASE d = m
      BY <2>2, <2>4, <3>1
    <3>2. CASE d # m
      <4>1. d \in 0..(m - 1)
        BY <3>2
      <4>2. QED
        BY <2>3, <2>4, <4>1
    <3>3. QED
      BY <3>1, <3>2
  <2>6. g = [d \in 0..m |-> DownAt(g, d)]
    <3>1. g = [d \in 0..m |-> g[d]]
      BY <2>2
    <3>2. QED
      BY <2>5, <3>1
  <2>7. QED
    BY <1>3, <2>6
<1>6. N \in D
  <2>1. \A m \in 0..N : m \in D
    BY <1>4, <1>5, UpTo
  <2>2. QED
    BY <2>1
<1>7. \E f : DownFrom(f)
  BY <1>2, <1>3, <1>6 DEF DownFrom
<1>8. PICK h : h = CHOOSE f : DownFrom(f)
  OBVIOUS
<1>9. DownFrom(h)
  BY <1>7, <1>8
<1>10. Document!ItemsTo = h[BlobLen \div FixedLen]
  BY <1>1, <1>8, Zenon
<1>11. QED
  BY <1>9, <1>10

-----------------------------------------------------------------------------
(* At each depth are the items that lie less deep, and those of its tables.    *)
Descends(f, N) ==
    /\ \A d \in 1..N : f[d - 1] \subseteq f[d]
    /\ \A d \in 1..N : \A x \in f[d - 1] : "items" \in DOMAIN x =>
                          \A i \in DOMAIN x.items : x.items[i] \in f[d]
    /\ \A k \in DOMAIN Frames : \A i \in DOMAIN Frames[k].items : Frames[k].items[i] \in f[0]

LEMMA DownDescends ==
    ASSUME NEW f, DownFrom(f), NEW N \in Nat, N = BlobLen \div FixedLen
    PROVE  Descends(f, N)
<1>1. \A d \in 0..N : f[d] = DownAt(f, d)
  BY DEF DownFrom
<1>2. f[0] = ItemsIn({Frames[k] : k \in DOMAIN Frames})
  <2>1. f[0] = DownAt(f, 0)
    BY <1>1
  <2>2. DownAt(f, 0) = ItemsIn({Frames[k] : k \in DOMAIN Frames})
    BY Zenon DEF DownAt
  <2>3. QED
    BY <2>1, <2>2, Zenon
<1>3. ASSUME NEW d \in 1..N PROVE f[d] = f[d - 1] \cup ItemsIn(TablesIn(f[d - 1]))
  <2>1. d \in 0..N /\ d # 0
    OBVIOUS
  <2>2. QED
    BY <1>1, <2>1 DEF DownAt
<1>4. \A d \in 1..N : f[d - 1] \subseteq f[d]
  BY <1>3
<1>5. ASSUME NEW d \in 1..N, NEW x \in f[d - 1], "items" \in DOMAIN x, NEW i \in DOMAIN x.items
      PROVE  x.items[i] \in f[d]
  <2>1. x \in TablesIn(f[d - 1])
    BY <1>5 DEF TablesIn
  <2>2. x.items[i] \in ItemsIn(TablesIn(f[d - 1]))
    BY <1>5, <2>1 DEF ItemsIn
  <2>3. QED
    BY <1>3, <2>2
<1>6. ASSUME NEW k \in DOMAIN Frames, NEW i \in DOMAIN Frames[k].items
      PROVE  Frames[k].items[i] \in f[0]
  <2>1. PICK F : F = Frames
    OBVIOUS
  <2>2. k \in DOMAIN F /\ i \in DOMAIN F[k].items
    BY <1>6, <2>1
  <2>3. F[k].items[i] \in ItemsIn({F[j] : j \in DOMAIN F})
    BY <2>2 DEF ItemsIn
  <2>4. QED
    BY <1>2, <2>1, <2>3
<1>7. QED
  BY <1>4, <1>5, <1>6 DEF Descends

LEMMA AllBelow ==
    ASSUME NEW f, NEW N \in Nat, Descends(f, N), NEW d \in 0..N
    PROVE  f[d] \subseteq f[N]
<1>1. PICK D : D = {k \in 0..N : k <= N - d => f[d] \subseteq f[d + k]}
  OBVIOUS
<1>2. 0 \in D
  <2>1. d + 0 = d
    OBVIOUS
  <2>2. QED
    BY <1>1, <2>1
<1>3. ASSUME NEW k \in 1..N, k - 1 \in D PROVE k \in D
  <2>1. CASE ~(k <= N - d)
    BY <1>1, <2>1
  <2>2. CASE k <= N - d
    <3>1. k - 1 <= N - d /\ d + k \in 1..N /\ (d + k) - 1 = d + (k - 1)
      BY <2>2
    <3>2. f[d] \subseteq f[d + (k - 1)]
      BY <1>1, <1>3, <3>1
    <3>3. f[d + (k - 1)] \subseteq f[d + k]
      BY <3>1 DEF Descends
    <3>4. QED
      BY <1>1, <3>2, <3>3
  <2>3. QED
    BY <2>1, <2>2
<1>4. N - d \in D /\ d + (N - d) = N
  <2>1. \A k \in 0..N : k \in D
    BY <1>2, <1>3, UpTo
  <2>2. N - d \in 0..N /\ d + (N - d) = N
    OBVIOUS
  <2>3. QED
    BY <2>1, <2>2
<1>5. QED
  BY <1>1, <1>4

(* What is at o, in a chain of which each attribute is read at depth d.        *)
TilesIn(g, t, S) == \A i \in 1..(Len(t) - 1) : g[t[i]] \in S

Reached(g, f, N, m) ==
    \A t, b, e : \A d \in 0..N, o \in DOMAIN attr :
       IsChain(attr, t, b, e) /\ 6 * d <= b /\ b <= o /\ o < e /\ o - b <= m /\ TilesIn(g, t, f[d])
          => g[o] \in f[N]

LEMMA ReachNext ==
    ASSUME DocInv, NEW g, IsRead(g), NEW f, NEW N \in Nat, Descends(f, N), N = BlobLen \div FixedLen,
           NEW m \in Nat, m > 0 => Reached(g, f, N, m - 1)
    PROVE  Reached(g, f, N, m)
<1> SUFFICES ASSUME NEW t, NEW b, NEW e, NEW d \in 0..N, NEW o \in DOMAIN attr,
                    IsChain(attr, t, b, e), 6 * d <= b, b <= o, o < e, o - b <= m,
                    TilesIn(g, t, f[d])
             PROVE  g[o] \in f[N]
  BY DEF Reached
<1>1. /\ HasLengths(attr) /\ o \in Nat /\ b \in Nat /\ e \in Nat
      /\ \A p \in DOMAIN attr : p \in Nat
  BY AttrFacts, ChainBounds DEF DocInv
<1>2. PICK i \in 1..(Len(t) - 1) : t[i] <= o /\ o < t[i + 1]
  BY <1>1, ChainCovers
<1>3. PICK p : p = t[i]
  OBVIOUS
<1>4. p \in DOMAIN attr /\ p \in Nat /\ t[i + 1] = p + attr[p].len /\ b <= p
  <2>1. Len(t) \in Nat /\ i \in 1..Len(t)
    BY DEF IsChain
  <2>2. p \in DOMAIN attr /\ t[i + 1] = p + attr[p].len
    BY <1>3 DEF IsChain
  <2>3. b <= p
    BY <1>1, <1>3, <2>1, ChainBounds
  <2>4. QED
    BY <1>1, <2>2, <2>3
<1>5. g[p] \in f[d]
  BY <1>3 DEF TilesIn
<1>6. CASE o = p
  BY <1>5, <1>6, AllBelow
<1>7. CASE o # p
  <2>1. p < o /\ o < End(p)
    BY SMTT(60), <1>1, <1>2, <1>3, <1>4, <1>7 DEF End
  <2>2. attr[p].type = "table" /\ DataAt(p) <= o
    BY <1>4, <2>1 DEF DocInv, OnlyTablesFilled
  <2>3. /\ DataAt(p) \in Nat /\ p + 6 <= DataAt(p) /\ End(p) \in Nat /\ DataAt(p) <= End(p)
        /\ End(p) <= tail /\ tail \in Nat /\ tail <= BlobLen
    BY <1>4, ExtentsAre DEF Extents
  <2>4. PICK u : IsChain(attr, u, DataAt(p), End(p))
    BY <1>4, <2>2 DEF DocInv, TablesChained
  <2>5. g[p] = [name |-> attr[p].name, items |-> ItemsOf(g, u)]
    BY <1>4, <2>2, <2>4 DEF IsRead
  <2>6. m > 0 /\ o - DataAt(p) <= m - 1
    BY SMTT(60), <1>1, <1>4, <2>2, <2>3
  <2>7. 6 * (d + 1) <= DataAt(p)
    BY SMTT(60), <1>1, <1>4, <2>3
  <2>8. d + 1 \in 0..N
    <3>1. 6 * (d + 1) <= BlobLen
      BY SMTT(60), <2>3, <2>7, Bounds
    <3>2. d + 1 <= BlobLen \div FixedLen
      BY <3>1, Bounds, SMTT(60) DEF FixedLen
    <3>3. QED
      BY <3>2
  <2>9. TilesIn(g, u, f[d + 1])
    <3>1. PICK n \in Nat : n = Len(u)
      BY <2>4 DEF IsChain
    <3>2. PICK its : its = ItemsOf(g, u)
      OBVIOUS
    <3>3. DOMAIN its = 1..(n - 1) /\ \A j \in 1..(n - 1) : its[j] = g[u[j]]
      BY <3>1, <3>2 DEF ItemsOf
    <3>4. PICK x : x = g[p]
      OBVIOUS
    <3>5. x \in f[d] /\ "items" \in DOMAIN x /\ x.items = its
      BY <1>5, <2>5, <3>2, <3>4
    <3>6. d + 1 \in 1..N /\ (d + 1) - 1 = d
      BY <2>8
    <3>7. \A j \in DOMAIN its : its[j] \in f[d + 1]
      BY <3>5, <3>6 DEF Descends
    <3>8. QED
      BY <3>1, <3>3, <3>7 DEF TilesIn
  <2>10. Reached(g, f, N, m - 1)
    BY <2>6
  <2>11. QED
    BY <2>1, <2>2, <2>4, <2>6, <2>7, <2>8, <2>9, <2>10 DEF Reached
<1>8. QED
  BY <1>6, <1>7

LEMMA AllReached ==
    ASSUME DocInv, NEW g, IsRead(g), NEW f, NEW N \in Nat, Descends(f, N), N = BlobLen \div FixedLen,
           NEW M \in Nat
    PROVE  Reached(g, f, N, M)
<1>1. PICK D : D = {m \in 0..M : Reached(g, f, N, m)}
  OBVIOUS
<1>2. Reached(g, f, N, 0)
  BY ReachNext
<1>3. 0 \in D
  BY <1>1, <1>2
<1>4. ASSUME NEW m \in 1..M, m - 1 \in D PROVE m \in D
  <2>1. Reached(g, f, N, m - 1) /\ m \in Nat
    BY <1>1, <1>4
  <2>2. Reached(g, f, N, m)
    BY <2>1, ReachNext
  <2>3. QED
    BY <1>1, <2>2
<1>5. \A m \in 0..M : m \in D
  BY <1>3, <1>4, UpTo
<1>6. QED
  BY <1>1, <1>5

(* An attribute that is no open table lies in one of the frames.               *)
LEMMA ClosedFramed ==
    ASSUME DocInv, NEW o \in Closed
    PROVE  \E k \in 1..(Len(tbl_stack) + 1) : FrameBegin(k) <= o /\ o < FrameEnd(k)
<1>1. PICK L \in Nat : L = Len(tbl_stack)
  BY StackFacts DEF StackIs
<1>2. o \in DOMAIN attr /\ \A k \in 1..L : tbl_stack[k] # o
  <2>1. DOMAIN tbl_stack = 1..L
    BY <1>1 DEF DocInv, BlobInv, BlobTyped
  <2>2. QED
    BY <2>1 DEF Closed
<1>3. o \in Nat /\ o < tail
  BY <1>2, AttrFacts DEF DocInv
<1>4. PICK T : T = {k \in 1..(L + 1) : o < FrameEnd(k)}
  OBVIOUS
<1>5. L + 1 \in T
  <2>1. FrameEnd(L + 1) = tail
    BY <1>1 DEF FrameEnd
  <2>2. QED
    BY <1>3, <1>4, <2>1
<1>6. T \in SUBSET Nat /\ T # {}
  BY <1>4, <1>5
<1>7. PICK k \in T : \A j \in T : k <= j
  BY <1>6, LeastNatural
<1>8. k \in 1..(L + 1) /\ o < FrameEnd(k)
  BY <1>4, <1>7
<1>9. CASE k = 1
  <2>1. FrameBegin(k) <= o
    BY <1>3, <1>9 DEF FrameBegin
  <2>2. QED
    BY <1>1, <1>8, <2>1
<1>10. CASE k # 1
  <2>1. k - 1 \in 1..L /\ k - 1 \in 1..(L + 1) /\ k - 1 \notin T
    BY <1>7, <1>8, <1>10
  <2>2. PICK s : s = tbl_stack[k - 1]
    OBVIOUS
  <2>3. FrameEnd(k - 1) = s /\ s \in DOMAIN attr /\ s \in Nat /\ s # o
    BY <1>1, <1>2, <2>1, <2>2, StackFacts DEF FrameEnd, StackIs
  <2>4. s < o
    BY <1>3, <1>4, <2>1, <2>3
  <2>5. DataAt(s) <= o
    BY <1>2, <2>3, <2>4 DEF DocInv, OnlyTablesFilled
  <2>6. FrameBegin(k) = DataAt(s)
    BY <1>10, <2>2 DEF FrameBegin
  <2>7. QED
    BY <1>1, <1>8, <2>5, <2>6
<1>11. QED
  BY <1>9, <1>10

LEMMA ReadIsItem ==
    ASSUME DocInv, NEW o \in Closed
    PROVE  Read[o] \in Document!ItemsTo
<1>1. PICK g : g = Read
  OBVIOUS
<1>2. IsRead(g) /\ FramesRead
  BY <1>1, Readings
<1>3. PICK f : Document!ItemsTo = f[BlobLen \div FixedLen] /\ DownFrom(f)
  BY ItemsToIs
<1>4. PICK N \in Nat : N = BlobLen \div FixedLen
  <2>1. BlobLen \div FixedLen \in Nat
    BY SMTT(60), Bounds DEF FixedLen
  <2>2. QED
    BY <2>1
<1>5. Descends(f, N)
  BY <1>3, <1>4, DownDescends
<1>6. PICK L \in Nat : L = Len(tbl_stack)
  BY StackFacts DEF StackIs
<1>7. PICK k \in 1..(L + 1) : FrameBegin(k) <= o /\ o < FrameEnd(k)
  BY <1>6, ClosedFramed
<1>8. PICK t : IsChain(attr, t, FrameBegin(k), FrameEnd(k))
  BY <1>6 DEF DocInv, FramesChained
<1>9. FrameRead(k) = [name |-> FrameName(k), items |-> ItemsOf(g, t)]
  BY <1>1, <1>2, <1>6, <1>8 DEF FramesRead
<1>10. TilesIn(g, t, f[0])
  <2>1. PICK F, x, its : F = Frames /\ x = FrameRead(k) /\ its = ItemsOf(g, t)
    OBVIOUS
  <2>2. k \in DOMAIN F /\ F[k] = x
    BY <1>6, <2>1, FramesAre
  <2>3. x.items = its
    BY <1>9, <2>1
  <2>4. PICK n : n = Len(t) - 1
    OBVIOUS
  <2>5. DOMAIN its = 1..n /\ \A j \in 1..n : its[j] = g[t[j]]
    BY <2>1, <2>4 DEF ItemsOf
  <2>6. \A i \in DOMAIN F[k].items : F[k].items[i] \in f[0]
    BY <1>5, <2>1, <2>2 DEF Descends
  <2>7. \A j \in 1..n : g[t[j]] \in f[0]
    BY <2>2, <2>3, <2>5, <2>6
  <2>8. QED
    BY <2>4, <2>7 DEF TilesIn
<1>11. /\ FrameBegin(k) \in Nat /\ o \in DOMAIN attr /\ o \in Nat
  <2>1. o \in DOMAIN attr
    BY DEF Closed
  <2>2. QED
    BY <1>6, <2>1, FrameBounds, AttrFacts DEF DocInv
<1>12. PICK b, M : b = FrameBegin(k) /\ M = o - b
  OBVIOUS
<1>13. M \in Nat /\ 6 * 0 <= b /\ o - b <= M /\ 0 \in 0..N
  BY <1>7, <1>11, <1>12
<1>14. Reached(g, f, N, M)
  BY <1>2, <1>4, <1>5, <1>13, AllReached
<1>15. g[o] \in f[N]
  BY <1>7, <1>8, <1>10, <1>11, <1>12, <1>13, <1>14 DEF Reached
<1>16. QED
  BY <1>1, <1>3, <1>4, <1>15

LEMMA CatenateIsCopy ==
    ASSUME DocInv, NEW from \in Closed, Catenate(from)
    PROVE  Document!Copy
<1>1. DocInv'
  BY DocCatenate
<1>2. PICK z, D : z = tail /\ D = z - from
  OBVIOUS
<1>3. CopiesAt(z, from, D)
  BY <1>2, CopiesIs
<1>4. /\ from \in DOMAIN attr /\ from \in Nat /\ D \in Nat /\ z = from + D
      /\ \A p \in Span(from) : p + D \in DOMAIN attr' /\ attr'[p + D] = attr[p]
  BY <1>3 DEF CopiesAt
<1>5. from \in Span(from) /\ Span(from) \in SUBSET DOMAIN attr /\ ClosedUnder(Span(from))
  BY <1>4, SpanFacts
<1>6. /\ IsRead(Read) /\ IsRead(Read)' /\ Extents /\ Extents'
  <2>1. (DocInv => IsRead(Read) /\ FramesRead /\ Extents)'
    BY Readings, PTL
  <2>2. QED
    BY <1>1, <2>1, Readings
<1>7. Read'[z] = Read[from]
  <2>1. PICK X : X = Span(from)
    OBVIOUS
  <2>2. /\ X \in SUBSET DOMAIN attr /\ ClosedUnder(X) /\ D \in Int /\ from \in X
        /\ \A p \in X : p + D \in DOMAIN attr' /\ attr'[p + D] = attr[p]
    BY <1>4, <1>5, <2>1
  <2>3. \A p \in X : Read'[p + D] = Read[p]
    BY <1>1, <1>6, <2>2, SameRead
  <2>4. QED
    BY <1>4, <2>2, <2>3
<1>8. Document!Extend(Read'[z])
  BY <1>1, <1>3, CopyGrows, GrownExtends
<1>9. Document!Extend(Read[from])
  BY <1>7, <1>8
<1>10. Read[from] \in Document!ItemsTo
  BY ReadIsItem
<1>11. QED
  BY <1>9, <1>10 DEF Document!Copy

DocumentStep == [Document!Next]_Frames

LEMMA DocumentSteps == DocInv /\ [BlobNext]_blobVars => DocumentStep
<1> SUFFICES ASSUME DocInv, [BlobNext]_blobVars PROVE DocumentStep
  OBVIOUS
<1>1. CASE \E n \in Name : AddValue(n)
  <2>1. Document!Next
    BY <1>1, AddIsAdd DEF Document!Next
  <2>2. QED
    BY <2>1 DEF DocumentStep
<1>2. CASE \E n \in Name : AddTableStart(n)
  <2>1. Document!Next
    BY <1>2, OpenIsOpen DEF Document!Next
  <2>2. QED
    BY <2>1 DEF DocumentStep
<1>3. CASE AddTableEnd
  BY <1>3, CloseIsClose DEF DocumentStep, Document!Next
<1>4. CASE \E from \in Closed : Catenate(from)
  <2>1. Document!Next
    BY <1>4, CatenateIsCopy DEF Document!Next
  <2>2. QED
    BY <2>1 DEF DocumentStep
<1>5. CASE Reset
  BY <1>5, ResetIsClear DEF DocumentStep, Document!Next
<1>6. CASE UNCHANGED blobVars
  BY <1>6, NothingRead DEF DocumentStep
<1>7. QED
  BY <1>1, <1>2, <1>3, <1>4, <1>5, <1>6 DEF BlobNext

(* Whatever callers add, open, close, copy and reset, what for_each and the    *)
(* getters return of the blob, with all its open tables, is the document that  *)
(* was composed: each value as it was given, each table with the items added   *)
(* while it was open, and each copy with all that was in the original.         *)
THEOREM ReadsWhatWasComposed == BlobSpec => DocumentSpec
<1>1. BlobInit => DocInv
  BY InitDoc
<1>2. DocInv /\ [BlobNext]_blobVars => DocInv'
  BY StepDoc
<1>3. BlobInit => Document!Init
  BY InitBlob, EmptyFrames DEF BlobInit
<1>4. DocInv /\ [BlobNext]_blobVars => DocumentStep
  BY DocumentSteps
<1>5. QED
  BY <1>1, <1>2, <1>3, <1>4, PTL DEF BlobSpec, DocumentSpec, Document!Spec, DocumentStep, Frames

-----------------------------------------------------------------------------
(* The block has the capacity it is kept with, and the end is within it.      *)
VectorValue == Element \cup {Garbage}

VectorInv ==
    /\ capacity \in Nat \ {0}
    /\ block \in [0..(capacity - 1) -> VectorValue]
    /\ end \in 0..capacity

(* A vector begins with room for its first capacity.                        *)
LEMMA VectorInitInv == VectorInit => VectorInv
  BY VectorAssumption DEF VectorAssumption, VectorInit, VectorInv, VectorValue

(* What the elements are, as a sequence.                                      *)
LEMMA VectorItems ==
    ASSUME VectorInv
    PROVE  /\ VectorElements \in Seq(VectorValue) /\ Len(VectorElements) = end
           /\ \A i \in 1..end : VectorElements[i] = block[i - 1]
<1>1. PICK f : f = VectorElements
  OBVIOUS
<1>2. f \in [1..end -> VectorValue] /\ end \in Nat
  <2>1. \A i \in 1..end : i - 1 \in 0..(capacity - 1)
    BY DEF VectorInv
  <2>2. \A i \in 1..end : block[i - 1] \in VectorValue
    BY <2>1 DEF VectorInv
  <2>3. QED
    BY <1>1, <2>2 DEF VectorElements, VectorInv
<1>3. f \in Seq(VectorValue) /\ Len(f) = end
  BY <1>2, FunctionIsSeq
<1>4. \A i \in 1..end : f[i] = block[i - 1]
  BY <1>1 DEF VectorElements
<1>5. QED
  BY <1>1, <1>3, <1>4

(* The elements after a step, as a relation of block and end.                  *)
ItemsAre(s, b, n) == s \in Seq(VectorValue) /\ Len(s) = n /\ \A i \in 1..n : s[i] = b[i - 1]

LEMMA VectorSame ==
    ASSUME NEW s, NEW t, NEW b, NEW n \in Nat, ItemsAre(s, b, n),
           t \in Seq(VectorValue), Len(t) = n, \A i \in 1..n : t[i] = b[i - 1]
    PROVE  s = t
<1>1. \A i \in 1..Len(s) : s[i] = t[i]
  BY DEF ItemsAre
<1>2. QED
  BY <1>1, SeqEqual DEF ItemsAre

(* What the elements are now.                                               *)
LEMMA VectorNow == VectorInv => ItemsAre(VectorElements, block, end)
  BY VectorItems DEF ItemsAre

(* An element that is pushed goes to the end of the block, or of one with      *)
(* twice the capacity and the same elements.                                  *)
LEMMA PushStep ==
    ASSUME VectorInv, NEW v \in Element, VectorPushBack(v)
    PROVE  /\ VectorInv'
           /\ \A i \in 0..(end - 1) : block'[i] = block[i]
           /\ block'[end] = v
<1>1. capacity \in Nat \ {0} /\ block \in [0..(capacity - 1) -> VectorValue] /\ end \in 0..capacity
      /\ v \in VectorValue /\ Garbage \in VectorValue
  BY DEF VectorInv, VectorValue
<1>2. CASE PushInPlace(v)
  <2>1. end \in 0..(capacity - 1) /\ end + 1 \in 0..capacity
    BY <1>1, <1>2 DEF PushInPlace
  <2>2. block' = [block EXCEPT ![end] = v] /\ capacity' = capacity /\ end' = end + 1
    BY <1>2 DEF PushInPlace, Written, VectorPushBack
  <2>3. QED
    BY <1>1, <2>1, <2>2 DEF VectorInv
<1>3. CASE PushInNewBlock(v)
  <2>1. PICK c \in Nat \ {0} : c = 2 * capacity /\ capacity <= c - 1 /\ end = capacity
    BY <1>1, <1>3 DEF PushInNewBlock
  <2>2. PICK g : g = [i \in 0..(c - 1) |-> IF i < capacity THEN block[i] ELSE Garbage]
    OBVIOUS
  <2>3. g \in [0..(c - 1) -> VectorValue] /\ \A i \in 0..(end - 1) : g[i] = block[i]
    <3>1. \A i \in 0..(c - 1) : i < capacity => i \in 0..(capacity - 1)
      BY <1>1
    <3>2. \A i \in 0..(c - 1) : (IF i < capacity THEN block[i] ELSE Garbage) \in VectorValue
      BY <1>1, <3>1
    <3>3. \A i \in 0..(end - 1) : i \in 0..(c - 1) /\ i < capacity
      BY <1>1, <2>1
    <3>4. QED
      BY <2>2, <3>2, <3>3
  <2>4. block' = [g EXCEPT ![end] = v] /\ capacity' = c /\ end' = end + 1
    BY <1>3, <2>1, <2>2 DEF PushInNewBlock, Written, Grown, VectorPushBack
  <2>5. end \in 0..(c - 1) /\ end + 1 \in 0..c /\ \A i \in 0..(end - 1) : i # end
    BY <1>1, <2>1
  <2>6. QED
    BY <1>1, <2>1, <2>3, <2>4, <2>5 DEF VectorInv
<1>4. QED
  BY <1>2, <1>3 DEF VectorPushBack

(* What is moved by one place keeps its order.                                *)
LEMMA MovedBlock ==
    ASSUME VectorInv, NEW to \in Nat, NEW from \in Nat, NEW count \in Nat, NEW b,
           b = Moved(block, to, from, count)
    PROVE  /\ b \in [0..(capacity - 1) -> VectorValue]
           /\ \A i \in 0..(capacity - 1) :
                 b[i] = IF i \in to..(to + count - 1)
                        THEN IF i - to + from \in 0..(capacity - 1)
                             THEN block[i - to + from] ELSE Garbage
                        ELSE block[i]
<1>1. block \in [0..(capacity - 1) -> VectorValue] /\ DOMAIN block = 0..(capacity - 1)
      /\ Garbage \in VectorValue
  BY DEF VectorInv, VectorValue
<1>2. QED
  BY <1>1 DEF Moved

(* What vector_insert and vector_delete leave in the block.                 *)
LEMMA InsertStep ==
    ASSUME VectorInv, NEW k \in Nat, NEW v \in Element, VectorInsert(k, v), end < capacity
    PROVE  /\ VectorInv' /\ k <= end /\ end' = end + 1 /\ outcome'.op = "insert"
           /\ \A i \in 0..end :
                 block'[i] = IF i < k THEN block[i] ELSE IF i = k THEN v ELSE block[i - 1]
<1>1. capacity \in Nat \ {0} /\ end \in Nat /\ end < capacity /\ v \in VectorValue /\ k <= end
  BY DEF VectorInv, VectorInsert, VectorValue
<1>2. PICK b : b = Moved(block, k + 1, k, end - k)
  OBVIOUS
<1>3. end - k \in Nat /\ k + 1 \in Nat
  BY <1>1
<1>4. /\ b \in [0..(capacity - 1) -> VectorValue]
      /\ \A i \in 0..(capacity - 1) :
            b[i] = IF i \in (k + 1)..(k + 1 + (end - k) - 1)
                   THEN IF i - (k + 1) + k \in 0..(capacity - 1)
                        THEN block[i - (k + 1) + k] ELSE Garbage
                   ELSE block[i]
  BY SMTT(60), <1>2, <1>3, MovedBlock
<1>5. /\ block' = [b EXCEPT ![k] = v] /\ end' = end + 1 /\ capacity' = capacity
      /\ outcome' = [op |-> "insert", at |-> k, value |-> v]
  BY <1>1, <1>2 DEF VectorInsert, Written
<1>6. k \in 0..(capacity - 1) /\ end + 1 \in 0..capacity
  BY <1>1
<1>7. ASSUME NEW i \in 0..end
      PROVE  block'[i] = IF i < k THEN block[i] ELSE IF i = k THEN v ELSE block[i - 1]
  <2>1. i \in 0..(capacity - 1)
    BY <1>1
  <2>2. CASE i = k
    BY <1>4, <1>5, <2>1, <2>2
  <2>3. CASE i < k
    <3>1. i \notin (k + 1)..(k + 1 + (end - k) - 1)
      BY <2>3
    <3>2. b[i] = block[i]
      BY <1>4, <2>1, <3>1
    <3>3. QED
      BY <1>4, <1>5, <2>1, <2>3, <3>2
  <2>4. CASE i > k
    <3>1. /\ i \in (k + 1)..(k + 1 + (end - k) - 1) /\ i - (k + 1) + k = i - 1
          /\ i - 1 \in 0..(capacity - 1)
      BY <1>1, <2>4
    <3>2. b[i] = block[i - 1]
      BY <1>4, <2>1, <3>1
    <3>3. QED
      BY <1>4, <1>5, <2>1, <2>4, <3>2
  <2>5. QED
    BY <2>2, <2>3, <2>4
<1>8. VectorInv'
  BY <1>1, <1>4, <1>5, <1>6 DEF VectorInv
<1>9. QED
  BY <1>1, <1>5, <1>7, <1>8

LEMMA DeleteStep ==
    ASSUME VectorInv, NEW k \in Nat, VectorDelete(k), ~(k = end \/ (k = 0 /\ end = 1))
    PROVE  /\ VectorInv' /\ k < end /\ end' = end - 1
           /\ \A i \in 0..(end - 2) : block'[i] = IF i < k THEN block[i] ELSE block[i + 1]
<1>1. capacity \in Nat \ {0} /\ end \in Nat /\ end <= capacity /\ k < end
  BY DEF VectorInv, VectorDelete
<1>2. /\ block' = Moved(block, k, k + 1, end - k) /\ end' = end - 1 /\ capacity' = capacity
  BY DEF VectorDelete
<1>3. end - k \in Nat /\ k + 1 \in Nat /\ k \in Nat
  BY <1>1
<1>11. PICK c \in Nat : c = end - k
  BY <1>3
<1>12. PICK f \in Nat : f = k + 1
  BY <1>3
<1>9. PICK b : b = Moved(block, k, f, c)
  OBVIOUS
<1>13. /\ b \in [0..(capacity - 1) -> VectorValue]
       /\ \A i \in 0..(capacity - 1) :
             b[i] = IF i \in k..(k + c - 1)
                    THEN IF i - k + f \in 0..(capacity - 1)
                         THEN block[i - k + f] ELSE Garbage
                    ELSE block[i]
  BY SMTT(60), <1>9, MovedBlock
<1>10. /\ b \in [0..(capacity - 1) -> VectorValue]
       /\ \A i \in 0..(capacity - 1) :
             b[i] = IF i \in k..(k + (end - k) - 1)
                    THEN IF i - k + (k + 1) \in 0..(capacity - 1)
                         THEN block[i - k + (k + 1)] ELSE Garbage
                    ELSE block[i]
  BY <1>11, <1>12, <1>13
<1>4. /\ block' \in [0..(capacity - 1) -> VectorValue]
      /\ \A i \in 0..(capacity - 1) :
            block'[i] = IF i \in k..(k + (end - k) - 1)
                        THEN IF i - k + (k + 1) \in 0..(capacity - 1)
                             THEN block[i - k + (k + 1)] ELSE Garbage
                        ELSE block[i]
  BY <1>2, <1>9, <1>10, <1>11, <1>12
<1>5. ASSUME NEW i \in 0..(end - 2)
      PROVE  block'[i] = IF i < k THEN block[i] ELSE block[i + 1]
  <2>1. i \in 0..(capacity - 1) /\ i + 1 \in 0..(capacity - 1) /\ i - k + (k + 1) = i + 1
    BY <1>1
  <2>2. CASE i < k
    <3>1. i \notin k..(k + (end - k) - 1)
      BY <2>2
    <3>2. QED
      BY <1>4, <2>1, <2>2, <3>1
  <2>3. CASE i >= k
    <3>1. i \in k..(k + (end - k) - 1)
      BY <1>1, <2>3
    <3>2. QED
      BY <1>4, <2>1, <2>3, <3>1
  <2>4. QED
    BY <2>2, <2>3
<1>6. end - 1 \in 0..capacity
  BY <1>1
<1>7. VectorInv'
  BY <1>1, <1>2, <1>4, <1>6 DEF VectorInv
<1>8. QED
  BY <1>1, <1>2, <1>5, <1>7

(* vector_set writes one place of the block.                                *)
LEMMA SetStep ==
    ASSUME VectorInv, NEW k \in Nat, NEW v \in Element, VectorSet(k, v), k < capacity
    PROVE  /\ VectorInv' /\ end' = (IF k > end THEN k ELSE end)
           /\ block' = [block EXCEPT ![k] = v] /\ k \in 0..(capacity - 1)
  BY DEF VectorSet, VectorInv, Written, VectorValue

-----------------------------------------------------------------------------
(* What each operation leaves of the elements.                                *)
LEMMA PushItems ==
    ASSUME VectorInv, NEW v \in Element, VectorPushBack(v)
    PROVE  VectorElements' \in After(outcome', VectorElements)
<1>1. /\ VectorInv' /\ \A i \in 0..(end - 1) : block'[i] = block[i]
      /\ block'[end] = v
  BY PushStep
<1>2. end' = end + 1 /\ outcome' = [op |-> "push", value |-> v] /\ end \in Nat
  BY DEF VectorPushBack, VectorInv
<1>3. PICK s : s = VectorElements
  OBVIOUS
<1>4. s \in Seq(VectorValue) /\ Len(s) = end /\ \A i \in 1..end : s[i] = block[i - 1]
  BY <1>3, VectorItems
<1>5. PICK t : t = Append(s, v)
  OBVIOUS
<1>6. v \in VectorValue
  BY DEF VectorValue
<1>7. /\ t \in Seq(VectorValue) /\ Len(t) = end + 1 /\ t[end + 1] = v
      /\ \A i \in 1..end : t[i] = s[i]
  BY <1>4, <1>5, <1>6, AppendProperties
<1>8. (VectorInv => ItemsAre(VectorElements, block, end))'
  BY VectorNow, PTL
<1>9. PICK u : u = VectorElements'
  OBVIOUS
<1>10. ItemsAre(u, block', end + 1)
  BY <1>1, <1>2, <1>8, <1>9
<1>11. \A i \in 1..(end + 1) : t[i] = block'[i - 1]
  <2>1. ASSUME NEW i \in 1..(end + 1) PROVE t[i] = block'[i - 1]
    <3>1. CASE i = end + 1
      <4>1. i - 1 = end
        BY <1>2, <3>1
      <4>2. QED
        BY <1>1, <1>7, <3>1, <4>1
    <3>2. CASE i # end + 1
      <4>1. i \in 1..end /\ i - 1 \in 0..(end - 1)
        BY <1>2, <3>2
      <4>2. QED
        BY <1>1, <1>4, <1>7, <4>1
    <3>3. QED
      BY <3>1, <3>2
  <2>2. QED
    BY <2>1
<1>12. u = t
  <2>1. PICK b : b = block'
    OBVIOUS
  <2>2. QED
    BY <1>2, <1>7, <1>10, <1>11, <2>1, VectorSame
<1>13. QED
  BY <1>2, <1>3, <1>5, <1>9, <1>12 DEF After

LEMMA PopItems ==
    ASSUME VectorInv, VectorPopBack
    PROVE  VectorInv' /\ VectorElements' \in After(outcome', VectorElements)
<1>1. /\ block' = block /\ capacity' = capacity /\ outcome' = [op |-> "pop"]
      /\ end' = (IF end # 0 THEN end - 1 ELSE end) /\ end \in Nat /\ end' \in Nat
      /\ end' \in 0..capacity
  BY DEF VectorPopBack, VectorInv
<1>2. VectorInv'
  BY <1>1 DEF VectorInv
<1>3. PICK s : s = VectorElements
  OBVIOUS
<1>4. s \in Seq(VectorValue) /\ Len(s) = end /\ \A i \in 1..end : s[i] = block[i - 1]
  BY <1>3, VectorItems
<1>5. PICK t : t = SubSeq(s, 1, end - 1)
  OBVIOUS
<1>6. t \in Seq(VectorValue) /\ Len(t) = end' /\ \A i \in 1..end' : t[i] = s[i]
  <2>1. CASE end # 0
    <3>1. end - 1 \in 0..Len(s)
      BY <1>1, <1>4, <2>1
    <3>2. QED
      BY <1>1, <1>4, <1>5, <2>1, <3>1, EndsOf
  <2>2. CASE end = 0
    <3>1. t = << >>
      <4>1. \A i \in 1..(-1) : s[i] \in VectorValue
        OBVIOUS
      <4>2. t = SubSeq(s, 1, -1)
        BY <1>5, <2>2
      <4>3. t \in Seq(VectorValue) /\ Len(t) = 0
        BY <4>1, <4>2, SubSeqProperties
      <4>4. QED
        BY <4>3, EmptySeq
    <3>2. QED
      BY <1>1, <2>2, <3>1, EmptySeq
  <2>3. QED
    BY <2>1, <2>2
<1>8. (VectorInv => ItemsAre(VectorElements, block, end))'
  BY VectorNow, PTL
<1>9. PICK u : u = VectorElements'
  OBVIOUS
<1>12. u = t
  <2>0. PICK b : b = block'
    OBVIOUS
  <2>1. PICK n \in Nat : n = end'
    BY <1>1
  <2>2. n <= end
    BY <1>1, <2>1
  <2>3. ItemsAre(u, b, n)
    BY <1>2, <1>8, <1>9, <2>0, <2>1
  <2>4. \A i \in 1..n : t[i] = b[i - 1]
    BY <1>1, <1>4, <1>6, <2>0, <2>1, <2>2
  <2>5. QED
    BY <1>6, <2>1, <2>3, <2>4, VectorSame
<1>13. QED
  BY <1>1, <1>2, <1>3, <1>4, <1>5, <1>9, <1>12 DEF After

LEMMA InsertItems ==
    ASSUME VectorInv, NEW k \in Nat, NEW v \in Element, VectorInsert(k, v), end < capacity
    PROVE  VectorElements' \in After(outcome', VectorElements)
<1>1. /\ VectorInv' /\ k <= end /\ end' = end + 1 /\ end \in Nat
      /\ \A i \in 0..end :
            block'[i] = IF i < k THEN block[i] ELSE IF i = k THEN v ELSE block[i - 1]
  BY InsertStep DEF VectorInv
<1>2. outcome' = [op |-> "insert", at |-> k, value |-> v]
  BY DEF VectorInsert
<1>3. PICK s : s = VectorElements
  OBVIOUS
<1>4. s \in Seq(VectorValue) /\ Len(s) = end /\ \A i \in 1..end : s[i] = block[i - 1]
  BY <1>3, VectorItems
<1>5. PICK t : t = Inserted(s, k, v)
  OBVIOUS
<1>6. v \in VectorValue /\ k \in 0..Len(s) /\ s \in Seq(VectorValue)
  BY <1>1, <1>4 DEF VectorValue
<1>15. IsInserted(t, VectorValue, s, k, v)
  BY <1>5, <1>6, InsertedIs
<1>14. /\ t \in Seq(VectorValue) /\ Len(t) = Len(s) + 1
       /\ \A i \in 1..(Len(s) + 1) :
             t[i] = IF i <= k THEN s[i] ELSE IF i = k + 1 THEN v ELSE s[i - 1]
  BY <1>15 DEF IsInserted
<1>7. /\ t \in Seq(VectorValue) /\ Len(t) = end + 1
      /\ \A i \in 1..(end + 1) :
            t[i] = IF i <= k THEN s[i] ELSE IF i = k + 1 THEN v ELSE s[i - 1]
  BY <1>4, <1>14
<1>8. (VectorInv => ItemsAre(VectorElements, block, end))'
  BY VectorNow, PTL
<1>9. PICK u : u = VectorElements'
  OBVIOUS
<1>10. ItemsAre(u, block', end + 1)
  BY <1>1, <1>8, <1>9
<1>11. ASSUME NEW i \in 1..(end + 1) PROVE t[i] = block'[i - 1]
  <2>1. i - 1 \in 0..end
    BY <1>1
  <2>2. CASE i <= k
    BY SMTT(60), <1>1, <1>4, <1>7, <2>1, <2>2
  <2>3. CASE i = k + 1
    BY <1>1, <1>7, <2>1, <2>3
  <2>4. CASE i > k + 1
    <3>1. i - 1 \in 1..end /\ ~(i <= k) /\ i # k + 1 /\ ~(i - 1 < k) /\ i - 1 # k
      BY <1>1, <2>4
    <3>2. QED
      BY <1>1, <1>4, <1>7, <2>1, <3>1
  <2>5. QED
    BY <1>1, <2>2, <2>3, <2>4
<1>12. u = t
  <2>1. PICK b : b = block'
    OBVIOUS
  <2>2. QED
    BY <1>1, <1>7, <1>10, <1>11, <2>1, VectorSame
<1>13. QED
  BY <1>2, <1>3, <1>4, <1>5, <1>9, <1>12 DEF After, Inserted

(* An element more than there are is taken from a sequence as none.            *)
LEMMA AllOf ==
    ASSUME NEW S, NEW s \in Seq(S)
    PROVE  SubSeq(s, 1, Len(s)) \o SubSeq(s, Len(s) + 2, Len(s)) = s
<1>1. PICK n \in Nat : n = Len(s)
  BY LenProperties
<1>2. SubSeq(s, 1, n) = s
  <2>1. PICK t : t = SubSeq(s, 1, n)
    OBVIOUS
  <2>2. n \in 0..Len(s)
    BY <1>1
  <2>3. t \in Seq(S) /\ Len(t) = n /\ \A i \in 1..n : t[i] = s[i]
    BY <2>1, <2>2, EndsOf
  <2>4. QED
    BY <1>1, <2>1, <2>3, SeqEqual
<1>3. SubSeq(s, n + 2, n) = << >>
  <2>1. \A i \in (n + 2)..n : s[i] \in S
    OBVIOUS
  <2>2. n + 2 \in Int /\ n \in Int /\ ~(n + 2 <= n)
    OBVIOUS
  <2>3. SubSeq(s, n + 2, n) \in Seq(S) /\ Len(SubSeq(s, n + 2, n)) = 0
    BY <2>1, <2>2, SubSeqProperties
  <2>4. QED
    BY <2>3, EmptySeq
<1>4. s \o << >> = s
  BY ConcatEmptySeq
<1>5. QED
  BY <1>1, <1>2, <1>3, <1>4

LEMMA DeleteItems ==
    ASSUME VectorInv, NEW k \in Nat, VectorDelete(k)
    PROVE  VectorInv' /\ VectorElements' \in After(outcome', VectorElements)
<1>1. outcome' = [op |-> "delete", at |-> k] /\ end \in Nat /\ k <= end /\ capacity' = capacity
  BY DEF VectorDelete, VectorInv
<1>2. PICK s : s = VectorElements
  OBVIOUS
<1>3. s \in Seq(VectorValue) /\ Len(s) = end /\ \A i \in 1..end : s[i] = block[i - 1]
  BY <1>2, VectorItems
<1>4. (VectorInv => ItemsAre(VectorElements, block, end))'
  BY VectorNow, PTL
<1>5. PICK u : u = VectorElements'
  OBVIOUS
<1>6. CASE k = end \/ (k = 0 /\ end = 1)
  <2>1. block' = block /\ end' = end
    BY <1>6 DEF VectorDelete
  <2>2. VectorInv'
    BY <1>1, <2>1 DEF VectorInv
  <2>3. u = s
    BY <1>2, <1>5, <2>1 DEF VectorElements
  <2>4. CASE end = 1
    BY <1>1, <1>2, <1>3, <1>5, <2>2, <2>3, <2>4 DEF After
  <2>5. CASE end # 1
    <3>1. SubSeq(s, 1, k) \o SubSeq(s, k + 2, end) = s
      BY <1>3, <1>6, <2>5, AllOf
    <3>2. QED
      BY <1>1, <1>2, <1>3, <1>5, <2>2, <2>3, <2>5, <3>1 DEF After
  <2>6. QED
    BY <2>4, <2>5
<1>7. CASE ~(k = end \/ (k = 0 /\ end = 1))
  <2>1. /\ VectorInv' /\ k < end /\ end' = end - 1 /\ end - 1 \in Nat /\ end # 1
        /\ \A i \in 0..(end - 2) : block'[i] = IF i < k THEN block[i] ELSE block[i + 1]
    <3>1. /\ VectorInv' /\ k < end /\ end' = end - 1
          /\ \A i \in 0..(end - 2) : block'[i] = IF i < k THEN block[i] ELSE block[i + 1]
      BY <1>7, DeleteStep
    <3>2. end - 1 \in Nat /\ end # 1
      BY <1>1, <1>7, <3>1
    <3>3. QED
      BY <3>1, <3>2
  <2>2. PICK t : t = Removed(s, k + 1)
    OBVIOUS
  <2>3. k + 1 \in 1..Len(s)
    BY <1>1, <1>3, <2>1
  <2>4. /\ t \in Seq(VectorValue) /\ Len(t) = end - 1
        /\ \A i \in 1..(end - 1) : t[i] = IF i < k + 1 THEN s[i] ELSE s[i + 1]
    <3>1. s \in Seq(VectorValue)
      BY <1>3
    <3>2. IsRemoved(t, VectorValue, s, k + 1)
      BY <2>2, <2>3, <3>1, RemovedIs
    <3>3. QED
      BY <1>3, <3>2 DEF IsRemoved
  <2>5. ItemsAre(u, block', end - 1)
    BY <1>4, <1>5, <2>1
  <2>6. ASSUME NEW i \in 1..(end - 1) PROVE t[i] = block'[i - 1]
    <3>1. i - 1 \in 0..(end - 2) /\ i \in 1..end /\ i + 1 \in 1..end /\ (i - 1) + 1 = i
          /\ (i + 1) - 1 = i
      BY <1>1
    <3>2. CASE i < k + 1
      <4>1. i - 1 < k
        BY <1>1, <3>2
      <4>2. QED
        BY <1>3, <2>1, <2>4, <3>1, <3>2, <4>1
    <3>3. CASE ~(i < k + 1)
      <4>1. ~(i - 1 < k)
        BY <1>1, <3>3
      <4>2. block'[i - 1] = block[i]
        BY <2>1, <3>1, <4>1
      <4>3. s[i + 1] = block[i]
        BY <1>3, <3>1
      <4>4. QED
        BY <2>4, <3>3, <4>2, <4>3
    <3>4. QED
      BY <3>2, <3>3
  <2>7. u = t
    <3>1. PICK b : b = block'
      OBVIOUS
    <3>2. QED
      BY <2>1, <2>4, <2>5, <2>6, <3>1, VectorSame
  <2>8. t = SubSeq(s, 1, k) \o SubSeq(s, k + 2, end)
    <3>1. (k + 1) - 1 = k /\ (k + 1) + 1 = k + 2
      OBVIOUS
    <3>2. QED
      BY <1>3, <2>2, <3>1 DEF Removed
  <2>9. QED
    BY <1>1, <1>2, <1>3, <1>5, <2>1, <2>7, <2>8 DEF After
<1>8. QED
  BY <1>6, <1>7

LEMMA SetItems ==
    ASSUME VectorInv, NEW k \in Nat, NEW v \in Element, VectorSet(k, v), k < capacity
    PROVE  VectorElements' \in After(outcome', VectorElements)
<1>1. /\ VectorInv' /\ end' = (IF k > end THEN k ELSE end) /\ end \in Nat
      /\ block' = [block EXCEPT ![k] = v] /\ k \in 0..(capacity - 1)
      /\ capacity \in Nat /\ block \in [0..(capacity - 1) -> VectorValue] /\ end <= capacity
  BY SetStep DEF VectorInv
<1>2. outcome' = [op |-> "set", at |-> k, value |-> v]
  BY DEF VectorSet
<1>3. PICK s : s = VectorElements
  OBVIOUS
<1>4. s \in Seq(VectorValue) /\ Len(s) = end /\ \A i \in 1..end : s[i] = block[i - 1]
  BY <1>3, VectorItems
<1>5. (VectorInv => ItemsAre(VectorElements, block, end))'
  BY VectorNow, PTL
<1>6. PICK u : u = VectorElements'
  OBVIOUS
<1>7. PICK b : b = block'
  OBVIOUS
<1>8. v \in VectorValue
  BY DEF VectorValue
<1>9. CASE k < end
  <2>1. PICK t : t = [s EXCEPT ![k + 1] = v]
    OBVIOUS
  <2>2. k + 1 \in 1..end
    BY <1>1, <1>9
  <2>3. s \in [1..end -> VectorValue]
    BY <1>4, LenProperties
  <2>4. t \in [1..end -> VectorValue] /\ \A i \in 1..end : t[i] = IF i = k + 1 THEN v ELSE s[i]
    BY <1>8, <2>1, <2>2, <2>3
  <2>5. t \in Seq(VectorValue) /\ Len(t) = end
    BY <1>1, <2>4, FunctionIsSeq
  <2>6. ASSUME NEW i \in 1..end PROVE t[i] = b[i - 1]
    <3>1. i - 1 \in 0..(capacity - 1) /\ (i = k + 1 <=> i - 1 = k)
      BY <1>1
    <3>2. QED
      BY <1>1, <1>4, <1>7, <2>4, <3>1
  <2>7. ItemsAre(u, b, end)
    BY <1>1, <1>5, <1>6, <1>7, <1>9
  <2>8. u = t
    BY <1>1, <2>5, <2>6, <2>7, VectorSame
  <2>9. QED
    BY <1>2, <1>3, <1>4, <1>6, <1>9, <2>1, <2>8 DEF After
<1>10. CASE ~(k < end)
  <2>1. end' = k /\ k - end \in Nat
    BY <1>1, <1>10
  <2>2. PICK m : m = [i \in 1..(k - end) |-> block[end + i - 1]]
    OBVIOUS
  <2>3. m \in [1..(k - end) -> VectorValue] /\ \A i \in 1..(k - end) : m[i] = block[end + i - 1]
    <3>1. \A i \in 1..(k - end) : end + i - 1 \in 0..(capacity - 1)
      BY <1>1
    <3>2. QED
      BY <1>1, <2>2, <3>1
  <2>4. m \in Seq(VectorValue) /\ Len(m) = k - end
    BY <2>1, <2>3, FunctionIsSeq
  <2>5. PICK t : t = s \o m
    OBVIOUS
  <2>6. /\ t \in Seq(VectorValue) /\ Len(t) = k
        /\ \A i \in 1..k : t[i] = IF i <= end THEN s[i] ELSE m[i - end]
    <3>1. end + (k - end) = k
      BY <1>1
    <3>2. s \in Seq(VectorValue) /\ m \in Seq(VectorValue)
      BY <1>4, <2>4
    <3>3. /\ t \in Seq(VectorValue) /\ Len(t) = Len(s) + Len(m)
          /\ \A i \in 1..(Len(s) + Len(m)) :
                t[i] = IF i <= Len(s) THEN s[i] ELSE m[i - Len(s)]
      BY <2>5, <3>2, ConcatProperties
    <3>4. QED
      BY <1>4, <2>4, <3>1, <3>3
  <2>7. ASSUME NEW i \in 1..k PROVE t[i] = b[i - 1]
    <3>1. i - 1 \in 0..(capacity - 1) /\ i - 1 # k
      BY <1>1
    <3>2. b[i - 1] = block[i - 1]
      BY <1>1, <1>7, <3>1
    <3>3. CASE i <= end
      BY <1>4, <2>6, <3>2, <3>3
    <3>4. CASE ~(i <= end)
      <4>1. i - end \in 1..(k - end) /\ end + (i - end) - 1 = i - 1
        BY <1>1, <3>4
      <4>2. m[i - end] = block[i - 1]
        BY <2>3, <4>1
      <4>3. QED
        BY <2>6, <3>2, <3>4, <4>2
    <3>5. QED
      BY <3>3, <3>4
  <2>8. ItemsAre(u, b, k)
    BY <1>1, <1>5, <1>6, <1>7, <2>1
  <2>9. u = t
    BY <2>6, <2>7, <2>8, VectorSame
  <2>10. t \in {s \o more : more \in [1..(k - end) -> Element \cup {Garbage}]}
    BY <2>3, <2>5 DEF VectorValue
  <2>11. QED
    BY <1>2, <1>3, <1>4, <1>6, <1>10, <2>9, <2>10 DEF After
<1>11. QED
  BY <1>9, <1>10

(* What one step may do, and that the block stays in order.                   *)
VectorStep ==
    /\ ~overrun' => VectorElements' \in After(outcome', VectorElements)
    /\ overrun' => outcome'.op \in {"insert", "set"} /\ outcome'.at <= capacity
                     /\ (end = capacity \/ outcome'.at = capacity)

(* Every operation keeps the invariant and is a step of the sequence.       *)
LEMMA VectorNextCorrect ==
    ASSUME VectorInv, VectorNext
    PROVE  VectorInv' /\ VectorStep
<1>1. capacity \in Nat /\ end \in Nat /\ end <= capacity
  BY DEF VectorInv
<1>2. CASE \E v \in Element : VectorPushBack(v)
  BY <1>2, PushStep, PushItems DEF VectorStep, VectorPushBack
<1>3. CASE VectorPopBack
  BY <1>3, PopItems DEF VectorStep, VectorPopBack
<1>4. CASE \E k \in 0..MaxCapacity : VectorDelete(k)
  <2>1. PICK k \in Nat : VectorDelete(k)
    BY <1>4, VectorAssumption DEF VectorAssumption
  <2>2. ~overrun'
    BY <2>1 DEF VectorDelete
  <2>3. QED
    BY <2>1, <2>2, DeleteItems DEF VectorStep
<1>5. CASE \E k \in 0..MaxCapacity, v \in Element : VectorInsert(k, v)
  <2>1. PICK k \in Nat, v \in Element : VectorInsert(k, v)
    BY <1>5, VectorAssumption DEF VectorAssumption
  <2>2. CASE end < capacity
    <3>1. ~overrun'
      BY <1>1, <2>1, <2>2 DEF VectorInsert
    <3>2. QED
      BY <2>1, <2>2, <3>1, InsertStep, InsertItems DEF VectorStep
  <2>3. CASE ~(end < capacity)
    <3>1. /\ overrun' /\ block' = block /\ end' = end /\ capacity' = capacity
          /\ outcome' = [op |-> "insert", at |-> k, value |-> v] /\ k <= end
      BY <1>1, <2>1, <2>3 DEF VectorInsert
    <3>2. VectorInv'
      BY <3>1 DEF VectorInv
    <3>3. end = capacity /\ k <= capacity
      BY <1>1, <2>3, <3>1
    <3>4. QED
      BY <3>1, <3>2, <3>3 DEF VectorStep
  <2>4. QED
    BY <2>2, <2>3
<1>6. CASE \E k \in 0..MaxCapacity, v \in Element : VectorSet(k, v)
  <2>1. PICK k \in Nat, v \in Element : VectorSet(k, v)
    BY <1>6, VectorAssumption DEF VectorAssumption
  <2>2. CASE k < capacity
    <3>1. ~overrun'
      BY <1>1, <2>1, <2>2 DEF VectorSet
    <3>2. QED
      BY <2>1, <2>2, <3>1, SetStep, SetItems DEF VectorStep
  <2>3. CASE ~(k < capacity)
    <3>1. /\ overrun' /\ block' = block /\ end' = end /\ capacity' = capacity
          /\ outcome' = [op |-> "set", at |-> k, value |-> v] /\ k = capacity
      BY <1>1, <2>1, <2>3 DEF VectorSet
    <3>2. VectorInv'
      BY <3>1 DEF VectorInv
    <3>3. QED
      BY <1>1, <3>1, <3>2 DEF VectorStep
  <2>4. QED
    BY <2>2, <2>3
<1>7. QED
  BY <1>2, <1>3, <1>4, <1>5, <1>6 DEF VectorNext

(* Whatever the elements and the capacities, the vector is a sequence under    *)
(* every history of its operations (vector_push_back, vector_pop_back,         *)
(* vector_insert, vector_delete and vector_set of vector.c).                  *)
THEOREM VectorCorrect == VectorSpec => VectorIsSequence
<1>1. VectorInit => VectorInv
  BY VectorInitInv
<1>2. VectorInv /\ [VectorNext]_vectorVars => VectorInv'
  <2>1. VectorInv /\ UNCHANGED vectorVars => VectorInv'
    BY DEF VectorInv, vectorVars
  <2>2. QED
    BY <2>1, VectorNextCorrect
<1>3. VectorInv /\ [VectorNext]_vectorVars => [VectorStep]_vectorVars
  BY VectorNextCorrect
<1>4. QED
  BY <1>1, <1>2, <1>3, PTL DEF VectorSpec, VectorIsSequence, VectorStep

-----------------------------------------------------------------------------
(* What the proofs use of the assumptions on the constants of the ring      *)
(* buffer: a byte that was never written is not one of a message.           *)
LEMMA RingBounds ==
    /\ BufferLen \in Nat \ {0} /\ HeadLen \in Nat \ {0}
    /\ \A m \in Message : LenOf[m] \in Nat /\ LenOf[m] >= HeadLen /\ LenOf[m] > 0
    /\ \A m \in Message, i \in Nat : Nothing # [of |-> m, place |-> i]
<1>1. \A m \in Message : LenOf[m] \in Nat /\ LenOf[m] >= HeadLen
  BY RingAssumption DEF RingAssumption
<1>2. HeadLen \in Nat \ {0}
  BY RingAssumption DEF RingAssumption
<1>3. \A m \in Message : LenOf[m] > 0
  BY <1>1, <1>2
<1>4. \A m \in Message, i \in Nat : Nothing # [of |-> m, place |-> i]
  BY RingAssumption DEF RingAssumption
<1>5. QED
  BY <1>1, <1>2, <1>3, <1>4, RingAssumption DEF RingAssumption

(* The remainder of what is less than twice the modulus.                      *)
LEMMA SmallRemainder ==
    ASSUME NEW a \in Nat, NEW n \in Nat, n > 0, a < 2 * n
    PROVE  a % n = IF a < n THEN a ELSE a - n
  OBVIOUS

(* Where an index is that was advanced, and a byte after it.                   *)
LEMMA AdvancedTwice ==
    ASSUME NEW r \in 0..BufferLen, NEW u \in Nat, NEW l \in Nat, u + l <= BufferLen
    PROVE  /\ Advanced(r, u) \in 0..BufferLen
           /\ Advanced(Advanced(r, u), l) = Advanced(r, u + l)
  BY RingBounds DEF Advanced

LEMMA ByteAfter ==
    ASSUME NEW r \in 0..BufferLen, NEW u \in Nat, NEW i \in Nat, u + i < BufferLen
    PROVE  /\ ByteAt(Advanced(r, u), i) = ByteAt(r, u + i)
           /\ ByteAt(r, u + i) \in 0..(BufferLen - 1)
  BY RingBounds DEF Advanced, ByteAt

(* Bytes at different distances from the read index lie at different        *)
(* places.                                                                  *)
LEMMA BytesDiffer ==
    ASSUME NEW r \in 0..BufferLen, NEW d \in 0..(BufferLen - 1), NEW e \in 0..(BufferLen - 1),
           ByteAt(r, d) = ByteAt(r, e)
    PROVE  d = e
  BY RingBounds DEF ByteAt

-----------------------------------------------------------------------------
(* Where each message of the queue begins, counted from the read index.       *)
Offsets(f, q) ==
    /\ f \in [0..Len(q) -> Nat] /\ f[0] = 0
    /\ \A k \in 1..Len(q) : f[k] = f[k - 1] + LenOf[q[k]]
    /\ \A j, k \in 0..Len(q) : j <= k => f[j] <= f[k]

LEMMA NoOffsets == Offsets([k \in 0..0 |-> 0], << >>)
<1> PICK f : f = [k \in 0..0 |-> 0]
  OBVIOUS
<1>1. f \in [0..0 -> Nat] /\ f[0] = 0 /\ Len(<< >>) = 0 /\ 0..0 = {0} /\ 1..0 = {}
  OBVIOUS
<1>2. Offsets(f, << >>)
  BY <1>1 DEF Offsets
<1>3. QED
  BY <1>2

(* A message that is written begins where the last one ends.                *)
LEMMA OffsetsAppend ==
    ASSUME NEW q \in Seq(Message), NEW m \in Message, NEW f, Offsets(f, q)
    PROVE  \E g : /\ Offsets(g, Append(q, m))
                  /\ g[Len(q) + 1] = f[Len(q)] + LenOf[m]
                  /\ \A k \in 0..Len(q) : g[k] = f[k]
<1>1. PICK n \in Nat : n = Len(q) /\ DOMAIN q = 1..n
  BY LenProperties
<1>2. PICK p : p = Append(q, m)
  OBVIOUS
<1>3. /\ p \in Seq(Message) /\ Len(p) = n + 1 /\ p[n + 1] = m
      /\ \A i \in 1..n : p[i] = q[i]
  BY <1>1, <1>2, AppendProperties
<1>4. PICK l \in Nat : l = LenOf[m]
  BY RingBounds
<1>5. /\ f \in [0..n -> Nat] /\ f[0] = 0 /\ f[n] \in Nat /\ n \in 0..n
      /\ \A k \in 1..n : f[k] = f[k - 1] + LenOf[q[k]]
      /\ \A j, k \in 0..n : j <= k => f[j] <= f[k]
  BY <1>1 DEF Offsets
<1>6. PICK g : g = [k \in 0..(n + 1) |-> IF k = n + 1 THEN f[n] + l ELSE f[k]]
  OBVIOUS
<1>7. /\ g[n + 1] = f[n] + l /\ \A k \in 0..n : g[k] = f[k] /\ k \in 0..(n + 1)
  <2>1. n + 1 \in 0..(n + 1) /\ \A k \in 0..n : k # n + 1 /\ k \in 0..(n + 1)
    OBVIOUS
  <2>2. QED
    BY <1>6, <2>1
<1>8. \A k \in 0..(n + 1) : k \in 0..n \/ k = n + 1
  OBVIOUS
<1>9. g \in [0..(n + 1) -> Nat] /\ g[0] = 0
  <2>1. \A k \in 0..(n + 1) : (IF k = n + 1 THEN f[n] + l ELSE f[k]) \in Nat
    BY <1>5, <1>8
  <2>2. 0 \in 0..n
    OBVIOUS
  <2>3. QED
    BY <1>5, <1>6, <1>7, <2>1, <2>2
<1>10. ASSUME NEW k \in 1..(n + 1) PROVE g[k] = g[k - 1] + LenOf[p[k]]
  <2>1. CASE k = n + 1
    <3>1. k - 1 = n
      BY <2>1
    <3>2. QED
      BY <1>3, <1>4, <1>5, <1>7, <2>1, <3>1
  <2>2. CASE k # n + 1
    <3>1. k \in 1..n /\ k \in 0..n /\ k - 1 \in 0..n
      BY <2>2
    <3>2. QED
      BY <1>3, <1>5, <1>7, <3>1
  <2>3. QED
    BY <2>1, <2>2
<1>11. ASSUME NEW j \in 0..(n + 1), NEW k \in 0..(n + 1), j <= k PROVE g[j] <= g[k]
  <2>1. CASE k = n + 1 /\ j = n + 1
    BY <1>5, <1>7, <2>1
  <2>2. CASE k = n + 1 /\ j \in 0..n
    <3>1. f[j] <= f[n] /\ f[j] \in Nat
      BY <1>5, <2>2
    <3>2. QED
      BY <1>5, <1>7, <2>2, <3>1
  <2>3. CASE k \in 0..n
    <3>1. j \in 0..n
      BY <1>11, <2>3
    <3>2. QED
      BY <1>5, <1>7, <1>11, <2>3, <3>1
  <2>4. QED
    BY <1>8, <2>1, <2>2, <2>3
<1>12. Offsets(g, p)
  BY <1>3, <1>9, <1>10, <1>11 DEF Offsets
<1>13. QED
  BY <1>1, <1>2, <1>4, <1>7, <1>12

(* With the first message read, the others begin nearer to the read index.  *)
LEMMA OffsetsTail ==
    ASSUME NEW q \in Seq(Message), q # << >>, NEW f, Offsets(f, q)
    PROVE  \E g : /\ Offsets(g, Tail(q))
                  /\ \A k \in 0..(Len(q) - 1) : g[k] = f[k + 1] - f[1]
                  /\ g[Len(q) - 1] = f[Len(q)] - f[1] /\ f[1] = LenOf[Head(q)]
<1>1. PICK n \in Nat : n = Len(q) - 1 /\ Len(q) = n + 1
  <2>1. Len(q) \in Nat /\ Len(q) # 0
    BY LenProperties, EmptySeq
  <2>2. Len(q) - 1 \in Nat /\ Len(q) = (Len(q) - 1) + 1
    BY <2>1
  <2>3. QED
    BY ZenonT(60), <2>2
<1>2. PICK p : p = Tail(q)
  OBVIOUS
<1>3. /\ p \in Seq(Message) /\ Len(p) = n /\ Head(q) = q[1]
      /\ \A i \in 1..n : p[i] = q[i + 1]
  BY <1>1, <1>2, HeadTailProperties
<1>4. /\ f \in [0..(n + 1) -> Nat] /\ f[0] = 0
      /\ \A k \in 1..(n + 1) : f[k] = f[k - 1] + LenOf[q[k]]
      /\ \A j, k \in 0..(n + 1) : j <= k => f[j] <= f[k]
  BY <1>1 DEF Offsets
<1>5. PICK l \in Nat : l = f[1]
  BY <1>4
<1>6. l = LenOf[q[1]]
  <2>1. 1 \in 1..(n + 1) /\ 1 - 1 = 0
    OBVIOUS
  <2>2. f[1] = f[0] + LenOf[q[1]]
    BY <1>4, <2>1
  <2>3. q[1] \in Message
    BY <1>1, <2>1, ElementOfSeq
  <2>4. QED
    BY <1>4, <1>5, <2>2, <2>3, RingBounds
<1>7. PICK g : g = [k \in 0..n |-> f[k + 1] - l]
  OBVIOUS
<1>8. ASSUME NEW k \in 0..n PROVE f[k + 1] \in Nat /\ l <= f[k + 1] /\ g[k] = f[k + 1] - l
  <2>1. k + 1 \in 0..(n + 1) /\ 1 \in 0..(n + 1) /\ 1 <= k + 1
    OBVIOUS
  <2>2. QED
    BY <1>4, <1>5, <1>7, <2>1
<1>9. g \in [0..n -> Nat] /\ g[0] = 0
  <2>1. ASSUME NEW k \in 0..n PROVE f[k + 1] - l \in Nat
    <3>1. f[k + 1] \in Nat /\ l <= f[k + 1]
      BY <1>8
    <3>2. QED
      BY <3>1
  <2>2. 0 \in 0..n /\ 0 + 1 = 1
    OBVIOUS
  <2>3. g[0] = f[1] - l
    BY <1>8, <2>2
  <2>4. QED
    BY <1>5, <1>7, <2>1, <2>3
<1>10. ASSUME NEW k \in 1..n PROVE g[k] = g[k - 1] + LenOf[p[k]]
  <2>1. k \in 0..n /\ k - 1 \in 0..n /\ k + 1 \in 1..(n + 1) /\ (k - 1) + 1 = k /\ (k + 1) - 1 = k
    OBVIOUS
  <2>2. f[k + 1] = f[k] + LenOf[q[k + 1]]
    BY <1>4, <2>1
  <2>3. g[k] = f[k + 1] - l /\ g[k - 1] = f[k] - l /\ f[k] \in Nat
    BY <1>8, <2>1
  <2>4. p[k] = q[k + 1] /\ LenOf[q[k + 1]] \in Nat
    <3>1. q[k + 1] \in Message
      BY <1>1, <2>1, ElementOfSeq
    <3>2. QED
      BY <1>3, <3>1, RingBounds
  <2>5. QED
    BY <2>2, <2>3, <2>4
<1>11. ASSUME NEW j \in 0..n, NEW k \in 0..n, j <= k PROVE g[j] <= g[k]
  <2>1. j + 1 \in 0..(n + 1) /\ k + 1 \in 0..(n + 1) /\ j + 1 <= k + 1
    BY <1>11
  <2>2. f[j + 1] <= f[k + 1]
    BY <1>4, <2>1
  <2>3. QED
    BY SMTT(60), <1>8, <2>2
<1>12. Offsets(g, p)
  BY <1>3, <1>9, <1>10, <1>11 DEF Offsets
<1>13. n \in 0..n
  OBVIOUS
<1>14. g[n] = f[n + 1] - l
  BY <1>8, <1>13
<1>15. QED
  BY SMTT(60), <1>1, <1>2, <1>3, <1>5, <1>6, <1>8, <1>12, <1>14

(* The room that the queue takes is where it ends.                             *)
SumFrom(s) ==
    s = [k \in 0..Len(queued) |-> IF k = 0 THEN 0 ELSE s[k - 1] + LenOf[queued[k]]]

LEMMA UsedIs ==
    ASSUME queued \in Seq(Message), NEW f, Offsets(f, queued)
    PROVE  Promise!Used = f[Len(queued)]
<1>1. PICK n \in Nat : n = Len(queued)
  BY LenProperties
<1>2. /\ f \in [0..n -> Nat] /\ f[0] = 0
      /\ \A k \in 1..n : f[k] = f[k - 1] + LenOf[queued[k]]
  BY <1>1 DEF Offsets
<1>3. SumFrom(f)
  <2>1. ASSUME NEW k \in 0..n
        PROVE  f[k] = IF k = 0 THEN 0 ELSE f[k - 1] + LenOf[queued[k]]
    <3>1. k # 0 => k \in 1..n
      OBVIOUS
    <3>2. QED
      BY <1>2, <3>1
  <2>2. f = [k \in 0..n |-> f[k]]
    BY <1>2
  <2>3. QED
    BY <1>1, <2>1, <2>2 DEF SumFrom
<1>4. ASSUME NEW s, SumFrom(s) PROVE s = f
  <2>1. /\ s = [k \in 0..n |-> s[k]] /\ s[0] = 0
        /\ \A k \in 1..n : s[k] = s[k - 1] + LenOf[queued[k]]
    <3> DEFINE h(k) == IF k = 0 THEN 0 ELSE s[k - 1] + LenOf[queued[k]]
    <3>1. s = [k \in 0..n |-> h(k)]
      BY <1>1, <1>4 DEF SumFrom
    <3>2. \A k \in 0..n : s[k] = h(k)
      <4> HIDE DEF h
      <4>1. QED
        BY <3>1
    <3>3. s = [k \in 0..n |-> s[k]]
      <4> HIDE DEF h
      <4>1. QED
        BY <3>1
    <3>4. 0 \in 0..n /\ \A k \in 1..n : k \in 0..n /\ k # 0
      OBVIOUS
    <3>5. QED
      BY <3>2, <3>3, <3>4
  <2>2. PICK D : D = {k \in 0..n : s[k] # f[k]}
    OBVIOUS
  <2>3. CASE D = {}
    <3>1. \A k \in 0..n : s[k] = f[k]
      BY <2>2, <2>3
    <3>2. QED
      BY <1>2, <2>1, <3>1
  <2>4. CASE D # {}
    <3>1. D \in SUBSET Nat
      BY <2>2
    <3>2. PICK k \in D : \A j \in D : k <= j
      BY <2>4, <3>1, LeastNatural
    <3>3. k \in 0..n /\ s[k] # f[k]
      BY <2>2, <3>2
    <3>4. k # 0
      BY <1>2, <2>1, <3>3
    <3>5. k \in 1..n /\ k - 1 \in 0..n /\ ~(k <= k - 1)
      BY <3>3, <3>4
    <3>6. s[k - 1] = f[k - 1]
      BY <2>2, <3>2, <3>5
    <3>7. s[k] = f[k]
      BY <1>2, <2>1, <3>5, <3>6
    <3>8. QED
      BY <3>3, <3>7
  <2>5. QED
    BY <2>3, <2>4
<1>5. (CHOOSE s : SumFrom(s)) = f
  BY <1>3, <1>4
<1>6. Promise!Used = (CHOOSE s : SumFrom(s))[Len(queued)]
  BY Zenon DEF Promise!Used, SumFrom
<1>7. QED
  BY <1>5, <1>6


-----------------------------------------------------------------------------
(* Each byte of each message that is queued is where it was written; the       *)
(* write index is where the last of them ends; and the operation that was last *)
(* tells a full buffer from an empty one.                                     *)
Stored(f) ==
    \A k \in 1..Len(queued) : \A i \in 0..(LenOf[queued[k]] - 1) :
        buffer[ByteAt(read_index, f[k - 1] + i)] = [of |-> queued[k], place |-> i]

RingInvOf(f) ==
    /\ queued \in Seq(Message)
    /\ Offsets(f, queued)
    /\ f[Len(queued)] <= BufferLen
    /\ read_index \in 0..BufferLen
    /\ write_index = Advanced(read_index, f[Len(queued)])
    /\ DOMAIN buffer = 0..(BufferLen - 1)
    /\ Stored(f)
    /\ wild \in BOOLEAN
    /\ rw_flag \in {"INIT", "READ", "WRITE"}
    /\ rw_flag = "WRITE" => queued # << >>
    /\ f[Len(queued)] = BufferLen => rw_flag = "WRITE"
    /\ rw_flag = "INIT" => queued = << >> /\ \A j \in DOMAIN buffer : buffer[j] = Nothing

RingInv == \E f : RingInvOf(f)

FifoStep == [Promise!Next]_(Promise!vars)

(* What the queue and the indices say of each other.                          *)
LEMMA RingFacts ==
    ASSUME NEW f, RingInvOf(f)
    PROVE  \E u \in Nat :
              /\ u = f[Len(queued)] /\ u <= BufferLen /\ Promise!Used = u
              /\ (u = 0 <=> queued = << >>)
              /\ write_index = Advanced(read_index, u) /\ write_index \in 0..BufferLen
              /\ (read_index = write_index <=> u = 0 \/ (u = BufferLen /\ read_index # 0))
              /\ BytesFree = (IF read_index + u <= BufferLen THEN BufferLen - u
                             ELSE IF u = BufferLen THEN BufferLen ELSE BufferLen - 1 - u)
<1>1. PICK n \in Nat : n = Len(queued) /\ (n = 0 <=> queued = << >>)
  BY LenProperties, EmptySeq DEF RingInvOf
<1>2. PICK u \in Nat : u = f[n]
  BY <1>1 DEF RingInvOf, Offsets
<1>3. u <= BufferLen /\ write_index = Advanced(read_index, u) /\ read_index \in 0..BufferLen
  BY <1>1, <1>2 DEF RingInvOf
<1>4. Promise!Used = u
  BY <1>1, <1>2, UsedIs DEF RingInvOf
<1>5. u = 0 <=> n = 0
  <2>1. n = 0 => u = 0
    BY <1>1, <1>2 DEF RingInvOf, Offsets
  <2>2. ASSUME n # 0 PROVE u # 0
    <3>1. 1 \in 1..n /\ 1 \in 0..n /\ 1 <= n /\ 1 - 1 = 0 /\ n \in 0..n
      BY <2>2
    <3>2. queued[1] \in Message
      BY <1>1, <3>1, ElementOfSeq DEF RingInvOf
    <3>3. f[1] = f[0] + LenOf[queued[1]] /\ f[0] = 0 /\ f[1] <= f[n]
      BY <1>1, <3>1 DEF RingInvOf, Offsets
    <3>4. QED
      BY <1>2, <3>2, <3>3, RingBounds
  <2>3. QED
    BY <2>1, <2>2
<1>6. BufferLen \in Nat \ {0}
  BY RingBounds
<1>7. write_index = (IF read_index + u > BufferLen THEN read_index + u - BufferLen
                     ELSE read_index + u)
  BY <1>3 DEF Advanced
<1>8. write_index \in 0..BufferLen
  BY <1>3, <1>6, <1>7
<1>9. read_index = write_index <=> u = 0 \/ (u = BufferLen /\ read_index # 0)
  BY <1>3, <1>6, <1>7
<1>10. BytesFree = (IF read_index + u <= BufferLen THEN BufferLen - u
                    ELSE IF u = BufferLen THEN BufferLen ELSE BufferLen - 1 - u)
  <2>1. PICK a \in Nat : a = read_index - write_index + BufferLen
    BY <1>3, <1>6, <1>8
  <2>2. PICK b \in Nat : b = BufferLen + 1
    BY <1>6
  <2>3. b > 0 /\ a < 2 * b
    BY <1>3, <1>6, <1>8, <2>1, <2>2
  <2>4. a % b = IF a < b THEN a ELSE a - b
    BY <2>3, SmallRemainder
  <2>5. a = IF read_index + u <= BufferLen THEN BufferLen - u ELSE 2 * BufferLen - u
    BY <1>3, <1>6, <1>7, <2>1
  <2>6. BytesFree = a % b
    BY <2>1, <2>2 DEF BytesFree
  <2>7. QED
    BY <1>3, <1>6, <2>2, <2>4, <2>5, <2>6
<1>11. QED
  BY <1>1, <1>2, <1>3, <1>4, <1>5, <1>8, <1>9, <1>10

(* A message that is written overwrites no byte of one that is queued.      *)
LEMMA WriteStep ==
    ASSUME NEW f, RingInvOf(f), NEW m \in Message, WriteMessage(m)
    PROVE  RingInv' /\ FifoStep
<1>1. PICK n \in Nat : n = Len(queued)
  BY LenProperties DEF RingInvOf
<1>2. PICK u \in Nat :
              /\ u = f[n] /\ u <= BufferLen /\ Promise!Used = u
              /\ (u = 0 <=> queued = << >>)
              /\ write_index = Advanced(read_index, u) /\ write_index \in 0..BufferLen
              /\ (read_index = write_index <=> u = 0 \/ (u = BufferLen /\ read_index # 0))
              /\ BytesFree = (IF read_index + u <= BufferLen THEN BufferLen - u
                             ELSE IF u = BufferLen THEN BufferLen ELSE BufferLen - 1 - u)
  BY <1>1, RingFacts
<1>3. PICK l \in Nat : l = LenOf[m] /\ l > 0
  BY RingBounds
<1>4. /\ ~wild /\ ~IsFull(l) /\ write_index' = Advanced(write_index, l) /\ rw_flag' = "WRITE"
      /\ queued' = Append(queued, m) /\ result' = [op |-> "write", message |-> m]
      /\ read_index' = read_index /\ wild' = wild
  BY <1>3 DEF WriteMessage
<1>5. BufferLen \in Nat \ {0} /\ read_index \in 0..BufferLen
  BY RingBounds DEF RingInvOf
<1>6. u + l <= BufferLen
  <2>1. ~(BytesFree < l) /\ ~(read_index = write_index /\ rw_flag = "WRITE")
    BY <1>4 DEF IsFull
  <2>2. u = BufferLen => rw_flag = "WRITE"
    BY <1>1, <1>2 DEF RingInvOf
  <2>3. CASE read_index + u <= BufferLen
    BY SMTT(60), <1>2, <1>3, <1>5, <2>1, <2>3
  <2>4. CASE read_index + u > BufferLen
    <3>1. u # BufferLen
      BY <1>2, <1>5, <2>1, <2>2, <2>4
    <3>2. QED
      BY SMTT(60), <1>2, <1>3, <1>5, <2>1, <2>4, <3>1
  <2>5. QED
    BY SMTT(60), <1>2, <1>5, <2>3, <2>4
<1>7. PICK q : q = Append(queued, m)
  OBVIOUS
<1>8. PICK g : /\ Offsets(g, q) /\ g[n + 1] = u + l /\ \A k \in 0..n : g[k] = f[k]
  BY <1>1, <1>2, <1>3, <1>7, OffsetsAppend DEF RingInvOf
<1>9. /\ q \in Seq(Message) /\ Len(q) = n + 1 /\ q[n + 1] = m /\ q # << >>
      /\ \A k \in 1..n : q[k] = queued[k] /\ queued[k] \in Message
  <2>1. /\ q \in Seq(Message) /\ Len(q) = n + 1 /\ q[n + 1] = m
        /\ \A k \in 1..n : q[k] = queued[k]
    BY <1>1, <1>7, AppendProperties DEF RingInvOf
  <2>2. \A k \in 1..n : queued[k] \in Message
    BY <1>1, ElementOfSeq DEF RingInvOf
  <2>3. q # << >>
    BY <2>1, EmptySeq
  <2>4. QED
    BY <2>1, <2>2, <2>3
(* Where the bytes are: those of m after those that were there.               *)
<1>10. \A i \in 0..(l - 1) : /\ ByteAt(write_index, i) = ByteAt(read_index, u + i)
                             /\ ByteAt(read_index, u + i) \in 0..(BufferLen - 1)
                             /\ u + i \in 0..(BufferLen - 1)
  <2>1. ASSUME NEW i \in 0..(l - 1)
        PROVE  /\ ByteAt(write_index, i) = ByteAt(read_index, u + i)
               /\ ByteAt(read_index, u + i) \in 0..(BufferLen - 1)
               /\ u + i \in 0..(BufferLen - 1)
    <3>1. i \in Nat /\ u + i < BufferLen /\ u + i \in 0..(BufferLen - 1)
      BY <1>3, <1>5, <1>6
    <3>2. QED
      BY ZenonT(60), <1>2, <1>5, <3>1, ByteAfter
  <2>2. QED
    BY <2>1
<1>11. PICK w : w = [i \in 0..(l - 1) |-> ByteAt(write_index, i)]
  OBVIOUS
<1>12. DOMAIN w = 0..(l - 1) /\ \A i \in 0..(l - 1) : w[i] = ByteAt(read_index, u + i)
  BY <1>10, <1>11
<1>13. \A i, j \in 0..(l - 1) : w[i] = w[j] => i = j
  <2>1. ASSUME NEW i \in 0..(l - 1), NEW j \in 0..(l - 1), w[i] = w[j] PROVE i = j
    <3>1. u + i = u + j
      BY <1>5, <1>10, <1>12, <2>1, BytesDiffer
    <3>2. QED
      BY <3>1
  <2>2. QED
    BY <2>1
<1>14. buffer' = [j \in DOMAIN buffer |->
                    IF \E i \in DOMAIN w : w[i] = j
                    THEN [of |-> m, place |-> CHOOSE i \in DOMAIN w : w[i] = j]
                    ELSE buffer[j]]
  BY <1>3, <1>11 DEF WriteMessage
<1>15. DOMAIN buffer = 0..(BufferLen - 1) /\ DOMAIN buffer' = 0..(BufferLen - 1)
  BY <1>14 DEF RingInvOf
<1>16. ASSUME NEW i \in 0..(l - 1)
       PROVE  buffer'[ByteAt(read_index, u + i)] = [of |-> m, place |-> i]
  <2>1. PICK j : j = ByteAt(read_index, u + i)
    OBVIOUS
  <2>2. j \in DOMAIN buffer /\ i \in DOMAIN w /\ w[i] = j
    BY <1>10, <1>12, <1>15, <2>1
  <2>3. (CHOOSE h \in DOMAIN w : w[h] = j) = i
    BY <1>12, <1>13, <2>2
  <2>4. buffer'[j] = [of |-> m, place |-> CHOOSE h \in DOMAIN w : w[h] = j]
    BY <1>14, <2>2
  <2>5. QED
    BY <2>1, <2>3, <2>4
<1>17. ASSUME NEW d \in 0..(BufferLen - 1), d < u
       PROVE  buffer'[ByteAt(read_index, d)] = buffer[ByteAt(read_index, d)]
  <2>1. PICK j : j = ByteAt(read_index, d)
    OBVIOUS
  <2>2. ASSUME NEW i \in 0..(l - 1) PROVE w[i] # j
    <3>1. d # u + i
      BY <1>17
    <3>2. w[i] = ByteAt(read_index, u + i) /\ u + i \in 0..(BufferLen - 1)
      BY <1>10, <1>12
    <3>3. QED
      BY <1>5, <2>1, <3>1, <3>2, BytesDiffer
  <2>3. j \in DOMAIN buffer
    BY <1>5, <1>15, <2>1 DEF ByteAt
  <2>4. ~ \E i \in DOMAIN w : w[i] = j
    BY <1>12, <2>2
  <2>5. QED
    BY <1>14, <2>1, <2>3, <2>4
<1>18. ASSUME NEW k \in 1..(n + 1), NEW i \in 0..(LenOf[q[k]] - 1)
       PROVE  buffer'[ByteAt(read_index, g[k - 1] + i)] = [of |-> q[k], place |-> i]
  <2>1. CASE k = n + 1
    <3>1. k - 1 = n /\ n \in 0..n
      BY <2>1
    <3>2. g[k - 1] = u /\ q[k] = m /\ i \in 0..(l - 1)
      BY <1>2, <1>3, <1>8, <1>9, <2>1, <3>1
    <3>3. QED
      BY <1>16, <3>2
  <2>2. CASE k # n + 1
    <3>1. k \in 1..n /\ k - 1 \in 0..n /\ k \in 0..n /\ n \in 0..n /\ k <= n
      BY <2>2
    <3>2. q[k] = queued[k] /\ queued[k] \in Message /\ LenOf[queued[k]] \in Nat
      BY <1>9, <3>1, RingBounds
    <3>3. /\ f[k - 1] \in Nat /\ f[k] = f[k - 1] + LenOf[queued[k]] /\ f[k] <= u
          /\ f[k] \in Nat
      BY <1>1, <1>2, <3>1 DEF RingInvOf, Offsets
    <3>4. PICK d : d = f[k - 1] + i
      OBVIOUS
    <3>5. d < u /\ d \in 0..(BufferLen - 1)
      <4>1. PICK a \in Nat, b \in Nat, e \in Nat :
                a = f[k - 1] /\ b = f[k] /\ e = LenOf[queued[k]] /\ b = a + e /\ b <= u
        BY <3>2, <3>3
      <4>2. i \in 0..(e - 1)
        BY <3>2, <4>1
      <4>3. PICK j \in Nat : j = i /\ j < e
        BY <4>1, <4>2
      <4>4. d = a + j
        BY <3>4, <4>1, <4>3
      <4>5. u <= BufferLen
        BY <1>2
      <4>6. b <= u /\ b = a + e
        BY <4>1
      <4>7. d \in Nat /\ d < u /\ d < BufferLen
        BY <1>5, <4>3, <4>4, <4>5, <4>6
      <4>8. QED
        BY <1>5, <4>7
    <3>6. buffer[ByteAt(read_index, d)] = [of |-> queued[k], place |-> i]
      BY <1>1, <3>1, <3>2, <3>4 DEF RingInvOf, Stored
    <3>7. g[k - 1] = f[k - 1]
      BY <1>8, <3>1
    <3>8. QED
      BY <1>17, <3>2, <3>4, <3>5, <3>6, <3>7
  <2>3. QED
    BY <2>1, <2>2
<1>19. Stored(g)'
  BY <1>4, <1>7, <1>9, <1>18 DEF Stored
<1>20. write_index' = Advanced(read_index, u + l)
  BY <1>2, <1>4, <1>5, <1>6, AdvancedTwice
<1>21. RingInvOf(g)'
  BY <1>4, <1>5, <1>6, <1>7, <1>8, <1>9, <1>15, <1>19, <1>20 DEF RingInvOf
<1>22. Promise!Write(m)
  BY <1>2, <1>3, <1>4, <1>6 DEF Promise!Write
<1>23. Promise!Next
  BY <1>4, <1>22 DEF Promise!Next
<1>24. QED
  BY <1>21, <1>23 DEF RingInv, FifoStep

(* A message is refused only if at most one byte would be left.             *)
LEMMA RefuseStep ==
    ASSUME NEW f, RingInvOf(f), NEW m \in Message, RefuseMessage(m)
    PROVE  FifoStep
<1>2. PICK u \in Nat :
              /\ u = f[Len(queued)] /\ u <= BufferLen /\ Promise!Used = u
              /\ (u = 0 <=> queued = << >>)
              /\ write_index = Advanced(read_index, u) /\ write_index \in 0..BufferLen
              /\ (read_index = write_index <=> u = 0 \/ (u = BufferLen /\ read_index # 0))
              /\ BytesFree = (IF read_index + u <= BufferLen THEN BufferLen - u
                             ELSE IF u = BufferLen THEN BufferLen ELSE BufferLen - 1 - u)
  BY RingFacts
<1>3. PICK l \in Nat : l = LenOf[m] /\ l > 0
  BY RingBounds
<1>4. /\ ~wild /\ IsFull(l) /\ result' = [op |-> "full", message |-> m]
      /\ UNCHANGED <<buffer, write_index, read_index, rw_flag, wild, queued>>
  BY <1>3 DEF RefuseMessage
<1>5. BufferLen \in Nat \ {0} /\ read_index \in 0..BufferLen /\ wild = FALSE
  BY <1>4, RingBounds DEF RingInvOf
<1>6. u + l >= BufferLen
  <2>1. CASE BytesFree < l
    <3>1. PICK free : free = BytesFree
      OBVIOUS
    <3>2. free = (IF read_index + u <= BufferLen THEN BufferLen - u
                  ELSE IF u = BufferLen THEN BufferLen ELSE BufferLen - 1 - u) /\ free < l
      BY <1>2, <2>1, <3>1
    <3>3. u <= BufferLen
      BY <1>2
    <3>4. QED
      BY <1>5, <3>2, <3>3
  <2>2. CASE read_index = write_index /\ rw_flag = "WRITE"
    <3>1. u # 0
      BY <1>2, <2>2 DEF RingInvOf
    <3>2. QED
      BY <1>2, <1>3, <1>5, <2>2, <3>1
  <2>3. QED
    BY <1>4, <2>1, <2>2 DEF IsFull
<1>7. Promise!Refuse(m)
  BY <1>2, <1>3, <1>4, <1>6 DEF Promise!Refuse
<1>8. QED
  BY <1>5, <1>7 DEF Promise!Next, FifoStep

(* The first message of the queue is where the read index is.                  *)
LEMMA HeadStored ==
    ASSUME NEW f, RingInvOf(f), queued # << >>
    PROVE  /\ Head(queued) \in Message
           /\ LenOf[Head(queued)] <= BufferLen
           /\ \A i \in 0..(LenOf[Head(queued)] - 1) :
                 buffer[ByteAt(read_index, i)] = [of |-> Head(queued), place |-> i]
<1>1. PICK n \in Nat : n = Len(queued) /\ n # 0
  BY LenProperties, EmptySeq DEF RingInvOf
<1>2. Head(queued) = queued[1] /\ 1 \in 1..n /\ 1 - 1 = 0 /\ 1 \in 0..n /\ n \in 0..n /\ 1 <= n
  BY <1>1, HeadTailProperties, EmptySeq DEF RingInvOf
<1>3. queued[1] \in Message
  BY <1>1, <1>2, ElementOfSeq DEF RingInvOf
<1>4. f[0] = 0 /\ f[1] = f[0] + LenOf[queued[1]] /\ f[1] <= f[n] /\ f[n] <= BufferLen
      /\ f[n] \in Nat
  BY <1>1, <1>2 DEF RingInvOf, Offsets
<1>5. PICK l \in Nat : l = LenOf[queued[1]]
  BY <1>3, RingBounds
<1>6. l <= BufferLen
  BY <1>4, <1>5, RingBounds
<1>7. ASSUME NEW i \in 0..(l - 1)
      PROVE  buffer[ByteAt(read_index, i)] = [of |-> queued[1], place |-> i]
  <2>1. buffer[ByteAt(read_index, f[1 - 1] + i)] = [of |-> queued[1], place |-> i]
    BY <1>1, <1>2, <1>5 DEF RingInvOf, Stored
  <2>2. f[1 - 1] + i = i
    BY <1>2, <1>4
  <2>3. QED
    BY <2>1, <2>2
<1>8. QED
  BY <1>2, <1>3, <1>5, <1>6, <1>7

(* What is read is the first message of the queue, whole.                   *)
LEMMA ReadStep ==
    ASSUME NEW f, RingInvOf(f), ReadMessage
    PROVE  RingInv' /\ FifoStep
<1>1. PICK m \in Message :
          /\ HeadIs(m) /\ read_index' = Advanced(read_index, LenOf[m])
          /\ result' = [op |-> "read", message |-> IF Whole(m) THEN m ELSE Nothing]
  BY DEF ReadMessage
<1>2. /\ ~wild /\ ~IsNull /\ rw_flag' = "READ" /\ queued' = Tail(queued)
      /\ buffer' = buffer /\ write_index' = write_index /\ wild' = wild
  BY DEF ReadMessage
<1>3. PICK n \in Nat : n = Len(queued)
  BY LenProperties DEF RingInvOf
<1>4. PICK u \in Nat :
              /\ u = f[n] /\ u <= BufferLen /\ Promise!Used = u
              /\ (u = 0 <=> queued = << >>)
              /\ write_index = Advanced(read_index, u) /\ write_index \in 0..BufferLen
              /\ (read_index = write_index <=> u = 0 \/ (u = BufferLen /\ read_index # 0))
              /\ BytesFree = (IF read_index + u <= BufferLen THEN BufferLen - u
                             ELSE IF u = BufferLen THEN BufferLen ELSE BufferLen - 1 - u)
  BY <1>3, RingFacts
<1>5. BufferLen \in Nat \ {0} /\ HeadLen \in Nat \ {0} /\ read_index \in 0..BufferLen /\ wild = FALSE
  BY <1>2, RingBounds DEF RingInvOf
<1>6. read_index < BufferLen /\ buffer[read_index] = [of |-> m, place |-> 0]
  <2>1. 0 \in 0..(HeadLen - 1) /\ read_index + 0 = read_index
    BY <1>5
  <2>2. QED
    BY <1>1, <2>1 DEF HeadIs
<1>7. queued # << >>
  <2>1. SUFFICES ASSUME queued = << >> PROVE FALSE
    OBVIOUS
  <2>2. read_index = write_index /\ rw_flag # "WRITE"
    BY <1>4, <2>1 DEF RingInvOf
  <2>3. rw_flag = "INIT"
    BY <1>2, <2>2 DEF IsNull, RingInvOf
  <2>4. read_index \in DOMAIN buffer
    BY <1>5, <1>6 DEF RingInvOf
  <2>5. buffer[read_index] = Nothing
    BY <2>3, <2>4 DEF RingInvOf
  <2>6. QED
    BY <1>6, <2>5, RingBounds
<1>8. PICK h : h = Head(queued)
  OBVIOUS
<1>9. /\ h \in Message /\ LenOf[h] \in Nat /\ LenOf[h] > 0
      /\ \A i \in 0..(LenOf[h] - 1) : buffer[ByteAt(read_index, i)] = [of |-> h, place |-> i]
  BY <1>7, <1>8, HeadStored, RingBounds
<1>10. m = h
  <2>1. 0 \in 0..(LenOf[h] - 1)
    BY <1>9
  <2>2. ByteAt(read_index, 0) = read_index
    BY <1>5, <1>6 DEF ByteAt
  <2>3. buffer[read_index] = [of |-> h, place |-> 0]
    BY <1>9, <2>1, <2>2
  <2>4. [of |-> m, place |-> 0].of = [of |-> h, place |-> 0].of
    BY <1>6, <2>3
  <2>5. QED
    BY <2>4
<1>11. Whole(m)
  BY <1>9, <1>10 DEF Whole
<1>12. PICK l \in Nat : l = LenOf[h] /\ l > 0
  BY <1>9
<1>13. PICK q : q = Tail(queued)
  OBVIOUS
<1>14. PICK g : /\ Offsets(g, q)
                /\ \A k \in 0..(n - 1) : g[k] = f[k + 1] - f[1]
                /\ g[n - 1] = u - l /\ f[1] = l
  <2>1. queued \in Seq(Message) /\ Offsets(f, queued)
    BY DEF RingInvOf
  <2>2. PICK g : /\ Offsets(g, Tail(queued))
                 /\ \A k \in 0..(Len(queued) - 1) : g[k] = f[k + 1] - f[1]
                 /\ g[Len(queued) - 1] = f[Len(queued)] - f[1] /\ f[1] = LenOf[Head(queued)]
    BY <1>7, <2>1, OffsetsTail
  <2>3. g[n - 1] = f[n] - f[1] /\ f[1] = l
    BY <1>3, <1>8, <1>12, <2>2
  <2>4. g[n - 1] = u - l
    BY <1>4, <2>3
  <2>5. QED
    BY <1>3, <1>13, <2>2, <2>3, <2>4
<1>15. n # 0
  BY <1>3, <1>7, EmptySeq DEF RingInvOf
<1>16. /\ q \in Seq(Message) /\ Len(q) = n - 1
       /\ \A k \in 1..(n - 1) : q[k] = queued[k + 1] /\ queued[k + 1] \in Message
  <2>1. /\ q \in Seq(Message) /\ Len(q) = n - 1 /\ \A k \in 1..Len(q) : q[k] = queued[k + 1]
    BY <1>3, <1>7, <1>13, HeadTailProperties DEF RingInvOf
  <2>2. \A k \in 1..(n - 1) : k + 1 \in 1..n
    BY <1>15
  <2>3. \A k \in 1..n : queued[k] \in Message
    BY <1>3, ElementOfSeq DEF RingInvOf
  <2>4. QED
    BY <2>1, <2>2, <2>3
<1>17. l <= u /\ u - l \in Nat /\ l + (u - l) = u /\ u - l < BufferLen
  <2>1. 1 \in 0..n /\ n \in 0..n /\ 1 <= n
    BY <1>15
  <2>2. f[1] <= f[n]
    BY <1>3, <2>1 DEF RingInvOf, Offsets
  <2>3. QED
    <3>1. u = f[n] /\ u <= BufferLen /\ l = f[1]
      BY <1>4, <1>14
    <3>2. l <= u
      BY <2>2, <3>1
    <3>3. QED
      BY <1>5, <1>12, <3>1, <3>2
<1>18. read_index' = Advanced(read_index, l) /\ read_index' \in 0..BufferLen
       /\ write_index' = Advanced(read_index', u - l)
  <2>1. read_index' = Advanced(read_index, l)
    BY <1>1, <1>10, <1>12
  <2>2. /\ Advanced(read_index, l) \in 0..BufferLen
        /\ Advanced(Advanced(read_index, l), u - l) = Advanced(read_index, l + (u - l))
    <3>1. PICK d \in Nat : d = u - l /\ l + d = u /\ l + d <= BufferLen
      BY <1>4, <1>17
    <3>2. /\ Advanced(read_index, l) \in 0..BufferLen
          /\ Advanced(Advanced(read_index, l), d) = Advanced(read_index, l + d)
      BY <1>5, <3>1, AdvancedTwice
    <3>3. QED
      BY <3>1, <3>2
  <2>3. QED
    BY <1>2, <1>4, <1>17, <2>1, <2>2
<1>19. ASSUME NEW k \in 1..(n - 1), NEW i \in 0..(LenOf[q[k]] - 1)
       PROVE  buffer[ByteAt(read_index', g[k - 1] + i)] = [of |-> q[k], place |-> i]
  <2>1. /\ k + 1 \in 1..n /\ k \in 0..n /\ k + 1 \in 0..n /\ k - 1 \in 0..(n - 1)
        /\ (k - 1) + 1 = k /\ (k + 1) - 1 = k /\ n \in 0..n /\ 1 \in 0..n /\ 1 <= k /\ k + 1 <= n
    BY <1>15
  <2>2. q[k] = queued[k + 1] /\ queued[k + 1] \in Message /\ LenOf[queued[k + 1]] \in Nat
    BY <1>16, RingBounds
  <2>3. /\ f[k] \in Nat /\ f[k + 1] = f[k] + LenOf[queued[k + 1]] /\ f[k + 1] <= u
        /\ f[1] <= f[k]
    BY <1>3, <1>4, <2>1 DEF RingInvOf, Offsets
  <2>4. g[k - 1] = f[k] - l
    BY <1>14, <2>1
  <2>5. PICK d \in Nat : d = g[k - 1] + i
    BY <1>14, <2>3, <2>4
  <2>6. l + d = f[k] + i /\ l + d < u /\ l + d < BufferLen
    <3>1. PICK a \in Nat, b \in Nat, e \in Nat :
              a = f[k] /\ b = f[k + 1] /\ e = LenOf[queued[k + 1]] /\ b = a + e /\ b <= u
      BY <2>2, <2>3
    <3>2. i \in 0..(e - 1) /\ d = (a - l) + i
      BY <2>2, <2>4, <2>5, <3>1
    <3>3. u <= BufferLen
      BY <1>4
    <3>4. QED
      BY <1>5, <3>1, <3>2, <3>3
  <2>7. ByteAt(read_index', d) = ByteAt(read_index, l + d)
    BY <1>5, <1>18, <2>6, ByteAfter
  <2>8. buffer[ByteAt(read_index, f[k] + i)] = [of |-> queued[k + 1], place |-> i]
    BY ZenonT(60), <1>3, <2>1, <2>2 DEF RingInvOf, Stored
  <2>9. QED
    BY <2>2, <2>5, <2>6, <2>7, <2>8
<1>20. Stored(g)'
  BY <1>2, <1>13, <1>16, <1>19 DEF Stored
<1>21. RingInvOf(g)'
  <2>1. u - l # BufferLen /\ u - l <= BufferLen
    BY <1>5, <1>17
  <2>2. wild' \in BOOLEAN /\ rw_flag' \in {"INIT", "READ", "WRITE"}
        /\ DOMAIN buffer' = 0..(BufferLen - 1) /\ rw_flag' # "WRITE" /\ rw_flag' # "INIT"
    BY <1>2 DEF RingInvOf
  <2>3. queued' \in Seq(Message) /\ Offsets(g, queued') /\ g[Len(queued')] = u - l
    BY <1>2, <1>13, <1>14, <1>16
  <2>4. QED
    BY <1>18, <1>20, <2>1, <2>2, <2>3 DEF RingInvOf
<1>22. Promise!Read
  <2>1. result' = [op |-> "read", message |-> Head(queued)]
    BY <1>1, <1>8, <1>10, <1>11
  <2>2. (rw_flag = "INIT")' = (rw_flag = "INIT")
    BY <1>2, <1>7 DEF RingInvOf
  <2>3. QED
    <3>1. queued' = Tail(queued) /\ wild' = wild
      BY <1>2
    <3>2. PICK e \in Nat : e = read_index + l
      BY <1>5
    <3>3. e = read_index + LenOf[Head(queued)]
      BY <1>8, <1>12, <3>2
    <3>4. read_index' = IF e > BufferLen THEN e - BufferLen ELSE e
      <4>1. read_index' = Advanced(read_index, l)
        BY <1>18
      <4>2. Advanced(read_index, l) = IF e > BufferLen THEN e - BufferLen ELSE e
        BY <1>5, <3>2 DEF Advanced
      <4>3. QED
        BY <4>1, <4>2, Zenon
    <3>5. UNCHANGED <<(rw_flag = "INIT"), wild>>
      BY <2>2, <3>1
    <3>6. QED
      BY <1>7, <2>1, <3>1, <3>3, <3>4, <3>5, Zenon DEF Promise!Read
<1>23. QED
  BY <1>5, <1>21, <1>22 DEF RingInv, FifoStep, Promise!Next

(* A head that is not that of a message is read of a fresh buffer, or past  *)
(* its end, only.                                                           *)
LEMMA WildStep ==
    ASSUME NEW f, RingInvOf(f), ReadWild
    PROVE  RingInv' /\ FifoStep
<1>1. /\ ~wild /\ ~IsNull /\ wild' = TRUE /\ \A m \in Message : ~HeadIs(m)
      /\ buffer' = buffer /\ write_index' = write_index /\ read_index' = read_index
      /\ rw_flag' = rw_flag /\ queued' = queued /\ result' = result
  BY DEF ReadWild
<1>2. RingInvOf(f)'
  BY <1>1 DEF RingInvOf, Stored
<1>3. wild = FALSE
  BY <1>1 DEF RingInvOf
<1>4. rw_flag = "INIT" \/ (queued # << >> /\ read_index + HeadLen > BufferLen)
  <2>1. SUFFICES ASSUME rw_flag # "INIT"
                 PROVE  queued # << >> /\ read_index + HeadLen > BufferLen
    OBVIOUS
  <2>2. queued # << >>
    <3>1. SUFFICES ASSUME queued = << >> PROVE FALSE
      OBVIOUS
    <3>2. read_index = write_index /\ rw_flag # "WRITE"
      BY <3>1, RingFacts DEF RingInvOf
    <3>3. QED
      BY <1>1, <2>1, <3>2 DEF IsNull, RingInvOf
  <2>3. PICK h \in Message : h = Head(queued)
    BY <2>2, HeadStored
  <2>4. PICK i \in 0..(HeadLen - 1) :
            ~(read_index + i < BufferLen /\ buffer[read_index + i] = [of |-> h, place |-> i])
    BY <1>1 DEF HeadIs
  <2>5. /\ HeadLen \in Nat \ {0} /\ BufferLen \in Nat \ {0} /\ LenOf[h] \in Nat
        /\ LenOf[h] >= HeadLen /\ read_index \in 0..BufferLen
    BY RingBounds DEF RingInvOf
  <2>6. i \in 0..(LenOf[h] - 1)
    BY <2>5
  <2>7. buffer[ByteAt(read_index, i)] = [of |-> h, place |-> i]
    BY <2>2, <2>3, <2>6, HeadStored
  <2>8. ~(read_index + i < BufferLen)
    <3>1. SUFFICES ASSUME read_index + i < BufferLen PROVE FALSE
      OBVIOUS
    <3>2. ByteAt(read_index, i) = read_index + i
      BY <2>5, <3>1 DEF ByteAt
    <3>3. QED
      BY <2>4, <2>7, <3>1, <3>2
  <2>9. QED
    BY <2>2, <2>5, <2>8
<1>5. Promise!Break
  BY <1>1, <1>4 DEF Promise!Break
<1>6. QED
  BY <1>2, <1>3, <1>5 DEF RingInv, FifoStep, Promise!Next

(* Nothing is returned only if the queue is empty.                          *)
LEMMA NullStep ==
    ASSUME NEW f, RingInvOf(f), ReadNull
    PROVE  FifoStep
<1>1. /\ ~wild /\ IsNull /\ result' = [op |-> "read", message |-> Nothing]
      /\ UNCHANGED <<buffer, write_index, read_index, rw_flag, wild, queued>>
  BY DEF ReadNull
<1>2. wild = FALSE
  BY <1>1 DEF RingInvOf
<1>3. read_index = write_index /\ rw_flag = "READ"
  BY <1>1 DEF IsNull
<1>4. queued = << >>
  <2>1. f[Len(queued)] # BufferLen
    BY <1>3 DEF RingInvOf
  <2>2. QED
    BY <1>3, <2>1, RingFacts
<1>5. Promise!ReadNothing
  BY <1>1, <1>3, <1>4 DEF Promise!ReadNothing
<1>6. QED
  BY <1>2, <1>5 DEF FifoStep, Promise!Next

LEMMA RingStart == RingInit => RingInv /\ Promise!Init
<1> SUFFICES ASSUME RingInit PROVE RingInv /\ Promise!Init
  OBVIOUS
<1>1. PICK f : f = [k \in 0..0 |-> 0]
  OBVIOUS
<1>2. Offsets(f, << >>) /\ f[0] = 0 /\ Len(<< >>) = 0
  BY <1>1, NoOffsets
<1>3. /\ queued = << >> /\ read_index = 0 /\ write_index = 0 /\ wild = FALSE /\ rw_flag = "INIT"
      /\ DOMAIN buffer = 0..(BufferLen - 1) /\ \A j \in DOMAIN buffer : buffer[j] = Nothing
  BY DEF RingInit
<1>4. BufferLen \in Nat \ {0}
  BY RingBounds
<1>5. Advanced(0, 0) = 0 /\ 0 \in 0..BufferLen /\ 0 <= BufferLen /\ 0 # BufferLen
  BY <1>4 DEF Advanced
<1>6. Stored(f)
  <2>1. 1..Len(queued) = {}
    BY <1>2, <1>3
  <2>2. QED
    BY <2>1 DEF Stored
<1>7. RingInvOf(f)
  <2>1. queued \in Seq(Message) /\ Offsets(f, queued) /\ f[Len(queued)] = 0
    BY <1>2, <1>3
  <2>2. f[Len(queued)] <= BufferLen /\ f[Len(queued)] # BufferLen
        /\ write_index = Advanced(read_index, f[Len(queued)]) /\ read_index \in 0..BufferLen
    BY <1>3, <1>5, <2>1
  <2>3. wild \in BOOLEAN /\ rw_flag \in {"INIT", "READ", "WRITE"} /\ rw_flag # "WRITE"
    BY <1>3
  <2>4. QED
    BY <1>3, <1>6, <2>1, <2>2, <2>3 DEF RingInvOf
<1>8. Promise!Init
  BY DEF Promise!Init, RingInit
<1>9. QED
  BY <1>7, <1>8 DEF RingInv

(* Every operation keeps the invariant and is a step of the queue.          *)
LEMMA RingNextCorrect ==
    ASSUME RingInv, [RingNext]_ringVars
    PROVE  RingInv' /\ FifoStep
<1> PICK f : RingInvOf(f)
  BY DEF RingInv
<1>1. CASE UNCHANGED ringVars
  <2>1. RingInvOf(f)'
    BY <1>1 DEF ringVars, RingInvOf, Stored
  <2>2. QED
    BY <1>1, <2>1 DEF ringVars, RingInv, FifoStep, Promise!vars
<1>2. ASSUME NEW m \in Message, WriteMessage(m) PROVE RingInv' /\ FifoStep
  BY <1>2, WriteStep
<1>3. ASSUME NEW m \in Message, RefuseMessage(m) PROVE RingInv' /\ FifoStep
  <2>1. RingInvOf(f)'
    BY <1>3 DEF RefuseMessage, RingInvOf, Stored
  <2>2. QED
    BY <1>3, <2>1, RefuseStep DEF RingInv
<1>4. CASE ReadMessage
  BY <1>4, ReadStep
<1>5. CASE ReadWild
  BY <1>5, WildStep
<1>6. CASE ReadNull
  <2>1. RingInvOf(f)'
    BY <1>6 DEF ReadNull, RingInvOf, Stored
  <2>2. QED
    BY <1>6, <2>1, NullStep DEF RingInv
<1>7. QED
  BY <1>1, <1>2, <1>3, <1>4, <1>5, <1>6 DEF RingNext

(* Whatever the lengths of the messages, of their heads and of the buffer,  *)
(* the ring buffer is a queue of messages under every history of rbuf_write *)
(* and rbuf_read (ring_buffer.c): no byte of a message that was not read is *)
(* overwritten, and full and empty are told apart when the indices are      *)
(* equal, up to a read of a head that the end of the buffer cuts off, or of *)
(* a fresh buffer.                                                          *)
THEOREM RingCorrect == RingSpec => RingIsFifo
<1>1. RingInit => RingInv /\ Promise!Init
  BY RingStart
<1>2. RingInv /\ [RingNext]_ringVars => RingInv' /\ FifoStep
  BY RingNextCorrect
<1>3. FifoStep => [Promise!Next]_(Promise!vars)
  BY DEF FifoStep
<1>4. QED
  BY <1>1, <1>2, <1>3, PTL DEF RingSpec, RingIsFifo, Promise!Spec

-----------------------------------------------------------------------------
(* The i-th place of the ring: the head comes before the first node and after  *)
(* the last.                                                                 *)
PlaceAt(s, i) == IF i \in 1..Len(s) THEN s[i] ELSE HeadNode

(* The links nx and pv join the nodes of s, and no others, to a ring.          *)
IsRing(s, nx, pv) ==
    /\ s \in Seq(Node) /\ Distinct(s)
    /\ nx \in [Place -> Place \cup {Nowhere}]
    /\ pv \in [Place -> Place \cup {Nowhere}]
    /\ \A i \in 0..Len(s) : nx[PlaceAt(s, i)] = PlaceAt(s, i + 1)
                            /\ pv[PlaceAt(s, i + 1)] = PlaceAt(s, i)
    /\ \A x \in Node : x \notin Elements(s) => nx[x] = Nowhere /\ pv[x] = Nowhere

(* The head and the nodes are places, and Nowhere is none.                  *)
LEMMA Places ==
    /\ Node \subseteq Place /\ HeadNode \in Place /\ HeadNode \notin Node
    /\ Nowhere \notin Place /\ Nowhere \notin Node
  BY ListAssumption DEF ListAssumption, Place

LEMMA PlacesAre ==
    ASSUME NEW s \in Seq(Node)
    PROVE  /\ Len(s) \in Nat /\ DOMAIN s = 1..Len(s)
           /\ \A i : PlaceAt(s, i) \in Place
           /\ \A i \in 1..Len(s) : PlaceAt(s, i) = s[i] /\ s[i] \in Node
                                   /\ s[i] \in Elements(s) /\ s[i] # HeadNode
           /\ PlaceAt(s, 0) = HeadNode /\ PlaceAt(s, Len(s) + 1) = HeadNode
<1>1. Len(s) \in Nat /\ DOMAIN s = 1..Len(s)
  BY LenProperties
<1>2. \A i \in 1..Len(s) : s[i] \in Node
  BY ElementOfSeq
<1>3. 0 \notin 1..Len(s) /\ Len(s) + 1 \notin 1..Len(s)
  BY <1>1
<1>4. QED
  BY <1>1, <1>2, <1>3, Places DEF PlaceAt, Elements

(* A place is met once on the way forward, and once on the way back.          *)
LEMMA PlacesDiffer ==
    ASSUME NEW s \in Seq(Node), Distinct(s)
    PROVE  /\ \A i, j \in 0..Len(s) : PlaceAt(s, i) = PlaceAt(s, j) => i = j
           /\ \A i, j \in 0..Len(s) : PlaceAt(s, i + 1) = PlaceAt(s, j + 1) => i = j
<1>1. /\ Len(s) \in Nat /\ DOMAIN s = 1..Len(s)
      /\ \A i \in 1..Len(s) : PlaceAt(s, i) = s[i] /\ s[i] # HeadNode
      /\ PlaceAt(s, 0) = HeadNode /\ PlaceAt(s, Len(s) + 1) = HeadNode
  BY PlacesAre
<1>2. \A i, j \in 1..Len(s) : s[i] = s[j] => i = j
  BY <1>1 DEF Distinct
<1>3. ASSUME NEW i \in 0..Len(s), NEW j \in 0..Len(s), PlaceAt(s, i) = PlaceAt(s, j)
      PROVE  i = j
  <2>1. (i = 0 \/ i \in 1..Len(s)) /\ (j = 0 \/ j \in 1..Len(s))
    BY <1>1
  <2>2. QED
    BY <1>1, <1>2, <1>3, <2>1
<1>4. ASSUME NEW i \in 0..Len(s), NEW j \in 0..Len(s), PlaceAt(s, i + 1) = PlaceAt(s, j + 1)
      PROVE  i = j
  <2>0. Len(s) \in Nat
    BY <1>1
  <2>1. (i = Len(s) \/ i + 1 \in 1..Len(s)) /\ (j = Len(s) \/ j + 1 \in 1..Len(s))
    BY SMTT(60), <2>0
  <2>2. i + 1 = j + 1
    BY ZenonT(60), <1>1, <1>2, <1>4, <2>1
  <2>3. QED
    BY <1>1, <2>2
<1>5. QED
  BY <1>3, <1>4

(* The places after an insertion or a removal.                                *)
LEMMA InsertedPlaces ==
    ASSUME NEW s \in Seq(Node), Distinct(s), NEW k \in 0..Len(s), NEW n \in Node,
           n \notin Elements(s)
    PROVE  /\ Inserted(s, k, n) \in Seq(Node) /\ Len(Inserted(s, k, n)) = Len(s) + 1
           /\ Distinct(Inserted(s, k, n))
           /\ Elements(Inserted(s, k, n)) = Elements(s) \cup {n}
           /\ \A i \in 0..(Len(s) + 2) :
                 PlaceAt(Inserted(s, k, n), i) =
                     IF i <= k THEN PlaceAt(s, i)
                     ELSE IF i = k + 1 THEN n ELSE PlaceAt(s, i - 1)
<1>1. PICK t : t = Inserted(s, k, n)
  OBVIOUS
<1>2. IsInserted(t, Node, s, k, n)
  BY <1>1, InsertedIs
<1>3. /\ t \in Seq(Node) /\ Len(t) = Len(s) + 1 /\ Len(s) \in Nat
      /\ DOMAIN t = 1..(Len(s) + 1) /\ DOMAIN s = 1..Len(s)
      /\ \A i \in 1..(Len(s) + 1) :
            t[i] = IF i <= k THEN s[i] ELSE IF i = k + 1 THEN n ELSE s[i - 1]
  BY <1>2, LenProperties DEF IsInserted
<1>4. k \in Nat /\ k <= Len(s)
  BY <1>3
<1>5. \A i \in 1..(Len(s) + 1) : i <= k => i \in DOMAIN s /\ t[i] = s[i]
  BY <1>3, <1>4
<1>6. \A i \in 1..(Len(s) + 1) : i > k + 1 => i - 1 \in DOMAIN s /\ t[i] = s[i - 1]
  BY <1>3, <1>4
<1>7. k + 1 \in DOMAIN t /\ t[k + 1] = n
  BY <1>3, <1>4
<1>8. \A i \in DOMAIN s : s[i] # n
  BY DEF Elements
<1>9. Distinct(t)
  <2> SUFFICES ASSUME NEW i \in 1..(Len(s) + 1), NEW j \in 1..(Len(s) + 1), t[i] = t[j]
               PROVE  i = j
    BY <1>3 DEF Distinct
  <2>1. i = k + 1 \/ i <= k \/ i > k + 1
    BY <1>4
  <2>2. j = k + 1 \/ j <= k \/ j > k + 1
    BY <1>4
  <2>3. CASE i = k + 1
    BY <1>5, <1>6, <1>7, <1>8, <2>2, <2>3
  <2>4. CASE j = k + 1
    BY <1>5, <1>6, <1>7, <1>8, <2>1, <2>4
  <2>5. CASE i <= k /\ j <= k
    BY <1>5, <2>5 DEF Distinct
  <2>6. CASE i > k + 1 /\ j > k + 1
    <3>1. i - 1 = j - 1
      BY <1>6, <2>6 DEF Distinct
    <3>2. QED
      BY <3>1
  <2>7. CASE i <= k /\ j > k + 1
    <3>1. i = j - 1
      BY <1>5, <1>6, <2>7 DEF Distinct
    <3>2. QED
      BY <1>4, <2>7, <3>1
  <2>8. CASE i > k + 1 /\ j <= k
    <3>1. i - 1 = j
      BY <1>5, <1>6, <2>8 DEF Distinct
    <3>2. QED
      BY <1>4, <2>8, <3>1
  <2>9. QED
    BY <2>1, <2>2, <2>3, <2>4, <2>5, <2>6, <2>7, <2>8
<1>10. Elements(t) = Elements(s) \cup {n}
  <2>1. ASSUME NEW i \in 1..(Len(s) + 1) PROVE t[i] \in Elements(s) \cup {n}
    <3>1. i = k + 1 \/ i <= k \/ i > k + 1
      BY <1>4
    <3>2. QED
      BY <1>5, <1>6, <1>7, <3>1 DEF Elements
  <2>2. ASSUME NEW i \in DOMAIN s PROVE \E j \in DOMAIN t : s[i] = t[j]
    <3>1. CASE i <= k
      BY <1>3, <1>5, <3>1
    <3>2. CASE i > k
      <4>1. i + 1 \in DOMAIN t /\ i + 1 > k + 1 /\ (i + 1) - 1 = i
        BY <1>3, <1>4, <3>2
      <4>2. t[i + 1] = s[i]
        BY <1>3, <1>6, <4>1
      <4>3. QED
        BY <4>1, <4>2
    <3>3. QED
      BY <1>3, <1>4, <3>1, <3>2
  <2>3. \A x : x \in Elements(t) => x \in Elements(s) \cup {n}
    BY <1>3, <2>1 DEF Elements
  <2>4. \A x : x \in Elements(s) \cup {n} => x \in Elements(t)
    BY <1>7, <2>2 DEF Elements
  <2>5. QED
    BY <2>3, <2>4
<1>11. ASSUME NEW i \in 0..(Len(s) + 2)
       PROVE  PlaceAt(t, i) = IF i <= k THEN PlaceAt(s, i)
                              ELSE IF i = k + 1 THEN n ELSE PlaceAt(s, i - 1)
  <2>1. CASE i = 0
    BY <1>3, <1>4, <2>1, PlacesAre
  <2>2. CASE i = Len(s) + 2
    <3>1. i \notin 1..(Len(s) + 1) /\ i - 1 = Len(s) + 1 /\ ~(i <= k) /\ i # k + 1
      BY <1>3, <1>4, <2>2
    <3>2. QED
      BY <1>3, <3>1, PlacesAre DEF PlaceAt
  <2>3. CASE i \in 1..(Len(s) + 1)
    <3>1. PlaceAt(t, i) = t[i]
      BY <1>3, <2>3 DEF PlaceAt
    <3>2. i <= k => i \in 1..Len(s)
      BY <1>3, <1>4, <2>3
    <3>3. i > k + 1 => i - 1 \in 1..Len(s)
      BY <1>3, <1>4, <2>3
    <3>4. i <= k \/ i = k + 1 \/ i > k + 1
      BY <1>4, <2>3
    <3>5. QED
      BY <1>3, <2>3, <3>1, <3>2, <3>3, <3>4, <1>4 DEF PlaceAt
  <2>4. QED
    BY <1>3, <2>1, <2>2, <2>3
<1>12. QED
  BY <1>1, <1>3, <1>9, <1>10, <1>11

LEMMA RemovedPlaces ==
    ASSUME NEW s \in Seq(Node), Distinct(s), NEW k \in 1..Len(s)
    PROVE  /\ Removed(s, k) \in Seq(Node) /\ Len(Removed(s, k)) = Len(s) - 1
           /\ Distinct(Removed(s, k))
           /\ Elements(Removed(s, k)) = Elements(s) \ {s[k]}
           /\ \A i \in 0..Len(s) :
                 PlaceAt(Removed(s, k), i) =
                     IF i < k THEN PlaceAt(s, i) ELSE PlaceAt(s, i + 1)
<1>1. PICK t : t = Removed(s, k)
  OBVIOUS
<1>2. IsRemoved(t, Node, s, k)
  BY <1>1, RemovedIs
<1>3. /\ t \in Seq(Node) /\ Len(t) = Len(s) - 1 /\ Len(s) \in Nat
      /\ DOMAIN t = 1..(Len(s) - 1) /\ DOMAIN s = 1..Len(s)
      /\ \A i \in 1..(Len(s) - 1) : t[i] = IF i < k THEN s[i] ELSE s[i + 1]
  <2>1. Len(s) \in Nat /\ DOMAIN s = 1..Len(s)
    BY LenProperties
  <2>2. DOMAIN t = 1..(Len(s) - 1)
    BY <1>2, LenProperties DEF IsRemoved
  <2>3. QED
    BY <1>2, <2>1, <2>2 DEF IsRemoved
<1>4. k \in Nat /\ 1 <= k /\ k <= Len(s)
  BY <1>3
<1>5. \A i \in 1..(Len(s) - 1) : i < k => i \in DOMAIN s /\ i # k /\ t[i] = s[i]
  BY <1>3, <1>4
<1>6. \A i \in 1..(Len(s) - 1) : ~(i < k) => i + 1 \in DOMAIN s /\ i + 1 # k /\ t[i] = s[i + 1]
  BY <1>3, <1>4
<1>9. Distinct(t)
  <2> SUFFICES ASSUME NEW i \in 1..(Len(s) - 1), NEW j \in 1..(Len(s) - 1), t[i] = t[j]
               PROVE  i = j
    BY <1>3 DEF Distinct
  <2>5. CASE i < k /\ j < k
    BY <1>5, <2>5 DEF Distinct
  <2>6. CASE ~(i < k) /\ ~(j < k)
    <3>1. i + 1 = j + 1
      BY <1>6, <2>6 DEF Distinct
    <3>2. QED
      BY <3>1
  <2>7. CASE i < k /\ ~(j < k)
    <3>1. i = j + 1
      BY <1>5, <1>6, <2>7 DEF Distinct
    <3>2. QED
      BY <1>4, <2>7, <3>1
  <2>8. CASE ~(i < k) /\ j < k
    <3>1. i + 1 = j
      BY <1>5, <1>6, <2>8 DEF Distinct
    <3>2. QED
      BY <1>4, <2>8, <3>1
  <2>9. QED
    BY <2>5, <2>6, <2>7, <2>8
<1>10. Elements(t) = Elements(s) \ {s[k]}
  <2>1. ASSUME NEW i \in 1..(Len(s) - 1) PROVE t[i] \in Elements(s) /\ t[i] # s[k]
    <3>1. i < k \/ ~(i < k)
      OBVIOUS
    <3>2. k \in DOMAIN s
      BY <1>3
    <3>3. QED
      BY <1>5, <1>6, <3>1, <3>2 DEF Elements, Distinct
  <2>2. ASSUME NEW i \in DOMAIN s, s[i] # s[k] PROVE \E j \in DOMAIN t : s[i] = t[j]
    <3>1. CASE i < k
      <4>1. i \in 1..(Len(s) - 1)
        BY <1>3, <1>4, <3>1
      <4>2. QED
        BY <1>3, <1>5, <3>1, <4>1
    <3>2. CASE i > k
      <4>1. i - 1 \in 1..(Len(s) - 1) /\ ~(i - 1 < k) /\ (i - 1) + 1 = i
        BY <1>3, <1>4, <3>2
      <4>2. t[i - 1] = s[i]
        BY <1>6, <4>1
      <4>3. QED
        BY <1>3, <4>1, <4>2
    <3>3. QED
      BY <1>3, <1>4, <2>2, <3>1, <3>2
  <2>3. \A x : x \in Elements(t) => x \in Elements(s) /\ x # s[k]
    BY <1>3, <2>1 DEF Elements
  <2>4. \A x : x \in Elements(s) /\ x # s[k] => x \in Elements(t)
    BY <2>2 DEF Elements
  <2>5. QED
    BY <2>3, <2>4
<1>11. ASSUME NEW i \in 0..Len(s)
       PROVE  PlaceAt(t, i) = IF i < k THEN PlaceAt(s, i) ELSE PlaceAt(s, i + 1)
  <2>1. CASE i = 0
    <3>1. i < k /\ i \notin 1..(Len(s) - 1)
      BY <1>4, <2>1
    <3>2. QED
      BY <1>3, <2>1, <3>1, PlacesAre DEF PlaceAt
  <2>2. CASE i = Len(s)
    <3>1. i \notin 1..(Len(s) - 1) /\ ~(i < k) /\ i + 1 = Len(s) + 1
      BY <1>3, <1>4, <2>2
    <3>2. QED
      BY <1>3, <3>1, PlacesAre DEF PlaceAt
  <2>3. CASE i \in 1..(Len(s) - 1)
    <3>1. PlaceAt(t, i) = t[i]
      BY <1>3, <2>3 DEF PlaceAt
    <3>2. i \in 1..Len(s) /\ i + 1 \in 1..Len(s)
      BY <1>3, <2>3
    <3>3. PlaceAt(s, i) = s[i] /\ PlaceAt(s, i + 1) = s[i + 1]
      BY <3>2 DEF PlaceAt
    <3>5. QED
      BY <1>3, <2>3, <3>1, <3>3
  <2>4. QED
    BY <1>3, <2>1, <2>2, <2>3
<1>12. QED
  BY <1>1, <1>3, <1>9, <1>10, <1>11

(* A new node between two neighbours makes a larger ring, and one taken from   *)
(* between its neighbours a smaller one.                                     *)
LEMMA RingWith ==
    ASSUME NEW s, NEW nx, NEW pv, IsRing(s, nx, pv), NEW k \in 0..Len(s), NEW n \in Node,
           n \notin Elements(s)
    PROVE  IsRing(Inserted(s, k, n),
                  [nx EXCEPT ![n] = PlaceAt(s, k + 1), ![PlaceAt(s, k)] = n],
                  [pv EXCEPT ![n] = PlaceAt(s, k), ![PlaceAt(s, k + 1)] = n])
<1>1. s \in Seq(Node) /\ Distinct(s)
  BY DEF IsRing
<1>2. PICK t : t = Inserted(s, k, n)
  OBVIOUS
<1>3. /\ t \in Seq(Node) /\ Len(t) = Len(s) + 1 /\ Distinct(t)
      /\ Elements(t) = Elements(s) \cup {n}
      /\ \A i \in 0..(Len(s) + 2) :
            PlaceAt(t, i) = IF i <= k THEN PlaceAt(s, i)
                            ELSE IF i = k + 1 THEN n ELSE PlaceAt(s, i - 1)
  BY <1>1, <1>2, InsertedPlaces
<1>4. /\ Len(s) \in Nat /\ \A i : PlaceAt(s, i) \in Place
      /\ \A i \in 1..Len(s) : PlaceAt(s, i) = s[i] /\ s[i] \in Elements(s)
      /\ PlaceAt(s, 0) = HeadNode /\ PlaceAt(s, Len(s) + 1) = HeadNode
  BY <1>1, PlacesAre
<1>5. PICK x, y : x = PlaceAt(s, k) /\ y = PlaceAt(s, k + 1)
  OBVIOUS
<1>6. k \in Nat /\ k <= Len(s)
  BY <1>4
<1>7. \A i \in 0..(Len(s) + 1) : PlaceAt(s, i) # n
  <2>1. \A i \in 0..(Len(s) + 1) : i = 0 \/ i = Len(s) + 1 \/ i \in 1..Len(s)
    BY <1>4
  <2>2. QED
    BY <1>4, <2>1, Places
<1>8. x \in Place /\ y \in Place /\ x # n /\ y # n /\ n \in Place
  <2>1. k \in 0..(Len(s) + 1) /\ k + 1 \in 0..(Len(s) + 1)
    BY <1>4
  <2>2. QED
    BY <1>4, <1>5, <1>7, <2>1, Places
<1>9. PICK nn, pp : nn = [nx EXCEPT ![n] = y, ![x] = n] /\ pp = [pv EXCEPT ![n] = x, ![y] = n]
  OBVIOUS
<1>10. /\ nn \in [Place -> Place \cup {Nowhere}] /\ pp \in [Place -> Place \cup {Nowhere}]
       /\ nn[n] = y /\ nn[x] = n /\ pp[n] = x /\ pp[y] = n
       /\ \A z \in Place : z # n /\ z # x => nn[z] = nx[z]
       /\ \A z \in Place : z # n /\ z # y => pp[z] = pv[z]
  BY SMTT(60), <1>8, <1>9 DEF IsRing
<1>11. ASSUME NEW i \in 0..Len(t)
       PROVE  nn[PlaceAt(t, i)] = PlaceAt(t, i + 1) /\ pp[PlaceAt(t, i + 1)] = PlaceAt(t, i)
  <2>1. i \in 0..(Len(s) + 2) /\ i + 1 \in 0..(Len(s) + 2) /\ (i + 1) - 1 = i /\ i \in Nat
    BY <1>3, <1>4
  <2>2. \A j, l \in 0..Len(s) : /\ PlaceAt(s, j) = PlaceAt(s, l) => j = l
                                /\ PlaceAt(s, j + 1) = PlaceAt(s, l + 1) => j = l
    BY <1>1, PlacesDiffer
  <2>3. \A j \in 0..Len(s) : nx[PlaceAt(s, j)] = PlaceAt(s, j + 1)
                             /\ pv[PlaceAt(s, j + 1)] = PlaceAt(s, j)
    BY DEF IsRing
  <2>4. CASE i < k
    <3>1. i \in 0..Len(s) /\ i # k /\ i <= k /\ i + 1 <= k /\ i \in 0..(Len(s) + 1)
          /\ i + 1 \in 0..(Len(s) + 1)
      BY <1>6, <2>1, <2>4
    <3>2. PlaceAt(t, i) = PlaceAt(s, i) /\ PlaceAt(t, i + 1) = PlaceAt(s, i + 1)
      BY <1>3, <2>1, <3>1
    <3>3. PlaceAt(s, i) # x /\ PlaceAt(s, i + 1) # y
      BY <1>5, <2>2, <3>1
    <3>4. PlaceAt(s, i) # n /\ PlaceAt(s, i + 1) # n
      BY <1>7, <3>1
    <3>5. QED
      BY SMTT(60), <1>4, <1>10, <2>3, <3>1, <3>2, <3>3, <3>4
  <2>5. CASE i = k
    <3>1. PlaceAt(t, i) = x /\ PlaceAt(t, i + 1) = n
      BY <1>3, <1>5, <1>6, <2>1, <2>5
    <3>2. QED
      BY <1>10, <3>1
  <2>6. CASE i = k + 1
    <3>1. ~(i <= k) /\ ~(i + 1 <= k) /\ i + 1 # k + 1
      BY <1>6, <2>6
    <3>2. PlaceAt(t, i) = n /\ PlaceAt(t, i + 1) = PlaceAt(s, i)
      BY <1>3, <2>1, <2>6, <3>1
    <3>3. QED
      BY <1>5, <1>10, <2>6, <3>2
  <2>7. CASE i > k + 1
    <3>1. /\ ~(i <= k) /\ ~(i + 1 <= k) /\ i + 1 # k + 1 /\ i # k + 1
          /\ i - 1 \in 0..Len(s) /\ (i - 1) + 1 = i /\ i - 1 # k /\ i - 1 \in 0..(Len(s) + 1)
          /\ i \in 0..(Len(s) + 1)
      BY SMTT(60), <1>3, <1>4, <1>6, <2>1, <2>7
    <3>2. PlaceAt(t, i) = PlaceAt(s, i - 1) /\ PlaceAt(t, i + 1) = PlaceAt(s, i)
      BY <1>3, <2>1, <3>1
    <3>6. k \in 0..Len(s)
      OBVIOUS
    <3>3. PlaceAt(s, i - 1) # x /\ PlaceAt(s, i) # y
      BY <1>5, <2>2, <3>1, <3>6
    <3>4. PlaceAt(s, i - 1) # n /\ PlaceAt(s, i) # n
      BY <1>7, <3>1
    <3>7. nx[PlaceAt(s, i - 1)] = PlaceAt(s, i) /\ pv[PlaceAt(s, i)] = PlaceAt(s, i - 1)
      BY <2>3, <3>1
    <3>5. QED
      BY <1>4, <1>10, <3>2, <3>3, <3>4, <3>7
  <2>8. QED
    BY <1>6, <2>1, <2>4, <2>5, <2>6, <2>7
<1>12. ASSUME NEW z \in Node, z \notin Elements(t)
       PROVE  nn[z] = Nowhere /\ pp[z] = Nowhere
  <2>1. z \notin Elements(s) /\ z # n /\ z \in Place /\ z # HeadNode
    BY <1>3, <1>12, Places
  <2>2. \A j \in 0..(Len(s) + 1) : PlaceAt(s, j) # z
    <3>1. \A j \in 0..(Len(s) + 1) : j = 0 \/ j = Len(s) + 1 \/ j \in 1..Len(s)
      BY <1>4
    <3>2. QED
      BY <1>4, <2>1, <3>1
  <2>3. k \in 0..(Len(s) + 1) /\ k + 1 \in 0..(Len(s) + 1)
    BY <1>4
  <2>4. z # x /\ z # y
    BY <1>5, <2>2, <2>3
  <2>5. nx[z] = Nowhere /\ pv[z] = Nowhere
    BY <2>1 DEF IsRing
  <2>6. QED
    BY <1>10, <2>1, <2>4, <2>5
<1>13. IsRing(t, nn, pp)
  BY <1>3, <1>10, <1>11, <1>12 DEF IsRing
<1>14. QED
  BY <1>2, <1>5, <1>9, <1>13

LEMMA RingWithout ==
    ASSUME NEW s, NEW nx, NEW pv, IsRing(s, nx, pv), NEW k \in 1..Len(s)
    PROVE  /\ nx[s[k]] = PlaceAt(s, k + 1) /\ pv[s[k]] = PlaceAt(s, k - 1)
           /\ IsRing(Removed(s, k),
                     [nx EXCEPT ![pv[s[k]]] = nx[s[k]], ![s[k]] = Nowhere],
                     [pv EXCEPT ![nx[s[k]]] = pv[s[k]], ![s[k]] = Nowhere])
<1>1. s \in Seq(Node) /\ Distinct(s)
  BY DEF IsRing
<1>2. PICK t : t = Removed(s, k)
  OBVIOUS
<1>3. /\ t \in Seq(Node) /\ Len(t) = Len(s) - 1 /\ Distinct(t)
      /\ Elements(t) = Elements(s) \ {s[k]}
      /\ \A i \in 0..Len(s) :
            PlaceAt(t, i) = IF i < k THEN PlaceAt(s, i) ELSE PlaceAt(s, i + 1)
  BY <1>1, <1>2, RemovedPlaces
<1>4. /\ Len(s) \in Nat /\ \A i : PlaceAt(s, i) \in Place
      /\ \A i \in 1..Len(s) : PlaceAt(s, i) = s[i] /\ s[i] \in Elements(s)
      /\ PlaceAt(s, 0) = HeadNode /\ PlaceAt(s, Len(s) + 1) = HeadNode
  BY <1>1, PlacesAre
<1>5. PICK x, y, z : x = PlaceAt(s, k - 1) /\ y = PlaceAt(s, k + 1) /\ z = s[k]
  OBVIOUS
<1>6. /\ k \in Nat /\ 1 <= k /\ k <= Len(s) /\ k - 1 \in 0..Len(s) /\ k \in 0..Len(s)
      /\ (k - 1) + 1 = k
  BY <1>4
<1>7. \A j, l \in 0..Len(s) : /\ PlaceAt(s, j) = PlaceAt(s, l) => j = l
                              /\ PlaceAt(s, j + 1) = PlaceAt(s, l + 1) => j = l
  BY <1>1, PlacesDiffer
<1>8. \A j \in 0..Len(s) : nx[PlaceAt(s, j)] = PlaceAt(s, j + 1)
                           /\ pv[PlaceAt(s, j + 1)] = PlaceAt(s, j)
  BY DEF IsRing
<1>9. z = PlaceAt(s, k) /\ z \in Place /\ x \in Place /\ y \in Place
  BY <1>4, <1>5
<1>10. nx[z] = y /\ pv[z] = x
  BY <1>5, <1>6, <1>8, <1>9
<1>11. x # z /\ y # z
  <2>1. k - 1 # k
    BY <1>6
  <2>2. x # z
    BY <1>5, <1>6, <1>7, <1>9, <2>1
  <2>3. y # z
    BY <1>5, <1>6, <1>7, <1>9, <2>1
  <2>4. QED
    BY <2>2, <2>3
<1>12. PICK nn, pp : nn = [nx EXCEPT ![x] = y, ![z] = Nowhere]
                     /\ pp = [pv EXCEPT ![y] = x, ![z] = Nowhere]
  OBVIOUS
<1>13. /\ nn \in [Place -> Place \cup {Nowhere}] /\ pp \in [Place -> Place \cup {Nowhere}]
       /\ nn[x] = y /\ pp[y] = x /\ nn[z] = Nowhere /\ pp[z] = Nowhere
       /\ \A v \in Place : v # z /\ v # x => nn[v] = nx[v]
       /\ \A v \in Place : v # z /\ v # y => pp[v] = pv[v]
  BY <1>9, <1>11, <1>12 DEF IsRing
<1>14. ASSUME NEW i \in 0..Len(t)
       PROVE  nn[PlaceAt(t, i)] = PlaceAt(t, i + 1) /\ pp[PlaceAt(t, i + 1)] = PlaceAt(t, i)
  <2>1. i \in Nat /\ i \in 0..Len(s) /\ i + 1 \in 0..Len(s)
    BY <1>3, <1>4
  <2>2. PlaceAt(t, i) = IF i < k THEN PlaceAt(s, i) ELSE PlaceAt(s, i + 1)
    BY <1>3, <2>1
  <2>3. PlaceAt(t, i + 1) = IF i + 1 < k THEN PlaceAt(s, i + 1) ELSE PlaceAt(s, (i + 1) + 1)
    BY <1>3, <2>1
  <2>4. CASE i < k - 1
    <3>1. i < k /\ i + 1 < k /\ i # k - 1 /\ i # k
      BY <1>6, <2>1, <2>4
    <3>2. PlaceAt(s, i) # x /\ PlaceAt(s, i) # z
      BY <1>5, <1>6, <1>7, <1>9, <2>1, <3>1
    <3>3. PlaceAt(s, i + 1) # y /\ PlaceAt(s, i + 1) # z
      BY <1>5, <1>6, <1>7, <1>9, <2>1, <3>1
    <3>4. QED
      BY <1>4, <1>8, <1>13, <2>1, <2>2, <2>3, <3>1, <3>2, <3>3
  <2>5. CASE i = k - 1
    <3>1. i < k /\ ~(i + 1 < k) /\ (i + 1) + 1 = k + 1
      BY <1>6, <2>1, <2>5
    <3>2. PlaceAt(t, i) = x /\ PlaceAt(t, i + 1) = y
      BY <1>5, <2>2, <2>3, <2>5, <3>1
    <3>3. QED
      BY <1>13, <3>2
  <2>6. CASE i >= k
    <3>1. ~(i < k) /\ ~(i + 1 < k) /\ i + 1 # k - 1 /\ i + 1 # k
      BY <1>6, <2>1, <2>6
    <3>2. PlaceAt(s, i + 1) # x /\ PlaceAt(s, i + 1) # z
      BY <1>5, <1>6, <1>7, <1>9, <2>1, <3>1
    <3>3. PlaceAt(s, (i + 1) + 1) # y /\ PlaceAt(s, (i + 1) + 1) # z
      BY <1>5, <1>6, <1>7, <1>9, <2>1, <3>1
    <3>4. QED
      BY <1>4, <1>8, <1>13, <2>1, <2>2, <2>3, <3>1, <3>2, <3>3
  <2>7. QED
    BY <1>6, <2>1, <2>4, <2>5, <2>6
<1>15. ASSUME NEW v \in Node, v \notin Elements(t)
       PROVE  nn[v] = Nowhere /\ pp[v] = Nowhere
  <2>1. CASE v = z
    BY <1>13, <2>1
  <2>2. CASE v # z
    <3>1. v \notin Elements(s) /\ v \in Place /\ v # HeadNode
      BY <1>3, <1>5, <1>15, <2>2, Places
    <3>2. \A j \in 0..(Len(s) + 1) : PlaceAt(s, j) # v
      <4>1. \A j \in 0..(Len(s) + 1) : j = 0 \/ j = Len(s) + 1 \/ j \in 1..Len(s)
        BY <1>4
      <4>2. QED
        BY <1>4, <3>1, <4>1
    <3>3. k - 1 \in 0..(Len(s) + 1) /\ k + 1 \in 0..(Len(s) + 1)
      BY <1>4, <1>6
    <3>4. v # x /\ v # y
      BY <1>5, <3>2, <3>3
    <3>5. nx[v] = Nowhere /\ pv[v] = Nowhere
      BY <3>1 DEF IsRing
    <3>6. QED
      BY <1>13, <2>2, <3>1, <3>4, <3>5
  <2>3. QED
    BY <2>1, <2>2
<1>16. IsRing(t, nn, pp)
  BY <1>3, <1>13, <1>14, <1>15 DEF IsRing
<1>17. QED
  BY <1>2, <1>5, <1>10, <1>12, <1>16

(* A node is linked exactly if it is in the ring.                             *)
LEMMA LinkedIsIn ==
    ASSUME NEW s, NEW nx, NEW pv, IsRing(s, nx, pv), NEW x \in Node
    PROVE  nx[x] # Nowhere <=> x \in Elements(s)
<1>1. ASSUME x \in Elements(s) PROVE nx[x] # Nowhere
  <2>1. PICK k \in DOMAIN s : x = s[k]
    BY <1>1 DEF Elements
  <2>2. s \in Seq(Node)
    BY DEF IsRing
  <2>3. k \in 1..Len(s) /\ k \in 0..Len(s)
    <3>1. Len(s) \in Nat /\ DOMAIN s = 1..Len(s)
      BY <2>2, PlacesAre
    <3>2. QED
      BY <2>1, <3>1
  <2>4. PlaceAt(s, k) = x /\ PlaceAt(s, k + 1) \in Place
    BY <2>1, <2>2, <2>3, PlacesAre
  <2>5. nx[x] = PlaceAt(s, k + 1)
    BY <2>3, <2>4 DEF IsRing
  <2>6. QED
    BY <2>4, <2>5, Places
<1>2. QED
  BY <1>1 DEF IsRing

(* The walk from begin meets the nodes of the ring, each at its place.         *)
WalkSteps == 0..Cardinality(Node)

LEMMA NodesFit ==
    ASSUME NEW s \in Seq(Node), Distinct(s)
    PROVE  Cardinality(Node) \in Nat /\ Len(s) <= Cardinality(Node)
<1>1. IsFiniteSet(Node)
  BY ListAssumption DEF ListAssumption
<1>2. Len(s) \in Nat /\ DOMAIN s = 1..Len(s) /\ s \in [1..Len(s) -> Node]
  BY LenProperties
<1>3. s \in Injection(1..Len(s), Node)
  BY <1>2 DEF Distinct, Injection, IsInjective
<1>4. Cardinality(1..Len(s)) <= Cardinality(Node)
  BY <1>1, <1>3, FS_Injection
<1>5. Cardinality(1..Len(s)) = Len(s)
  <2>1. 1 \in Int /\ Len(s) \in Int
    BY <1>2
  <2>2. Cardinality(1..Len(s)) = IF 1 > Len(s) THEN 0 ELSE Len(s) - 1 + 1
    BY <2>1, FS_Interval
  <2>3. QED
    BY <1>2, <2>2
<1>6. Cardinality(Node) \in Nat
  BY <1>1, FS_CardinalityType
<1>7. QED
  BY <1>4, <1>5, <1>6

WalkFrom(f) ==
    f = [k \in WalkSteps |->
            IF k = 0 THEN begin
            ELSE LET x == f[k - 1] IN IF x \in {HeadNode, Nowhere} THEN HeadNode ELSE next[x]]

LEMMA WalkMeets ==
    ASSUME NEW s, IsRing(s, next, prev), begin = PlaceAt(s, 1)
    PROVE  \E g : /\ WalkFrom(g) /\ g = [k \in WalkSteps |-> PlaceAt(s, k + 1)]
                  /\ \A f : WalkFrom(f) => f = g
<1>1. s \in Seq(Node) /\ Distinct(s)
  BY DEF IsRing
<1>2. PICK N \in Nat : N = Cardinality(Node) /\ Len(s) <= N /\ WalkSteps = 0..N
  BY <1>1, NodesFit DEF WalkSteps
<1>3. PICK g : g = [k \in WalkSteps |-> PlaceAt(s, k + 1)]
  OBVIOUS
<1>4. /\ Len(s) \in Nat /\ \A i : PlaceAt(s, i) \in Place
      /\ \A i \in 1..Len(s) : PlaceAt(s, i) # HeadNode
  BY <1>1, PlacesAre
<1>5. ASSUME NEW k \in WalkSteps, k # 0
      PROVE  PlaceAt(s, k + 1) = LET x == PlaceAt(s, k) IN
                                 IF x \in {HeadNode, Nowhere} THEN HeadNode ELSE next[x]
  <2>1. k \in 1..N /\ k \in Nat
    BY <1>2, <1>5
  <2>2. CASE k <= Len(s)
    <3>1. k \in 1..Len(s) /\ k \in 0..Len(s)
      BY <1>4, <2>1, <2>2
    <3>2. next[PlaceAt(s, k)] = PlaceAt(s, k + 1)
      BY <3>1 DEF IsRing
    <3>3. PlaceAt(s, k) # HeadNode /\ PlaceAt(s, k) # Nowhere
      BY <1>4, <3>1, Places
    <3>4. QED
      BY <3>2, <3>3
  <2>3. CASE ~(k <= Len(s))
    <3>1. k \notin 1..Len(s) /\ k + 1 \notin 1..Len(s)
      BY <1>4, <2>1, <2>3
    <3>2. QED
      BY <3>1 DEF PlaceAt
  <2>4. QED
    BY <2>2, <2>3
<1>6. \A k \in WalkSteps : k # 0 => k - 1 \in WalkSteps /\ (k - 1) + 1 = k
  BY <1>2
<1>7. 0 \in WalkSteps /\ \A k \in WalkSteps : k \in Nat
  BY <1>2
<1>8. \A k \in WalkSteps : g[k] = PlaceAt(s, k + 1)
  BY <1>3
<1>9. WalkFrom(g)
  <2>1. \A k \in WalkSteps : g[k] = IF k = 0 THEN begin
            ELSE LET x == g[k - 1] IN IF x \in {HeadNode, Nowhere} THEN HeadNode ELSE next[x]
    <3>1. ASSUME NEW k \in WalkSteps, k # 0
          PROVE  g[k] = LET x == g[k - 1] IN IF x \in {HeadNode, Nowhere} THEN HeadNode ELSE next[x]
      <4>1. g[k - 1] = PlaceAt(s, k)
        BY <1>6, <1>8, <3>1
      <4>2. QED
        BY <1>5, <1>8, <3>1, <4>1
    <3>2. g[0] = begin
      BY <1>7, <1>8
    <3>3. QED
      BY <3>1, <3>2
  <2>2. DOMAIN g = WalkSteps /\ g = [k \in WalkSteps |-> g[k]]
    BY <1>3
  <2>3. QED
    BY <2>1, <2>2 DEF WalkFrom
<1>10. ASSUME NEW f, WalkFrom(f) PROVE f = g
  <2>1. /\ f = [k \in WalkSteps |-> f[k]] /\ f[0] = begin
        /\ \A k \in WalkSteps : k # 0 => f[k] = LET x == f[k - 1] IN
                                           IF x \in {HeadNode, Nowhere} THEN HeadNode ELSE next[x]
    <3> DEFINE h(k) == IF k = 0 THEN begin
                       ELSE LET x == f[k - 1] IN
                            IF x \in {HeadNode, Nowhere} THEN HeadNode ELSE next[x]
    <3>1. f = [k \in WalkSteps |-> h(k)]
      BY <1>10 DEF WalkFrom
    <3>2. \A k \in WalkSteps : f[k] = h(k)
      <4> HIDE DEF h
      <4>1. QED
        BY <3>1
    <3>3. f = [k \in WalkSteps |-> f[k]]
      <4> HIDE DEF h
      <4>1. QED
        BY <3>1
    <3>4. f[0] = begin
      BY <1>7, <3>2
    <3>5. QED
      BY <3>2, <3>3, <3>4
  <2>2. PICK D : D = {k \in WalkSteps : f[k] # g[k]}
    OBVIOUS
  <2>3. CASE D = {}
    <3>1. \A k \in WalkSteps : f[k] = g[k]
      BY <2>2, <2>3
    <3>2. QED
      BY <1>3, <2>1, <3>1
  <2>4. CASE D # {}
    <3>1. D \in SUBSET Nat
      BY <1>7, <2>2
    <3>2. PICK k \in D : \A j \in D : k <= j
      BY <2>4, <3>1, LeastNatural
    <3>3. k \in WalkSteps /\ k \in Nat /\ f[k] # g[k]
      BY <1>7, <2>2, <3>2
    <3>4. k # 0
      BY <2>1, <1>7, <1>8, <3>3
    <3>5. k - 1 \in WalkSteps /\ k - 1 \notin D
      BY <1>6, <3>2, <3>3, <3>4
    <3>6. f[k - 1] = g[k - 1] /\ g[k - 1] = PlaceAt(s, k)
      BY <1>6, <1>8, <2>2, <3>3, <3>4, <3>5
    <3>7. f[k] = PlaceAt(s, k + 1)
      BY <1>5, <2>1, <3>3, <3>4, <3>6
    <3>8. QED
      BY <1>8, <3>3, <3>7
  <2>5. QED
    BY <2>3, <2>4
<1>11. QED
  BY <1>3, <1>9, <1>10

LEMMA WalkIs ==
    ASSUME NEW s, IsRing(s, next, prev), begin = PlaceAt(s, 1)
    PROVE  Walk = s
<1>1. s \in Seq(Node) /\ Distinct(s)
  BY DEF IsRing
<1>2. PICK g : /\ WalkFrom(g) /\ g = [k \in WalkSteps |-> PlaceAt(s, k + 1)]
               /\ \A f : WalkFrom(f) => f = g
  BY WalkMeets
<1>3. (CHOOSE f : WalkFrom(f)) = g
  BY <1>2
<1>4. PICK N \in Nat : N = Cardinality(Node) /\ Len(s) <= N /\ WalkSteps = 0..N
  BY <1>1, NodesFit DEF WalkSteps
<1>5. /\ Len(s) \in Nat /\ DOMAIN s = 1..Len(s)
      /\ \A i \in 1..Len(s) : PlaceAt(s, i) = s[i] /\ s[i] # HeadNode
  BY <1>1, PlacesAre
<1>6. PICK M : M = {k \in WalkSteps : g[k] # HeadNode}
  OBVIOUS
<1>7. M = 0..(Len(s) - 1)
  <2>1. ASSUME NEW k \in WalkSteps PROVE g[k] # HeadNode <=> k \in 0..(Len(s) - 1)
    <3>1. k \in Nat /\ g[k] = PlaceAt(s, k + 1)
      BY <1>2, <1>4
    <3>2. k \in 0..(Len(s) - 1) <=> k + 1 \in 1..Len(s)
      BY <1>5, <3>1
    <3>3. QED
      BY <1>5, <3>1, <3>2 DEF PlaceAt
  <2>2. 0..(Len(s) - 1) \subseteq WalkSteps
    BY <1>4, <1>5
  <2>3. QED
    BY <1>6, <2>1, <2>2
<1>8. Cardinality(M) = Len(s)
  <2>1. 0 \in Int /\ Len(s) - 1 \in Int
    BY <1>5
  <2>2. Cardinality(0..(Len(s) - 1)) = IF 0 > Len(s) - 1 THEN 0 ELSE (Len(s) - 1) - 0 + 1
    BY <2>1, FS_Interval
  <2>3. QED
    BY <1>5, <1>7, <2>2
<1>9. Walk = [k \in 1..Cardinality(M) |-> g[k - 1]]
  <2>1. Walk = [k \in 1..Cardinality({k \in WalkSteps : (CHOOSE f : WalkFrom(f))[k] # HeadNode}) |->
                   (CHOOSE f : WalkFrom(f))[k - 1]]
    BY Zenon DEF Walk, WalkFrom, WalkSteps
  <2>2. QED
    BY <1>3, <1>6, <2>1
<1>10. \A k \in 1..Len(s) : g[k - 1] = s[k]
  <2>1. ASSUME NEW k \in 1..Len(s) PROVE g[k - 1] = s[k]
    <3>1. k - 1 \in WalkSteps /\ (k - 1) + 1 = k
      BY <1>4, <1>5
    <3>2. QED
      BY <1>2, <1>5, <3>1
  <2>2. QED
    BY <2>1
<1>11. s = [k \in 1..Len(s) |-> s[k]]
  BY <1>1, <1>5, LenProperties
<1>12. QED
  BY <1>8, <1>9, <1>10, <1>11

-----------------------------------------------------------------------------
Pushing == {"push_back", "push_front", "insert"}
Finding == {"detach_back", "pop_back"}

(* What each thread holds: a node that is pushed is not in the list yet, and   *)
(* one that is found by the only thread is still the last.                    *)
ThreadsInv(s) ==
    /\ use \in {"alone", "shared"}
    /\ prepared \in [ListThread -> Node \cup {Nowhere}]
    /\ step \in [ListThread -> {"idle"} \cup Pushing \cup Finding]
    /\ allocated \subseteq Node
    /\ Elements(s) \subseteq allocated
    /\ \A t \in ListThread :
          /\ step[t] = "idle" => prepared[t] = Nowhere
          /\ step[t] # "idle" => MayUse(t)
          /\ step[t] \in Pushing => prepared[t] \in allocated /\ prepared[t] \notin Elements(s)
          /\ step[t] \in Finding => use = "alone" /\ Len(s) > 0 /\ prepared[t] = s[Len(s)]
    /\ \A t, u \in ListThread :
          step[t] \in Pushing /\ step[u] \in Pushing /\ prepared[t] = prepared[u] => t = u

ListInvOf(s) ==
    /\ IsRing(s, next, prev)
    /\ begin = PlaceAt(s, 1)
    /\ list_count = Len(s)
    /\ ThreadsInv(s)

HeldBeside(s) == allocated \ (Elements(s) \cup {prepared[t] : t \in ListThread})

LEMMA OneAlone ==
    ASSUME use = "alone", NEW t, NEW u, MayUse(t), MayUse(u)
    PROVE  t = u
  BY DEF MayUse

LEMMA InvWalk == \A s : ListInvOf(s) => Walk = s /\ InWalk = Elements(s)
  BY WalkIs DEF ListInvOf, InWalk, Elements

(* The neighbours of the head are the first and the last node.                *)
LEMMA EndsAre ==
    ASSUME NEW s, ListInvOf(s)
    PROVE  /\ s \in Seq(Node) /\ Len(s) \in Nat /\ DOMAIN s = 1..Len(s)
           /\ \A i \in 1..Len(s) : s[i] \in Node /\ PlaceAt(s, i) = s[i] /\ s[i] # HeadNode
           /\ PlaceAt(s, 0) = HeadNode /\ PlaceAt(s, Len(s) + 1) = HeadNode
           /\ next[HeadNode] = PlaceAt(s, 1) /\ prev[HeadNode] = PlaceAt(s, Len(s))
           /\ begin = PlaceAt(s, 1) /\ (begin = HeadNode <=> Len(s) = 0)
           /\ Len(s) = 0 <=> s = << >>
<1>1. s \in Seq(Node) /\ begin = PlaceAt(s, 1)
  BY DEF ListInvOf, IsRing
<1>2. /\ Len(s) \in Nat /\ DOMAIN s = 1..Len(s)
      /\ \A i \in 1..Len(s) : s[i] \in Node /\ PlaceAt(s, i) = s[i] /\ s[i] # HeadNode
      /\ PlaceAt(s, 0) = HeadNode /\ PlaceAt(s, Len(s) + 1) = HeadNode
  BY <1>1, PlacesAre
<1>3. \A j \in 0..Len(s) : next[PlaceAt(s, j)] = PlaceAt(s, j + 1)
                           /\ prev[PlaceAt(s, j + 1)] = PlaceAt(s, j)
  BY DEF ListInvOf, IsRing
<1>4. 0 \in 0..Len(s) /\ Len(s) \in 0..Len(s) /\ 0 + 1 = 1
  BY <1>2
<1>5. next[HeadNode] = PlaceAt(s, 1) /\ prev[HeadNode] = PlaceAt(s, Len(s))
  BY <1>2, <1>3, <1>4
<1>6. begin = HeadNode <=> Len(s) = 0
  <2>1. CASE Len(s) = 0
    <3>1. 1 \notin 1..Len(s)
      BY <2>1
    <3>2. QED
      BY <1>1, <2>1, <3>1 DEF PlaceAt
  <2>2. CASE Len(s) # 0
    <3>1. 1 \in 1..Len(s)
      BY <1>2, <2>2
    <3>2. QED
      BY <1>1, <1>2, <2>2, <3>1
  <2>3. QED
    BY <2>1, <2>2
<1>7. Len(s) = 0 <=> s = << >>
  BY <1>1, EmptySeq
<1>8. QED
  BY <1>1, <1>2, <1>5, <1>6, <1>7

(* A node of the ring has a place.                                            *)
LEMMA PlaceOf ==
    ASSUME NEW s, ListInvOf(s), NEW x \in Node, next[x] # Nowhere
    PROVE  \E k \in 1..Len(s) : x = s[k]
<1>1. x \in Elements(s)
  BY LinkedIsIn DEF ListInvOf
<1>2. QED
  BY <1>1, EndsAre DEF Elements

-----------------------------------------------------------------------------
(* A thread that is done with its node, beside the others.                    *)
LEMMA CompletedIs ==
    ASSUME NEW s, ThreadsInv(s), NEW t \in ListThread, NEW l, Completed(t, l)
    PROVE  /\ prepared' \in [ListThread -> Node \cup {Nowhere}]
           /\ step' \in [ListThread -> {"idle"} \cup Pushing \cup Finding]
           /\ prepared'[t] = Nowhere /\ step'[t] = "idle"
           /\ \A u \in ListThread : u # t => prepared'[u] = prepared[u] /\ step'[u] = step[u]
           /\ last' = l
  BY DEF ThreadsInv, Completed

(* What the operations that put a node in do to the list.                     *)
Entering(t, s, k) ==
    /\ Linked(prepared[t], PlaceAt(s, k), PlaceAt(s, k + 1))
    /\ begin' = IF k = 0 THEN prepared[t] ELSE begin
    /\ list_count' = list_count + 1
    /\ UNCHANGED <<use, allocated>>

(* A node that enters the ring, and one that leaves it, leave a ring.       *)
LEMMA EnteringKeeps ==
    ASSUME NEW s, ListInvOf(s), NEW t \in ListThread, step[t] \in Pushing,
           NEW k \in 0..Len(s), Entering(t, s, k), NEW l, Completed(t, l)
    PROVE  \E n \in Node : \E v :
              /\ n = prepared[t] /\ n \notin Elements(s) \cup HeldBeside(s)
              /\ v = Inserted(s, k, n) /\ ListInvOf(v)' /\ HeldBeside(v)' = HeldBeside(s)
<1>1. PICK n : n = prepared[t]
  OBVIOUS
<1>2. n \in Node /\ n \notin Elements(s) /\ n \in allocated
  BY <1>1 DEF ListInvOf, ThreadsInv
<1>3. PICK v : v = Inserted(s, k, n)
  OBVIOUS
<1>4. s \in Seq(Node) /\ Distinct(s) /\ Len(s) \in Nat
  BY EndsAre DEF ListInvOf, IsRing
<1>5. /\ v \in Seq(Node) /\ Len(v) = Len(s) + 1
      /\ Elements(v) = Elements(s) \cup {n}
      /\ \A i \in 0..(Len(s) + 2) :
            PlaceAt(v, i) = IF i <= k THEN PlaceAt(s, i)
                            ELSE IF i = k + 1 THEN n ELSE PlaceAt(s, i - 1)
  BY <1>2, <1>3, <1>4, InsertedPlaces
<1>6. /\ next' = [next EXCEPT ![n] = PlaceAt(s, k + 1), ![PlaceAt(s, k)] = n]
      /\ prev' = [prev EXCEPT ![n] = PlaceAt(s, k), ![PlaceAt(s, k + 1)] = n]
  BY <1>1 DEF Entering, Linked
<1>7. IsRing(v, next', prev')
  <2>1. IsRing(s, next, prev)
    BY DEF ListInvOf
  <2>2. PICK nx, pv : nx = next /\ pv = prev
    OBVIOUS
  <2>3. IsRing(v, [nx EXCEPT ![n] = PlaceAt(s, k + 1), ![PlaceAt(s, k)] = n],
                  [pv EXCEPT ![n] = PlaceAt(s, k), ![PlaceAt(s, k + 1)] = n])
    BY <1>2, <1>3, <2>1, <2>2, RingWith
  <2>4. QED
    BY <1>6, <2>2, <2>3
<1>8. begin' = PlaceAt(v, 1) /\ list_count' = Len(v)
  <2>1. k \in Nat /\ 1 \in 0..(Len(s) + 2)
    BY <1>4
  <2>2. PlaceAt(v, 1) = IF 1 <= k THEN PlaceAt(s, 1) ELSE IF 1 = k + 1 THEN n ELSE PlaceAt(s, 0)
    BY <1>5, <2>1
  <2>3. begin' = IF k = 0 THEN n ELSE PlaceAt(s, 1)
    BY <1>1 DEF Entering, ListInvOf
  <2>4. begin' = PlaceAt(v, 1)
    BY <2>1, <2>2, <2>3
  <2>5. QED
    BY <1>5, <2>4 DEF Entering, ListInvOf
<1>9. /\ prepared' \in [ListThread -> Node \cup {Nowhere}]
      /\ step' \in [ListThread -> {"idle"} \cup Pushing \cup Finding]
      /\ prepared'[t] = Nowhere /\ step'[t] = "idle"
      /\ \A u \in ListThread : u # t => prepared'[u] = prepared[u] /\ step'[u] = step[u]
  BY CompletedIs DEF ListInvOf
<1>10. use' = use /\ allocated' = allocated
  BY DEF Entering
<1>11. \A u \in ListThread : u # t => step[u] \notin Finding
  <2>1. \A u \in ListThread : step[u] \in Finding => use = "alone" /\ MayUse(u) /\ MayUse(t)
    BY DEF ListInvOf, ThreadsInv, Finding, Pushing
  <2>2. QED
    BY <2>1, OneAlone
<1>12. ThreadsInv(v)'
  <2>1. \A u \in ListThread : MayUse(u)' <=> MayUse(u)
    BY <1>10 DEF MayUse
  <2>2. Elements(v) \subseteq allocated'
    BY <1>2, <1>5, <1>10 DEF ListInvOf, ThreadsInv
  <2>3. ASSUME NEW u \in ListThread
        PROVE  /\ step'[u] = "idle" => prepared'[u] = Nowhere
               /\ step'[u] # "idle" => MayUse(u)'
               /\ step'[u] \in Pushing => prepared'[u] \in allocated' /\ prepared'[u] \notin Elements(v)
               /\ step'[u] \notin Finding
    <3>1. CASE u = t
      BY <1>9, <3>1 DEF Pushing, Finding
    <3>2. CASE u # t
      <4>1. step[u] \in Pushing => prepared[u] # n
        BY <1>1, <3>2 DEF ListInvOf, ThreadsInv
      <4>2. /\ step[u] = "idle" => prepared[u] = Nowhere
            /\ step[u] # "idle" => MayUse(u)
            /\ step[u] \in Pushing => prepared[u] \in allocated /\ prepared[u] \notin Elements(s)
        BY DEF ListInvOf, ThreadsInv
      <4>3. QED
        BY <1>5, <1>9, <1>10, <1>11, <2>1, <3>2, <4>1, <4>2
    <3>3. QED
      BY <3>1, <3>2
  <2>4. \A u, w \in ListThread :
           step'[u] \in Pushing /\ step'[w] \in Pushing /\ prepared'[u] = prepared'[w] => u = w
    <3>1. "idle" \notin Pushing
      BY DEF Pushing
    <3>2. \A u, w \in ListThread :
             step[u] \in Pushing /\ step[w] \in Pushing /\ prepared[u] = prepared[w] => u = w
      BY DEF ListInvOf, ThreadsInv
    <3>3. QED
      BY <1>9, <3>1, <3>2
  <2>5. use' \in {"alone", "shared"} /\ allocated' \subseteq Node
    BY <1>10 DEF ListInvOf, ThreadsInv
  <2>6. QED
    BY <1>9, <2>2, <2>3, <2>4, <2>5 DEF ThreadsInv
<1>13. ListInvOf(v)'
  BY <1>7, <1>8, <1>12 DEF ListInvOf
<1>14. HeldBeside(v)' = HeldBeside(s)
  <2>1. \A x : x \in HeldBeside(s) <=> x \in allocated /\ x \notin Elements(s)
                                       /\ \A u \in ListThread : prepared[u] # x
    BY DEF HeldBeside
  <2>2. \A x : x \in HeldBeside(v)' <=> x \in allocated' /\ x \notin Elements(v)
                                       /\ \A u \in ListThread : prepared'[u] # x
    BY DEF HeldBeside
  <2>3. \A x \in allocated : x # Nowhere
    BY Places DEF ListInvOf, ThreadsInv
  <2>4. \A x : x \in HeldBeside(v)' <=> x \in HeldBeside(s)
    <3>1. ASSUME NEW x, x \in HeldBeside(s) PROVE x \in HeldBeside(v)'
      <4>1. x # n
        BY <1>1, <2>1, <3>1
      <4>2. \A u \in ListThread : prepared'[u] # x
        BY <1>9, <2>1, <2>3, <3>1
      <4>3. QED
        BY <1>5, <1>10, <2>1, <2>2, <3>1, <4>1, <4>2
    <3>2. ASSUME NEW x, x \in HeldBeside(v)' PROVE x \in HeldBeside(s)
      <4>1. x # n /\ x \in allocated /\ x \notin Elements(s)
        BY <1>5, <1>10, <2>2, <3>2
      <4>2. \A u \in ListThread : prepared[u] # x
        BY <1>1, <1>9, <2>2, <3>2, <4>1
      <4>3. QED
        BY <2>1, <4>1, <4>2
    <3>3. QED
      BY <3>1, <3>2
  <2>5. QED
    BY <2>4
<1>15. n \notin HeldBeside(s)
  BY <1>1 DEF HeldBeside
<1>16. QED
  BY <1>1, <1>2, <1>3, <1>13, <1>14, <1>15

(* What the operations that take a node out do to the list.                    *)
Leaving(t, s, k) ==
    /\ Unlinked(s[k])
    /\ begin' = IF s[k] = begin THEN next[s[k]] ELSE begin
    /\ list_count' = list_count - 1
    /\ UNCHANGED use
    /\ MayUse(t)
    /\ step[t] = "idle" \/ (step[t] \in Finding /\ k = Len(s))

LEMMA LeavingKeeps ==
    ASSUME NEW s, ListInvOf(s), NEW t \in ListThread, NEW k \in 1..Len(s), Leaving(t, s, k),
           allocated' = allocated \/ allocated' = allocated \ {s[k]},
           NEW l, Completed(t, l)
    PROVE  /\ ListInvOf(Removed(s, k))'
           /\ allocated' = allocated => HeldBeside(Removed(s, k))' = HeldBeside(s) \cup {s[k]}
           /\ allocated' = allocated \ {s[k]} => HeldBeside(Removed(s, k))' = HeldBeside(s)
<1>1. PICK n : n = s[k]
  OBVIOUS
<1>2. /\ s \in Seq(Node) /\ Distinct(s) /\ Len(s) \in Nat /\ DOMAIN s = 1..Len(s)
      /\ PlaceAt(s, k) = n /\ n \in Node /\ n \in Elements(s) /\ PlaceAt(s, 0) = HeadNode
      /\ n # HeadNode
  BY ZenonT(60), <1>1, EndsAre DEF ListInvOf, IsRing, Elements
<1>3. PICK v : v = Removed(s, k)
  OBVIOUS
<1>4. k \in Nat /\ 1 <= k /\ k <= Len(s)
  BY <1>2
<1>5. /\ v \in Seq(Node) /\ Len(v) = Len(s) - 1
      /\ Elements(v) = Elements(s) \ {n}
      /\ \A i \in 0..Len(s) :
            PlaceAt(v, i) = IF i < k THEN PlaceAt(s, i) ELSE PlaceAt(s, i + 1)
  BY ZenonT(60), <1>1, <1>2, <1>3, RemovedPlaces
<1>6. /\ next' = [next EXCEPT ![prev[n]] = next[n], ![n] = Nowhere]
      /\ prev' = [prev EXCEPT ![next[n]] = prev[n], ![n] = Nowhere]
  BY <1>1 DEF Leaving, Unlinked
<1>7. IsRing(v, next', prev') /\ next[n] = PlaceAt(s, k + 1)
  <2>1. IsRing(s, next, prev)
    BY DEF ListInvOf
  <2>2. PICK nx, pv : nx = next /\ pv = prev
    OBVIOUS
  <2>3. /\ nx[n] = PlaceAt(s, k + 1)
        /\ IsRing(v, [nx EXCEPT ![pv[n]] = nx[n], ![n] = Nowhere],
                     [pv EXCEPT ![nx[n]] = pv[n], ![n] = Nowhere])
    BY <1>1, <1>3, <2>1, <2>2, RingWithout
  <2>4. QED
    BY <1>6, <2>2, <2>3
<1>8. begin' = PlaceAt(v, 1) /\ list_count' = Len(v)
  <2>1. 1 \in 0..Len(s) /\ 1 \in 1..Len(s)
    BY <1>2, <1>4
  <2>2. PlaceAt(v, 1) = IF 1 < k THEN PlaceAt(s, 1) ELSE PlaceAt(s, 1 + 1)
    BY <1>5, <2>1
  <2>3. begin = PlaceAt(s, 1) /\ PlaceAt(s, 1) = s[1]
    BY <2>1, EndsAre
  <2>4. s[k] = s[1] <=> k = 1
    BY <1>2, <2>1 DEF Distinct
  <2>5. begin' = IF n = begin THEN PlaceAt(s, k + 1) ELSE begin
    BY <1>1, <1>7 DEF Leaving
  <2>6. begin' = PlaceAt(v, 1)
    <3>1. CASE k = 1
      <4>1. n = begin /\ ~(1 < k)
        BY <1>1, <2>3, <3>1
      <4>2. QED
        BY <2>2, <2>5, <3>1, <4>1
    <3>2. CASE k # 1
      <4>1. n # begin /\ 1 < k
        BY <1>1, <1>4, <2>3, <2>4, <3>2
      <4>2. QED
        BY <2>2, <2>3, <2>5, <4>1
    <3>3. QED
      BY <3>1, <3>2
  <2>7. QED
    BY <1>5, <2>6 DEF Leaving, ListInvOf
<1>9. /\ prepared' \in [ListThread -> Node \cup {Nowhere}]
      /\ step' \in [ListThread -> {"idle"} \cup Pushing \cup Finding]
      /\ prepared'[t] = Nowhere /\ step'[t] = "idle"
      /\ \A u \in ListThread : u # t => prepared'[u] = prepared[u] /\ step'[u] = step[u]
  BY CompletedIs DEF ListInvOf
<1>10. use' = use /\ allocated' \subseteq allocated
  BY DEF Leaving
<1>11. \A u \in ListThread : u # t => step[u] \notin Finding
  <2>1. \A u \in ListThread : step[u] \in Finding => use = "alone" /\ MayUse(u) /\ MayUse(t)
    BY DEF ListInvOf, ThreadsInv, Finding, Pushing, Leaving
  <2>2. QED
    BY <2>1, OneAlone
<1>12. ThreadsInv(v)'
  <2>1. \A u \in ListThread : MayUse(u)' <=> MayUse(u)
    BY <1>10 DEF MayUse
  <2>2. Elements(v) \subseteq allocated'
    BY <1>1, <1>5 DEF ListInvOf, ThreadsInv
  <2>3. ASSUME NEW u \in ListThread
        PROVE  /\ step'[u] = "idle" => prepared'[u] = Nowhere
               /\ step'[u] # "idle" => MayUse(u)'
               /\ step'[u] \in Pushing => prepared'[u] \in allocated' /\ prepared'[u] \notin Elements(v)
               /\ step'[u] \notin Finding
    <3>1. CASE u = t
      BY <1>9, <3>1 DEF Pushing, Finding
    <3>2. CASE u # t
      <4>1. /\ step[u] = "idle" => prepared[u] = Nowhere
            /\ step[u] # "idle" => MayUse(u)
            /\ step[u] \in Pushing => prepared[u] \in allocated /\ prepared[u] \notin Elements(s)
        BY DEF ListInvOf, ThreadsInv
      <4>2. step[u] \in Pushing => prepared[u] \in allocated'
        BY <1>1, <1>2, <4>1
      <4>3. QED
        BY <1>5, <1>9, <1>11, <2>1, <3>2, <4>1, <4>2
    <3>3. QED
      BY <3>1, <3>2
  <2>4. \A u, w \in ListThread :
           step'[u] \in Pushing /\ step'[w] \in Pushing /\ prepared'[u] = prepared'[w] => u = w
    <3>1. "idle" \notin Pushing
      BY DEF Pushing
    <3>2. \A u, w \in ListThread :
             step[u] \in Pushing /\ step[w] \in Pushing /\ prepared[u] = prepared[w] => u = w
      BY DEF ListInvOf, ThreadsInv
    <3>3. QED
      BY <1>9, <3>1, <3>2
  <2>5. use' \in {"alone", "shared"} /\ allocated' \subseteq Node
    BY <1>10 DEF ListInvOf, ThreadsInv
  <2>6. QED
    BY <1>9, <2>2, <2>3, <2>4, <2>5 DEF ThreadsInv
<1>13. ListInvOf(v)'
  BY <1>7, <1>8, <1>12 DEF ListInvOf
<1>14. /\ \A x : x \in HeldBeside(s) <=> x \in allocated /\ x \notin Elements(s)
                                       /\ \A u \in ListThread : prepared[u] # x
       /\ \A x : x \in HeldBeside(v)' <=> x \in allocated' /\ x \notin Elements(v)
                                       /\ \A u \in ListThread : prepared'[u] # x
  BY DEF HeldBeside
<1>15. \A x \in allocated : x # Nowhere
  BY Places DEF ListInvOf, ThreadsInv
<1>16. prepared[t] \in {Nowhere, n}
  BY <1>1 DEF ListInvOf, ThreadsInv, Leaving
<1>17. \A u \in ListThread : prepared'[u] # n
  <2>1. ASSUME NEW u \in ListThread, u # t PROVE prepared[u] # n
    <3>1. step[u] \in {"idle"} \cup Pushing
      BY <1>11, <2>1 DEF ListInvOf, ThreadsInv
    <3>2. step[u] = "idle" => prepared[u] = Nowhere
      BY DEF ListInvOf, ThreadsInv
    <3>3. step[u] \in Pushing => prepared[u] \notin Elements(s)
      BY DEF ListInvOf, ThreadsInv
    <3>4. QED
      BY <1>2, <3>1, <3>2, <3>3, Places
  <2>2. QED
    BY <1>2, <1>9, <2>1, Places
<1>18. \A x : x # n /\ x # Nowhere =>
            ((\A u \in ListThread : prepared'[u] # x) <=> (\A u \in ListThread : prepared[u] # x))
  BY <1>9, <1>16
<1>19. n \in allocated
  BY <1>2 DEF ListInvOf, ThreadsInv
<1>20. n \notin Elements(v) /\ n \notin HeldBeside(s)
  BY <1>2, <1>5, <1>14
<1>21. ASSUME allocated' = allocated PROVE HeldBeside(v)' = HeldBeside(s) \cup {n}
  <2>1. \A x : x \in HeldBeside(v)' <=> x \in HeldBeside(s) \/ x = n
    <3>1. n \in HeldBeside(v)'
      BY <1>14, <1>17, <1>19, <1>20, <1>21
    <3>2. ASSUME NEW x, x # n PROVE x \in HeldBeside(v)' <=> x \in HeldBeside(s)
      <4>1. x \in Elements(v) <=> x \in Elements(s)
        BY <1>5, <3>2
      <4>2. QED
        BY <1>14, <1>15, <1>18, <1>21, <3>2, <4>1
    <3>3. QED
      BY <3>1, <3>2
  <2>2. QED
    BY <2>1
<1>22. ASSUME allocated' = allocated \ {n} PROVE HeldBeside(v)' = HeldBeside(s)
  <2>1. \A x : x \in HeldBeside(v)' <=> x \in HeldBeside(s)
    BY <1>5, <1>14, <1>15, <1>17, <1>18, <1>19, <1>20, <1>22
  <2>2. QED
    BY <2>1
<1>23. QED
  BY <1>1, <1>3, <1>13, <1>21, <1>22


-----------------------------------------------------------------------------
(* Each operation as a step of the deque.                                     *)
DequeStep == [Ring!Next]_(Ring!vars) /\ InWalk' \subseteq allocated'

LEMMA Before ==
    ASSUME NEW s, ListInvOf(s)
    PROVE  /\ Walk = s /\ InWalk = Elements(s)
           /\ allocated \ (InWalk \cup {prepared[t] : t \in ListThread}) = HeldBeside(s)
  BY InvWalk DEF HeldBeside

SeenAsIs == \A v : ListInvOf(v) =>
    /\ Walk = v /\ InWalk = Elements(v) /\ InWalk \subseteq allocated
    /\ allocated \ (InWalk \cup {prepared[t] : t \in ListThread}) = HeldBeside(v)

LEMMA InvSeen == SeenAsIs
  BY InvWalk DEF SeenAsIs, HeldBeside, ListInvOf, ThreadsInv

LEMMA AfterThat ==
    ASSUME NEW v, ListInvOf(v)'
    PROVE  /\ Walk' = v /\ InWalk' = Elements(v) /\ InWalk' \subseteq allocated'
           /\ allocated' \ (InWalk' \cup {prepared'[t] : t \in ListThread}) = HeldBeside(v)'
<1>1. SeenAsIs'
  BY InvSeen, PTL
<1>2. QED
  BY <1>1 DEF SeenAsIs

(* A step that leaves the list, and what is held, is not seen.                 *)
LEMMA NotSeen ==
    ASSUME NEW s, ListInvOf(s), ListInvOf(s)', HeldBeside(s)' = HeldBeside(s), last' = last
    PROVE  DequeStep
  BY Before, AfterThat DEF DequeStep, Ring!vars

(* A node that enters or leaves the ring does so in the deque.              *)
LEMMA EnteringIsStep ==
    ASSUME NEW s, ListInvOf(s), NEW t \in ListThread, step[t] \in Pushing,
           NEW k \in 0..Len(s), Entering(t, s, k), NEW l, Completed(t, l),
           \/ k = Len(s) /\ l = [op |-> "push_back", node |-> prepared[t]]
           \/ l = [op |-> "insert", node |-> prepared[t], after |-> PlaceAt(s, k)]
    PROVE  DequeStep /\ \E v : ListInvOf(v)'
<1>1. PICK n \in Node : \E v :
              /\ n = prepared[t] /\ n \notin Elements(s) \cup HeldBeside(s)
              /\ v = Inserted(s, k, n) /\ ListInvOf(v)' /\ HeldBeside(v)' = HeldBeside(s)
  BY EnteringKeeps
<1>2. PICK v :
              /\ n = prepared[t] /\ n \notin Elements(s) \cup HeldBeside(s)
              /\ v = Inserted(s, k, n) /\ ListInvOf(v)' /\ HeldBeside(v)' = HeldBeside(s)
  BY <1>1
<1>3. /\ Walk = s /\ InWalk = Elements(s)
      /\ allocated \ (InWalk \cup {prepared[u] : u \in ListThread}) = HeldBeside(s)
  BY Before
<1>4. /\ Walk' = v /\ InWalk' = Elements(v) /\ InWalk' \subseteq allocated'
      /\ allocated' \ (InWalk' \cup {prepared'[u] : u \in ListThread}) = HeldBeside(v)'
  BY <1>2, AfterThat
<1>5. Ring!InList = Elements(s)
  BY <1>3 DEF Ring!InList, Elements
<1>6. v = SubSeq(s, 1, k) \o <<n>> \o SubSeq(s, k + 1, Len(s))
  BY <1>2 DEF Inserted
<1>7. Ring!Enter(n, k)
  BY <1>2, <1>3, <1>4, <1>5, <1>6 DEF Ring!Enter
<1>8. last' = l
  BY DEF Completed
<1>9. CASE k = Len(s) /\ l = [op |-> "push_back", node |-> prepared[t]]
  <2>1. Ring!PushBack(n)
    BY <1>2, <1>3, <1>7, <1>8, <1>9 DEF Ring!PushBack
  <2>2. QED
    BY <1>2, <1>4, <2>1 DEF DequeStep, Ring!Next
<1>10. CASE l = [op |-> "insert", node |-> prepared[t], after |-> PlaceAt(s, k)]
  <2>1. CASE k = 0
    <3>1. PlaceAt(s, k) = HeadNode
      BY <2>1, EndsAre
    <3>2. Ring!InsertAfter(n, HeadNode)
      BY <1>2, <1>7, <1>8, <1>10, <2>1, <3>1 DEF Ring!InsertAfter
    <3>3. QED
      BY <1>2, <1>4, <3>2 DEF DequeStep, Ring!Next
  <2>2. CASE k # 0
    <3>1. k \in 1..Len(s) /\ k \in DOMAIN s
      BY <2>2, EndsAre
    <3>2. PlaceAt(s, k) = s[k] /\ s[k] \in Node
      BY <3>1, EndsAre
    <3>3. Ring!InsertAfter(n, s[k])
      BY <1>2, <1>3, <1>7, <1>8, <1>10, <3>1, <3>2 DEF Ring!InsertAfter
    <3>4. QED
      BY <1>2, <1>4, <3>2, <3>3 DEF DequeStep, Ring!Next
  <2>3. QED
    BY <2>1, <2>2
<1>11. QED
  BY <1>9, <1>10

LEMMA LeavingIsStep ==
    ASSUME NEW s, ListInvOf(s), NEW t \in ListThread, NEW k \in 1..Len(s), Leaving(t, s, k),
           NEW op, Completed(t, [op |-> op, node |-> s[k]]),
           op = "detach_front" => k = 1,
           op \in {"detach_back", "pop_back"} => k = Len(s),
           \/ op \in {"detach_front", "detach_back", "detach"} /\ allocated' = allocated
           \/ op \in {"pop_back", "delete"} /\ allocated' = allocated \ {s[k]}
    PROVE  DequeStep /\ \E v : ListInvOf(v)'
<1>1. PICK v : v = Removed(s, k)
  OBVIOUS
<1>2. /\ ListInvOf(v)'
      /\ allocated' = allocated => HeldBeside(v)' = HeldBeside(s) \cup {s[k]}
      /\ allocated' = allocated \ {s[k]} => HeldBeside(v)' = HeldBeside(s)
  BY <1>1, LeavingKeeps
<1>3. /\ Walk = s /\ InWalk = Elements(s)
      /\ allocated \ (InWalk \cup {prepared[u] : u \in ListThread}) = HeldBeside(s)
  BY Before
<1>4. /\ Walk' = v /\ InWalk' = Elements(v) /\ InWalk' \subseteq allocated'
      /\ allocated' \ (InWalk' \cup {prepared'[u] : u \in ListThread}) = HeldBeside(v)'
  BY <1>2, AfterThat
<1>5. v = Ring!Without(k)
  BY <1>1, <1>3 DEF Ring!Without, Removed
<1>6. last' = [op |-> op, node |-> s[k]]
  BY DEF Completed
<1>7. k \in Ring!Place(op)
  <2>1. k \in DOMAIN s
    BY EndsAre
  <2>2. QED
    BY <1>3, <2>1 DEF Ring!Place
<1>8. CASE op \in {"detach_front", "detach_back", "detach"} /\ allocated' = allocated
  <2>1. Ring!Detach(op)
    BY <1>2, <1>3, <1>4, <1>5, <1>6, <1>7, <1>8 DEF Ring!Detach
  <2>2. QED
    BY <1>2, <1>4, <1>8, <2>1 DEF DequeStep, Ring!Next
<1>9. CASE op \in {"pop_back", "delete"} /\ allocated' = allocated \ {s[k]}
  <2>1. Ring!Remove(op)
    BY <1>2, <1>3, <1>4, <1>5, <1>6, <1>7, <1>9 DEF Ring!Remove
  <2>2. QED
    BY <1>2, <1>4, <1>9, <2>1 DEF DequeStep, Ring!Next
<1>10. QED
  BY <1>8, <1>9


LEMMA AllocateStep ==
    ASSUME NEW s, ListInvOf(s), NEW t \in ListThread, NEW op \in Pushing, Allocate(t, op)
    PROVE  DequeStep /\ ListInvOf(s)'
<1>1. PICK n \in Node \ allocated : /\ allocated' = allocated \cup {n}
                                    /\ prepared' = [prepared EXCEPT ![t] = n]
  BY DEF Allocate
<1>2. /\ MayUse(t) /\ step[t] = "idle" /\ step' = [step EXCEPT ![t] = op]
      /\ use' = use /\ next' = next /\ prev' = prev /\ begin' = begin
      /\ list_count' = list_count /\ last' = last
  BY DEF Allocate, links
<1>3. /\ prepared \in [ListThread -> Node \cup {Nowhere}] /\ prepared[t] = Nowhere
      /\ step \in [ListThread -> {"idle"} \cup Pushing \cup Finding]
      /\ allocated \subseteq Node /\ Elements(s) \subseteq allocated
  BY <1>2 DEF ListInvOf, ThreadsInv
<1>4. /\ prepared'[t] = n /\ step'[t] = op
      /\ \A u \in ListThread : u # t => prepared'[u] = prepared[u] /\ step'[u] = step[u]
  BY <1>1, <1>2, <1>3
<1>5. \A u \in ListThread : u # t => step[u] \notin Finding
  <2>1. \A u \in ListThread : step[u] \in Finding => use = "alone" /\ MayUse(u) /\ MayUse(t)
    BY <1>2 DEF ListInvOf, ThreadsInv, Finding, Pushing
  <2>2. QED
    BY <2>1, OneAlone
<1>6. ThreadsInv(s)'
  <2>1. \A u \in ListThread : MayUse(u)' <=> MayUse(u)
    BY <1>2 DEF MayUse
  <2>2. ASSUME NEW u \in ListThread
        PROVE  /\ step'[u] = "idle" => prepared'[u] = Nowhere
               /\ step'[u] # "idle" => MayUse(u)'
               /\ step'[u] \in Pushing => prepared'[u] \in allocated' /\ prepared'[u] \notin Elements(s)
               /\ step'[u] \notin Finding
    <3>1. CASE u = t
      BY <1>1, <1>2, <1>3, <1>4, <2>1, <3>1 DEF Pushing, Finding
    <3>2. CASE u # t
      <4>1. /\ step[u] = "idle" => prepared[u] = Nowhere
            /\ step[u] # "idle" => MayUse(u)
            /\ step[u] \in Pushing => prepared[u] \in allocated /\ prepared[u] \notin Elements(s)
        BY DEF ListInvOf, ThreadsInv
      <4>2. QED
        BY <1>1, <1>4, <1>5, <2>1, <3>2, <4>1
    <3>3. QED
      BY <3>1, <3>2
  <2>3. \A u, w \in ListThread :
           step'[u] \in Pushing /\ step'[w] \in Pushing /\ prepared'[u] = prepared'[w] => u = w
    <3>1. \A u \in ListThread : u # t /\ step[u] \in Pushing => prepared[u] # n
      BY <1>1 DEF ListInvOf, ThreadsInv
    <3>2. \A u, w \in ListThread :
             step[u] \in Pushing /\ step[w] \in Pushing /\ prepared[u] = prepared[w] => u = w
      BY DEF ListInvOf, ThreadsInv
    <3>3. QED
      BY <1>4, <3>1, <3>2
  <2>4. /\ prepared' \in [ListThread -> Node \cup {Nowhere}]
        /\ step' \in [ListThread -> {"idle"} \cup Pushing \cup Finding]
        /\ allocated' \subseteq Node /\ Elements(s) \subseteq allocated'
        /\ use' \in {"alone", "shared"}
    BY <1>1, <1>2, <1>3 DEF ListInvOf, ThreadsInv
  <2>5. QED
    BY <2>2, <2>3, <2>4 DEF ThreadsInv
<1>7. ListInvOf(s)'
  BY <1>2, <1>6 DEF ListInvOf
<1>8. HeldBeside(s)' = HeldBeside(s)
  <2>1. /\ \A x : x \in HeldBeside(s) <=> x \in allocated /\ x \notin Elements(s)
                                         /\ \A u \in ListThread : prepared[u] # x
        /\ \A x : x \in HeldBeside(s)' <=> x \in allocated' /\ x \notin Elements(s)
                                         /\ \A u \in ListThread : prepared'[u] # x
    BY DEF HeldBeside
  <2>2. n \notin HeldBeside(s) /\ n \notin HeldBeside(s)'
    BY <1>1, <1>4, <2>1
  <2>3. \A x \in allocated : x # Nowhere /\ x # n
    BY <1>1, <1>3, Places
  <2>4. \A x \in allocated : (\A u \in ListThread : prepared'[u] # x)
                             <=> (\A u \in ListThread : prepared[u] # x)
    BY <1>3, <1>4, <2>3
  <2>5. \A x : x \in HeldBeside(s)' <=> x \in HeldBeside(s)
    BY <1>1, <2>1, <2>2, <2>4
  <2>6. QED
    BY <2>5
<1>9. QED
  BY <1>2, <1>7, <1>8, NotSeen

(* A thread that takes what it finds at an end takes the deque's end.       *)
LEMMA FindStep ==
    ASSUME NEW s, ListInvOf(s), NEW t \in ListThread, NEW op \in Finding, FindBack(t, op)
    PROVE  DequeStep /\ ListInvOf(s)'
<1>1. /\ use = "alone" /\ MayUse(t) /\ step[t] = "idle" /\ begin # HeadNode
      /\ step' = [step EXCEPT ![t] = op] /\ prepared' = [prepared EXCEPT ![t] = prev[HeadNode]]
      /\ use' = use /\ next' = next /\ prev' = prev /\ begin' = begin
      /\ list_count' = list_count /\ last' = last /\ allocated' = allocated
  BY DEF FindBack, links
<1>2. /\ Len(s) > 0 /\ Len(s) \in 1..Len(s) /\ prev[HeadNode] = s[Len(s)]
      /\ s[Len(s)] \in Node /\ s[Len(s)] \in Elements(s)
  <2>1. Len(s) \in Nat /\ Len(s) # 0 /\ DOMAIN s = 1..Len(s)
    BY <1>1, EndsAre
  <2>2. Len(s) > 0 /\ Len(s) \in 1..Len(s)
    BY <2>1
  <2>3. QED
    BY <2>1, <2>2, EndsAre DEF Elements
<1>3. /\ prepared \in [ListThread -> Node \cup {Nowhere}] /\ prepared[t] = Nowhere
      /\ step \in [ListThread -> {"idle"} \cup Pushing \cup Finding]
      /\ allocated \subseteq Node /\ Elements(s) \subseteq allocated
  BY <1>1 DEF ListInvOf, ThreadsInv
<1>4. /\ prepared'[t] = s[Len(s)] /\ step'[t] = op
      /\ \A u \in ListThread : u # t => prepared'[u] = prepared[u] /\ step'[u] = step[u]
  BY <1>1, <1>2, <1>3
<1>5. \A u \in ListThread : u # t => step[u] = "idle"
  <2>1. \A u \in ListThread : step[u] # "idle" => use = "alone" /\ MayUse(u) /\ MayUse(t)
    BY <1>1 DEF ListInvOf, ThreadsInv
  <2>2. QED
    BY <2>1, OneAlone
<1>6. ThreadsInv(s)'
  <2>1. \A u \in ListThread : MayUse(u)' <=> MayUse(u)
    BY <1>1 DEF MayUse
  <2>2. ASSUME NEW u \in ListThread
        PROVE  /\ step'[u] = "idle" => prepared'[u] = Nowhere
               /\ step'[u] # "idle" => MayUse(u)'
               /\ step'[u] \notin Pushing
               /\ step'[u] \in Finding => use' = "alone" /\ Len(s) > 0 /\ prepared'[u] = s[Len(s)]
    <3>1. CASE u = t
      BY <1>1, <1>2, <1>4, <2>1, <3>1 DEF Pushing, Finding
    <3>2. CASE u # t
      <4>1. step'[u] = "idle" /\ prepared'[u] = Nowhere
        BY <1>4, <1>5, <3>2 DEF ListInvOf, ThreadsInv
      <4>2. QED
        BY <4>1 DEF Pushing, Finding
    <3>3. QED
      BY <3>1, <3>2
  <2>4. /\ prepared' \in [ListThread -> Node \cup {Nowhere}]
        /\ step' \in [ListThread -> {"idle"} \cup Pushing \cup Finding]
        /\ allocated' \subseteq Node /\ Elements(s) \subseteq allocated'
        /\ use' \in {"alone", "shared"}
    BY <1>1, <1>2, <1>3
  <2>5. QED
    BY <2>2, <2>4 DEF ThreadsInv
<1>7. ListInvOf(s)'
  BY <1>1, <1>6 DEF ListInvOf
<1>8. HeldBeside(s)' = HeldBeside(s)
  <2>1. /\ \A x : x \in HeldBeside(s) <=> x \in allocated /\ x \notin Elements(s)
                                         /\ \A u \in ListThread : prepared[u] # x
        /\ \A x : x \in HeldBeside(s)' <=> x \in allocated' /\ x \notin Elements(s)
                                         /\ \A u \in ListThread : prepared'[u] # x
    BY DEF HeldBeside
  <2>3. \A x \in allocated : x # Nowhere
    BY <1>3, Places
  <2>4. \A x \in allocated : x \notin Elements(s) =>
             ((\A u \in ListThread : prepared'[u] # x) <=> (\A u \in ListThread : prepared[u] # x))
    BY <1>2, <1>3, <1>4, <2>3
  <2>5. \A x : x \in HeldBeside(s)' <=> x \in HeldBeside(s)
    BY <1>1, <2>1, <2>4
  <2>6. QED
    BY <2>5
<1>9. QED
  BY <1>1, <1>7, <1>8, NotSeen

(* What a thread that is idle has completed leaves the others as they were.    *)
LEMMA IdleCompletes ==
    ASSUME NEW s, ListInvOf(s), NEW v, NEW t \in ListThread, step[t] = "idle",
           NEW l, Completed(t, l), use' = use,
           Elements(v) \subseteq Elements(s), v = s \/ (use = "alone" /\ MayUse(t)),
           allocated' \subseteq allocated, Elements(v) \subseteq allocated',
           \A u \in ListThread : step[u] \in Pushing => prepared[u] \in allocated'
    PROVE  ThreadsInv(v)' /\ \A u \in ListThread : prepared'[u] = prepared[u]
<1>1. /\ prepared' \in [ListThread -> Node \cup {Nowhere}]
      /\ step' \in [ListThread -> {"idle"} \cup Pushing \cup Finding]
      /\ prepared'[t] = Nowhere /\ step'[t] = "idle"
      /\ \A u \in ListThread : u # t => prepared'[u] = prepared[u] /\ step'[u] = step[u]
  BY CompletedIs DEF ListInvOf
<1>2. prepared[t] = Nowhere
  BY DEF ListInvOf, ThreadsInv
<1>3. \A u \in ListThread : prepared'[u] = prepared[u] /\ step'[u] = step[u]
  BY <1>1, <1>2
<1>4. \A u \in ListThread : MayUse(u)' <=> MayUse(u)
  BY DEF MayUse
<1>5. \A u \in ListThread : step[u] \in Finding => v = s
  <2>1. \A u \in ListThread : step[u] \in Finding => step[u] # "idle" /\ MayUse(u)
    BY DEF ListInvOf, ThreadsInv, Finding
  <2>2. QED
    BY <2>1, OneAlone
<1>6. ASSUME NEW u \in ListThread
      PROVE  /\ step'[u] = "idle" => prepared'[u] = Nowhere
             /\ step'[u] # "idle" => MayUse(u)'
             /\ step'[u] \in Pushing => prepared'[u] \in allocated' /\ prepared'[u] \notin Elements(v)
             /\ step'[u] \in Finding => use' = "alone" /\ Len(v) > 0 /\ prepared'[u] = v[Len(v)]
  <2>1. /\ step[u] = "idle" => prepared[u] = Nowhere
        /\ step[u] # "idle" => MayUse(u)
        /\ step[u] \in Pushing => prepared[u] \notin Elements(s)
        /\ step[u] \in Finding => use = "alone" /\ Len(s) > 0 /\ prepared[u] = s[Len(s)]
    BY DEF ListInvOf, ThreadsInv
  <2>2. QED
    BY <1>3, <1>4, <1>5, <2>1
<1>7. \A u, w \in ListThread :
         step'[u] \in Pushing /\ step'[w] \in Pushing /\ prepared'[u] = prepared'[w] => u = w
  BY <1>3 DEF ListInvOf, ThreadsInv
<1>8. use' \in {"alone", "shared"} /\ allocated' \subseteq Node
  BY DEF ListInvOf, ThreadsInv
<1>9. QED
  BY <1>1, <1>3, <1>6, <1>7, <1>8 DEF ThreadsInv

LEMMA EmptyStep ==
    ASSUME NEW s, ListInvOf(s), NEW t \in ListThread, DetachFrontOfEmpty(t)
    PROVE  DequeStep /\ ListInvOf(s)'
<1>1. /\ step[t] = "idle" /\ begin = HeadNode /\ Completed(t, [op |-> "empty"])
      /\ use' = use /\ next' = next /\ prev' = prev /\ begin' = begin
      /\ list_count' = list_count /\ allocated' = allocated
  BY DEF DetachFrontOfEmpty, links
<1>2. ThreadsInv(s)' /\ \A u \in ListThread : prepared'[u] = prepared[u]
  <2>1. /\ Elements(s) \subseteq allocated'
        /\ \A u \in ListThread : step[u] \in Pushing => prepared[u] \in allocated'
    BY <1>1 DEF ListInvOf, ThreadsInv
  <2>2. QED
    BY <1>1, <2>1, IdleCompletes
<1>3. ListInvOf(s)'
  BY <1>1, <1>2 DEF ListInvOf
<1>4. HeldBeside(s)' = HeldBeside(s)
  BY <1>1, <1>2 DEF HeldBeside
<1>5. s = << >>
  BY <1>1, EndsAre
<1>6. last' = [op |-> "empty"]
  BY <1>1 DEF Completed
<1>7. Ring!FindEmpty
  BY <1>3, <1>4, <1>5, <1>6, Before, AfterThat DEF Ring!FindEmpty
<1>8. QED
  BY <1>3, <1>7, AfterThat DEF DequeStep, Ring!Next

LEMMA FreeStep ==
    ASSUME NEW s, ListInvOf(s), NEW t \in ListThread, FreeDetached(t)
    PROVE  DequeStep /\ ListInvOf(s)'
<1>1. PICK x \in allocated \ {prepared[u] : u \in ListThread} :
          next[x] = Nowhere /\ allocated' = allocated \ {x} /\ Completed(t, [op |-> "free", node |-> x])
  BY DEF FreeDetached
<1>2. /\ step[t] = "idle"
      /\ use' = use /\ next' = next /\ prev' = prev /\ begin' = begin
      /\ list_count' = list_count
  BY DEF FreeDetached, links
<1>3. x \in Node /\ x \notin Elements(s)
  <2>1. x \in Node
    BY <1>1 DEF ListInvOf, ThreadsInv
  <2>2. QED
    BY <1>1, <2>1, LinkedIsIn DEF ListInvOf
<1>4. ThreadsInv(s)' /\ \A u \in ListThread : prepared'[u] = prepared[u]
  <2>1. /\ Elements(s) \subseteq allocated' /\ allocated' \subseteq allocated
        /\ \A u \in ListThread : step[u] \in Pushing => prepared[u] \in allocated'
    BY <1>1, <1>3 DEF ListInvOf, ThreadsInv
  <2>2. QED
    BY <1>1, <1>2, <2>1, IdleCompletes
<1>5. ListInvOf(s)'
  BY <1>2, <1>4 DEF ListInvOf
<1>6. x \in HeldBeside(s) /\ HeldBeside(s)' = HeldBeside(s) \ {x}
  BY <1>1, <1>3, <1>4 DEF HeldBeside
<1>7. last' = [op |-> "free", node |-> x]
  BY <1>1 DEF Completed
<1>8. Ring!Free(x)
  BY <1>5, <1>6, <1>7, Before, AfterThat DEF Ring!Free
<1>9. QED
  BY <1>3, <1>5, <1>8, AfterThat DEF DequeStep, Ring!Next

LEMMA EmptyRing ==
    ASSUME NEW nx, nx = [x \in Place |-> IF x = HeadNode THEN HeadNode ELSE Nowhere]
    PROVE  IsRing(<< >>, nx, nx) /\ PlaceAt(<< >>, 1) = HeadNode /\ Len(<< >>) = 0
           /\ Elements(<< >>) = {}
<1>1. << >> \in Seq(Node) /\ Len(<< >>) = 0 /\ DOMAIN << >> = {}
  OBVIOUS
<1>2. Elements(<< >>) = {} /\ Distinct(<< >>)
  BY <1>1 DEF Elements, Distinct
<1>3. \A i : PlaceAt(<< >>, i) = HeadNode
  BY <1>1 DEF PlaceAt
<1>4. \A x \in Node : x \in Place /\ x # HeadNode
  BY Places
<1>5. /\ nx \in [Place -> Place \cup {Nowhere}] /\ nx[HeadNode] = HeadNode
      /\ \A x \in Node : nx[x] = Nowhere
  BY <1>4, Places
<1>6. QED
  BY <1>1, <1>2, <1>3, <1>5 DEF IsRing

LEMMA DestroyStep ==
    ASSUME NEW s, ListInvOf(s), NEW t \in ListThread, Destroy(t)
    PROVE  DequeStep /\ ListInvOf(<< >>)'
<1>1. /\ use = "alone" /\ MayUse(t) /\ step[t] = "idle" /\ Completed(t, [op |-> "destroy"])
      /\ allocated' = allocated \ {Walk[k] : k \in DOMAIN Walk}
      /\ next' = [x \in Place |-> IF x = HeadNode THEN HeadNode ELSE Nowhere]
      /\ prev' = next' /\ begin' = HeadNode /\ list_count' = 0 /\ use' = use
  BY DEF Destroy
<1>2. allocated' = allocated \ Elements(s)
  BY <1>1, Before DEF InWalk
<1>3. PICK nx : nx = [x \in Place |-> IF x = HeadNode THEN HeadNode ELSE Nowhere]
  OBVIOUS
<1>4. IsRing(<< >>, nx, nx) /\ PlaceAt(<< >>, 1) = HeadNode /\ Len(<< >>) = 0
      /\ Elements(<< >>) = {}
  BY <1>3, EmptyRing
<1>5. ThreadsInv(<< >>)' /\ \A u \in ListThread : prepared'[u] = prepared[u]
  <2>1. /\ allocated' \subseteq allocated
        /\ Elements(<< >>) \subseteq allocated' /\ Elements(<< >>) \subseteq Elements(s)
        /\ \A u \in ListThread : step[u] \in Pushing => prepared[u] \in allocated'
    BY <1>2, <1>4 DEF ListInvOf, ThreadsInv
  <2>2. PICK v : v = << >>
    OBVIOUS
  <2>3. ThreadsInv(v)' /\ \A u \in ListThread : prepared'[u] = prepared[u]
    BY <1>1, <2>1, <2>2, IdleCompletes
  <2>4. QED
    BY <2>2, <2>3
<1>6. ListInvOf(<< >>)'
  BY <1>1, <1>3, <1>4, <1>5 DEF ListInvOf
<1>7. HeldBeside(<< >>)' = HeldBeside(s)
  BY <1>2, <1>4, <1>5 DEF HeldBeside
<1>8. last' = [op |-> "destroy"]
  BY <1>1 DEF Completed
<1>9. Ring!Clear
  BY <1>6, <1>7, <1>8, Before, AfterThat DEF Ring!Clear
<1>10. QED
  BY <1>6, <1>9, AfterThat DEF DequeStep, Ring!Next

ListInv == \E s : ListInvOf(s)

(* Every step keeps the invariant and is a step of the deque, or none.      *)
LEMMA ListNextCorrect ==
    ASSUME ListInv, ListNext
    PROVE  DequeStep /\ ListInv'
<1> PICK s : ListInvOf(s)
  BY DEF ListInv
<1> SUFFICES DequeStep /\ \E v : ListInvOf(v)'
  BY DEF ListInv
<1> PICK t \in ListThread :
        \/ \E op \in {"push_back", "push_front", "insert"} : Allocate(t, op)
        \/ PushBack(t) \/ PushFront(t) \/ Insert(t)
        \/ DetachFront(t) \/ DetachFrontOfEmpty(t) \/ Detach(t) \/ Delete(t)
        \/ \E op \in {"detach_back", "pop_back"} : FindBack(t, op)
        \/ DetachBack(t) \/ PopBack(t)
        \/ FreeDetached(t)
        \/ Destroy(t)
  BY DEF ListNext
<1>1. /\ s \in Seq(Node) /\ Len(s) \in Nat /\ DOMAIN s = 1..Len(s)
      /\ \A i \in 1..Len(s) : s[i] \in Node /\ PlaceAt(s, i) = s[i] /\ s[i] # HeadNode
      /\ PlaceAt(s, 0) = HeadNode /\ PlaceAt(s, Len(s) + 1) = HeadNode
      /\ next[HeadNode] = PlaceAt(s, 1) /\ prev[HeadNode] = PlaceAt(s, Len(s))
      /\ begin = PlaceAt(s, 1) /\ (begin = HeadNode <=> Len(s) = 0)
  BY EndsAre
<1>2. 0 \in 0..Len(s) /\ Len(s) \in 0..Len(s) /\ 0 + 1 = 1 /\ 1..Len(s) \subseteq 0..Len(s)
  BY <1>1
<1>3. /\ \A j \in 0..Len(s) : /\ next[PlaceAt(s, j)] = PlaceAt(s, j + 1)
                               /\ prev[PlaceAt(s, j + 1)] = PlaceAt(s, j)
      /\ next \in [Place -> Place \cup {Nowhere}]
      /\ \A i, j \in 0..Len(s) : PlaceAt(s, i) = PlaceAt(s, j) => i = j
      /\ list_count = Len(s)
  BY <1>1, PlacesDiffer DEF ListInvOf, IsRing
<1>4. CASE \E op \in {"push_back", "push_front", "insert"} : Allocate(t, op)
  BY <1>4, AllocateStep DEF Pushing
<1>5. CASE PushBack(t)
  <2>1. /\ step[t] \in Pushing /\ Completed(t, [op |-> "push_back", node |-> prepared[t]])
        /\ Linked(prepared[t], prev[HeadNode], HeadNode)
        /\ begin' = (IF begin = HeadNode THEN next'[HeadNode] ELSE begin)
        /\ list_count' = list_count + 1 /\ use' = use /\ allocated' = allocated
    BY <1>5 DEF PushBack, Pushing
  <2>2. next' = [next EXCEPT ![prepared[t]] = HeadNode, ![prev[HeadNode]] = prepared[t]]
    BY <2>1 DEF Linked
  <2>3. Len(s) = 0 => next'[HeadNode] = prepared[t]
    BY <1>1, <1>3, <2>2, Places
  <2>4. Entering(t, s, Len(s))
    BY <1>1, <2>1, <2>3 DEF Entering
  <2>5. PICK k, l : k = Len(s) /\ l = [op |-> "push_back", node |-> prepared[t]]
    OBVIOUS
  <2>6. QED
    BY <1>2, <2>1, <2>4, <2>5, EnteringIsStep
<1>6. ASSUME NEW x \in Place, next[x] # Nowhere, InsertAfter(t, x), step[t] \in Pushing
      PROVE  DequeStep /\ \E v : ListInvOf(v)'
  <2>1. PICK k \in 0..Len(s) : x = PlaceAt(s, k)
    <3>1. CASE x = HeadNode
      BY <1>1, <1>2, <3>1
    <3>2. CASE x # HeadNode
      <4>1. x \in Node
        BY <3>2 DEF Place
      <4>2. PICK k \in 1..Len(s) : x = s[k]
        BY <1>6, <4>1, PlaceOf
      <4>3. QED
        BY <1>1, <1>2, <4>2
    <3>3. QED
      BY <3>1, <3>2
  <2>2. next[x] = PlaceAt(s, k + 1) /\ (x = HeadNode <=> k = 0)
    BY <1>1, <1>2, <1>3, <2>1
  <2>3. Entering(t, s, k)
    BY <1>6, <2>1, <2>2 DEF InsertAfter, Entering
  <2>4. PICK l : l = [op |-> "insert", node |-> prepared[t], after |-> PlaceAt(s, k)]
    OBVIOUS
  <2>5. Completed(t, l)
    BY <1>6, <2>1, <2>4 DEF InsertAfter
  <2>6. QED
    BY <1>6, <2>3, <2>4, <2>5, EnteringIsStep
<1>7. CASE PushFront(t)
  <2>1. next[HeadNode] # Nowhere /\ HeadNode \in Place
    BY <1>1, PlacesAre, Places
  <2>2. InsertAfter(t, HeadNode) /\ step[t] \in Pushing
    BY <1>7 DEF PushFront, Pushing
  <2>3. QED
    BY <1>6, <2>1, <2>2
<1>8. CASE Insert(t)
  <2>1. step[t] \in Pushing
    BY <1>8 DEF Insert, Pushing
  <2>2. QED
    BY <1>6, <1>8, <2>1 DEF Insert
<1>9. ASSUME NEW op \in {"detach_front", "detach"}, NEW k \in 1..Len(s), DetachAt(t, op, s[k]),
             MayUse(t), step[t] = "idle", op = "detach_front" => k = 1
      PROVE  DequeStep /\ \E v : ListInvOf(v)'
  <2>1. /\ Unlinked(s[k]) /\ begin' = (IF s[k] = begin THEN next'[HeadNode] ELSE begin)
        /\ list_count' = list_count - 1 /\ Completed(t, [op |-> op, node |-> s[k]])
        /\ use' = use /\ allocated' = allocated
    BY <1>9 DEF DetachAt
  <2>2. s[k] = begin => next'[HeadNode] = next[s[k]]
    <3>1. SUFFICES ASSUME s[k] = begin PROVE next'[HeadNode] = next[s[k]]
      OBVIOUS
    <3>2. prev[s[k]] = HeadNode
      BY <1>1, <1>2, <1>3, <3>1
    <3>3. s[k] # HeadNode /\ HeadNode \in Place
      BY <1>1, Places
    <3>4. QED
      BY <1>3, <2>1, <3>2, <3>3 DEF Unlinked
  <2>3. Leaving(t, s, k)
    BY <1>9, <2>1, <2>2 DEF Leaving
  <2>4. QED
    BY <1>9, <2>1, <2>3, LeavingIsStep
<1>10. CASE DetachFront(t)
  <2>1. 1 \in 1..Len(s)
    BY <1>1, <1>10 DEF DetachFront
  <2>2. begin = s[1]
    BY <1>1, <2>1
  <2>3. PICK k : k = 1
    OBVIOUS
  <2>4. QED
    BY <1>9, <1>10, <2>1, <2>2, <2>3 DEF DetachFront
<1>11. CASE DetachFrontOfEmpty(t)
  BY <1>11, EmptyStep
<1>12. CASE Detach(t)
  <2>1. PICK x \in Node : next[x] # Nowhere /\ DetachAt(t, "detach", x)
    BY <1>12 DEF Detach
  <2>2. PICK k \in 1..Len(s) : x = s[k]
    BY <2>1, PlaceOf
  <2>3. QED
    BY <1>9, <1>12, <2>1, <2>2 DEF Detach
<1>13. CASE Delete(t)
  <2>1. PICK x \in Node : next[x] # Nowhere /\ DeleteAt(x) /\ Completed(t, [op |-> "delete", node |-> x])
    BY <1>13 DEF Delete
  <2>2. PICK k \in 1..Len(s) : x = s[k]
    BY <2>1, PlaceOf
  <2>3. Leaving(t, s, k) /\ allocated' = allocated \ {s[k]}
    BY <1>13, <2>1, <2>2 DEF Leaving, Delete, DeleteAt
  <2>4. PICK op : op = "delete"
    OBVIOUS
  <2>5. QED
    BY <2>1, <2>2, <2>3, <2>4, LeavingIsStep
<1>14. CASE \E op \in {"detach_back", "pop_back"} : FindBack(t, op)
  BY <1>14, FindStep DEF Finding
<1>15. ASSUME step[t] \in Finding, UnlinkBack, use' = use
       PROVE  /\ Len(s) \in 1..Len(s) /\ Leaving(t, s, Len(s)) /\ prepared[t] = s[Len(s)]
  <2>1. Len(s) > 0 /\ prepared[t] = s[Len(s)] /\ MayUse(t)
    BY <1>15 DEF ListInvOf, ThreadsInv, Finding
  <2>2. Len(s) \in 1..Len(s)
    BY <1>1, <2>1
  <2>3. prev[HeadNode] = s[Len(s)]
    BY <1>1, <2>2
  <2>4. list_count' = Len(s) - 1
    BY <1>3, <1>15 DEF UnlinkBack
  <2>5. begin' = IF s[Len(s)] = begin THEN next[s[Len(s)]] ELSE begin
    <3>1. begin' = IF Len(s) - 1 = 0 THEN HeadNode ELSE begin
      BY <1>15, <2>4 DEF UnlinkBack
    <3>2. CASE Len(s) = 1
      <4>1. s[Len(s)] = begin
        BY <1>1, <2>2, <3>2
      <4>2. next[s[Len(s)]] = HeadNode
        BY <1>1, <1>2, <1>3, <2>2
      <4>3. QED
        BY <3>1, <3>2, <4>1, <4>2
    <3>3. CASE Len(s) # 1
      <4>1. 1 \in 0..Len(s)
        BY <1>1, <2>1
      <4>2. s[Len(s)] # begin
        BY <1>1, <1>2, <1>3, <2>2, <3>3, <4>1
      <4>3. QED
        BY <1>1, <3>1, <3>3, <4>2
    <3>4. QED
      BY <3>2, <3>3
  <2>6. Leaving(t, s, Len(s))
    BY <1>15, <2>1, <2>3, <2>5 DEF Leaving, UnlinkBack
  <2>7. QED
    BY <2>1, <2>2, <2>6
<1>16. CASE DetachBack(t)
  <2>1. PICK op : op = "detach_back"
    OBVIOUS
  <2>2. PICK k : k = Len(s)
    OBVIOUS
  <2>3. /\ step[t] \in Finding /\ UnlinkBack /\ use' = use /\ allocated' = allocated
        /\ Completed(t, [op |-> op, node |-> prepared[t]])
    BY <1>16, <2>1 DEF DetachBack, Finding
  <2>4. k \in 1..Len(s) /\ Leaving(t, s, k) /\ prepared[t] = s[k]
    BY <1>15, <2>2, <2>3
  <2>5. QED
    BY <2>1, <2>2, <2>3, <2>4, LeavingIsStep
<1>17. CASE PopBack(t)
  <2>1. PICK op : op = "pop_back"
    OBVIOUS
  <2>2. PICK k : k = Len(s)
    OBVIOUS
  <2>3. /\ step[t] \in Finding /\ UnlinkBack /\ use' = use
        /\ allocated' = allocated \ {prepared[t]}
        /\ Completed(t, [op |-> op, node |-> prepared[t]])
    BY <1>17, <2>1 DEF PopBack, Finding
  <2>4. k \in 1..Len(s) /\ Leaving(t, s, k) /\ prepared[t] = s[k]
    BY <1>15, <2>2, <2>3
  <2>5. QED
    BY <2>1, <2>2, <2>3, <2>4, LeavingIsStep
<1>18. CASE FreeDetached(t)
  BY <1>18, FreeStep
<1>19. CASE Destroy(t)
  BY <1>19, DestroyStep
<1>20. QED
  BY <1>4, <1>5, <1>7, <1>8, <1>10, <1>11, <1>12, <1>13, <1>14, <1>16, <1>17, <1>18, <1>19

LEMMA ListStart == ListInit => ListInv /\ Ring!Init
<1> SUFFICES ASSUME ListInit PROVE ListInv /\ Ring!Init
  OBVIOUS
<1>1. next = [x \in Place |-> IF x = HeadNode THEN HeadNode ELSE Nowhere] /\ prev = next
  BY DEF ListInit
<1>2. /\ IsRing(<< >>, next, prev) /\ PlaceAt(<< >>, 1) = HeadNode /\ Len(<< >>) = 0
      /\ Elements(<< >>) = {}
  BY <1>1, EmptyRing
<1>3. ThreadsInv(<< >>)
  BY <1>2 DEF ListInit, ThreadsInv, Pushing, Finding
<1>4. PICK v : v = << >>
  OBVIOUS
<1>5. ListInvOf(v)
  BY <1>2, <1>3, <1>4 DEF ListInit, ListInvOf
<1>6. HeldBeside(v) = {}
  BY DEF ListInit, HeldBeside
<1>7. Ring!Init
  BY <1>4, <1>5, <1>6, Before DEF Ring!Init, ListInit
<1>8. QED
  BY <1>5, <1>7 DEF ListInv

LEMMA ListUnchanged ==
    ASSUME ListInv, UNCHANGED listVars
    PROVE  DequeStep /\ ListInv'
<1>1. PICK s : ListInvOf(s)
  BY DEF ListInv
<1>2. /\ use' = use /\ next' = next /\ prev' = prev /\ begin' = begin
      /\ list_count' = list_count /\ allocated' = allocated /\ prepared' = prepared
      /\ step' = step /\ last' = last
  BY DEF listVars, links
<1>3. ListInvOf(s)'
  BY <1>1, <1>2 DEF ListInvOf, ThreadsInv, MayUse
<1>4. HeldBeside(s)' = HeldBeside(s)
  BY <1>2 DEF HeldBeside
<1>5. QED
  BY <1>1, <1>2, <1>3, <1>4, NotSeen DEF ListInv

(* For any nodes, the list is a deque under every history of one thread     *)
(* that uses all the operations of link_list.c but llist_pop_front, and     *)
(* under every interleaving of any number of threads that use those the     *)
(* queues of concurrent.c use and llist_push_front: its links remain a      *)
(* ring, begin its first node or the head, and what is done with a node     *)
(* before the lock is taken, or after it is released, is no step of the     *)
(* deque or one that no other thread can disturb.                           *)
THEOREM ListCorrect == ListSpec => ListIsDeque
<1>1. ListInit => ListInv /\ Ring!Init
  BY ListStart
<1>2. ListInv /\ [ListNext]_listVars => ListInv' /\ DequeStep
  BY ListNextCorrect, ListUnchanged
<1>3. DequeStep => [Ring!Next]_(Ring!vars) /\ [InWalk' \subseteq allocated']_listVars
  BY DEF DequeStep
<1>4. QED
  BY <1>1, <1>2, <1>3, PTL DEF ListSpec, ListIsDeque, Ring!Spec

-----------------------------------------------------------------------------
(***************************************************************************)
(* CtrAlloc.                                                               *)
(***************************************************************************)
USE CtrAllocAssumption DEF CtrAllocAssumption

(* A pool with room is found if there is one: the newest.                    *)
LEMMA LatestFit ==
    ASSUME NEW n, Fitting(n) # {}, pool \subseteq 1..pools, pools \in Nat
    PROVE  \E p \in Fitting(n) : \A q \in Fitting(n) : q <= p
<1> DEFINE T == {pools - p : p \in Fitting(n)}
<1>1. T \in SUBSET Nat /\ T # {}
  <2>1. \A p \in Fitting(n) : p \in 1..pools
    BY DEF Fitting
  <2>2. \A p \in Fitting(n) : pools - p \in Nat
    BY <2>1
  <2>3. QED
    BY <2>2
<1>2. PICK x \in T : \A y \in T : x <= y
  <2> HIDE DEF T
  <2>1. QED
    BY <1>1, LeastNatural
<1>3. PICK p \in Fitting(n) : x = pools - p
  BY <1>2
<1>4. \A q \in Fitting(n) : pools - p <= pools - q
  BY <1>2, <1>3
<1>5. QED
  BY <1>3, <1>4 DEF Fitting

(* The size class of a request that is not sent to malloc exists, and its    *)
(* slabs are large enough.                                                   *)
LEMMA IndexIsClass ==
    ASSUME NEW n \in Asked, ~IsHuge(n), \A i \in Class : ClassSize(i) \in Nat
    PROVE  Index(n) \in Class /\ n <= RealSize(n) /\ RealSize(n) \in Nat
<1> DEFINE T == {i \in Class : n <= ClassSize(i)}
<1> USE DEF Class
<1>1. T # {}
  <2>1. CASE \E i \in Class : n <= ClassSize(i)
    BY <2>1
  <2>2. CASE ~(\E i \in Class : n <= ClassSize(i))
    BY <2>2 DEF IsHuge, Index
  <2>3. QED
    BY <2>1, <2>2
<1>2. PICK x \in T : \A y \in T : x <= y
  <2>1. T \in SUBSET Nat
    OBVIOUS
  <2> HIDE DEF T
  <2>2. QED
    BY <1>1, <2>1, LeastNatural
<1>3. \A j \in 0..(x - 1) : n > ClassSize(j)
  BY <1>2
<1>4. \E i \in Class : n <= ClassSize(i) /\ \A j \in 0..(i - 1) : n > ClassSize(j)
  BY <1>2, <1>3
<1>5. Index(n) \in Class /\ n <= ClassSize(Index(n))
  BY <1>1, <1>4 DEF Index
<1>6. QED
  BY <1>5 DEF RealSize

(* What __init must give: every class fits into a new pool, header included. *)
(* The default capacity, twice the largest class, does if the header is no   *)
(* larger than the largest class.  (That a class is a natural, and not less  *)
(* than the smallest one, is so for all powers of 2, of which the provers    *)
(* know nothing.)                                                            *)
ClassesFit ==
    /\ Capacity \in Nat
    /\ \A i \in Class : ClassSize(i) \in Nat /\ ClassSize(i) + SlabHeader <= Capacity
    /\ \A i \in Class : DataMinSize <= ClassSize(i)

(* At first there is one untouched pool and no slab.                         *)
LEMMA InitInv ==
    ASSUME ClassesFit
    PROVE  Init => AllocInv
<1> SUFFICES ASSUME Init PROVE AllocInv
  OBVIOUS
<1>1. PoolsTyped
  BY DEF Init, PoolsTyped, ClassesFit
<1>2. DepthNotNegative
  BY DEF Init, DepthNotNegative, ClassesFit
<1>3. SlabsBelowDepth /\ SlabsApart
  BY DEF Init, SlabsBelowDepth, SlabsApart
<1>4. QED
  BY <1>1, <1>2, <1>3 DEF AllocInv

(* Steps that leave the pools, what was carved and the slabs' sizes alone.   *)
LEMMA SameSlabs ==
    ASSUME AllocInv,
           UNCHANGED <<pools, depth>>, pool' \subseteq pool,
           DOMAIN slab' = DOMAIN slab,
           \A a \in DOMAIN slab : slab'[a] \in Slab /\ slab'[a].size = slab[a].size
    PROVE  AllocInv'
<1> USE DEF AllocInv
<1>1. PoolsTyped'
  BY DEF PoolsTyped
<1>2. DepthNotNegative'
  BY DEF DepthNotNegative
<1>3. \A a \in DOMAIN slab : SlabEnd(a)' = SlabEnd(a)
  BY DEF SlabEnd
<1>4. SlabsBelowDepth'
  BY <1>3 DEF SlabsBelowDepth
<1>5. SlabsApart'
  BY <1>3 DEF SlabsApart
<1>6. QED
  BY <1>1, <1>2, <1>4, <1>5

(* Taking w bytes from pool p leaves the others alone and p not below zero.   *)
LEMMA Drawn ==
    ASSUME NEW N \in Nat, NEW d \in [1..N -> Int], NEW p \in 1..N,
           NEW w \in Nat, w <= d[p], \A q \in 1..N : 0 <= d[q],
           NEW e, e = [d EXCEPT ![p] = d[p] - w]
    PROVE  /\ e \in [1..N -> Int]
           /\ e[p] = d[p] - w
           /\ \A q \in 1..N : q # p => e[q] = d[q]
           /\ \A q \in 1..N : 0 <= e[q] /\ e[q] <= d[q]
<1>1. e[p] = d[p] - w /\ e[p] \in Int /\ 0 <= e[p] /\ e[p] <= d[p]
  OBVIOUS
<1>2. \A q \in 1..N : q # p => e[q] = d[q]
  OBVIOUS
<1>3. \A q \in 1..N : 0 <= e[q] /\ e[q] <= d[q]
  <2> TAKE q \in 1..N
  <2>1. CASE q = p
    BY <1>1, <2>1
  <2>2. CASE q # p
    <3>1. e[q] = d[q] /\ d[q] \in Int /\ 0 <= d[q]
      BY <1>2, <2>2
    <3>2. QED
      BY <3>1
  <2>3. QED
    BY <2>1, <2>2
<1>4. e \in [1..N -> Int]
  OBVIOUS
<1>5. QED
  BY <1>1, <1>2, <1>3, <1>4

(* A slab carved from a pool that has the bytes for it begins where the      *)
(* others of the pool end.                                                   *)
LEMMA CarveKeepsInv ==
    ASSUME ClassesFit, AllocInv,
           NEW n \in Asked, ~IsHuge(n),
           NEW p \in 1..MaxPools, Carve(p, n),
           depth[p] >= SlabSize(n),
           pools' \in 1..MaxPools, pools' >= pools, p <= pools',
           \A q \in 1..MaxPools : q > pools' => depth[q] = Capacity,
           pool' \subseteq 1..pools'
    PROVE  AllocInv'
<1>0. PoolsTyped /\ DepthNotNegative /\ SlabsBelowDepth /\ SlabsApart
  BY DEF AllocInv
<1>a. PICK a : a = <<p, Capacity - depth[p]>>
  OBVIOUS
<1>b. PICK d : d = depth
  OBVIOUS
<1>c. PICK e : e = depth'
  OBVIOUS
<1>s. PICK w : w = SlabSize(n)
  OBVIOUS
<1>1. RealSize(n) \in Nat /\ w = RealSize(n) + SlabHeader /\ w \in Nat
  BY <1>s, IndexIsClass DEF ClassesFit, SlabSize
<1>2. /\ d \in [1..MaxPools -> Int] /\ Capacity \in Nat
      /\ d[p] \in Int /\ w <= d[p] /\ d[p] <= Capacity
      /\ \A q \in 1..MaxPools : 0 <= d[q] /\ d[q] <= Capacity
  <2>1. depth \in [1..MaxPools -> Int] /\ Capacity \in Nat
    BY <1>0 DEF PoolsTyped, ClassesFit
  <2>2. \A q \in 1..MaxPools : 0 <= d[q] /\ d[q] <= Capacity
    BY <1>0, <1>b, <2>1 DEF PoolsTyped, DepthNotNegative
  <2>3. d[p] \in Int /\ w <= d[p]
    BY <1>b, <1>s, <1>1, <2>1
  <2>4. QED
    BY <1>b, <2>1, <2>2, <2>3
<1>3. e = [d EXCEPT ![p] = d[p] - w]
  BY <1>b, <1>c, <1>s DEF Carve, CarveBytes
<1>4. slab' = [b \in DOMAIN slab \cup {a} |->
                 IF b = a THEN [size |-> RealSize(n), stat_flag |-> 1] ELSE slab[b]]
  BY <1>a DEF Carve, CarveBytes
<1>5. a \in (1..pools') \X Nat /\ a[1] = p /\ a[2] = Capacity - d[p] /\ a[2] \in Nat
  <2>1. a = <<p, Capacity - d[p]>> /\ Capacity - d[p] \in Nat
    BY <1>a, <1>b, <1>2
  <2>2. p \in 1..pools'
    OBVIOUS
  <2>3. QED
    BY <2>1, <2>2
<1>6. /\ e \in [1..MaxPools -> Int]
      /\ e[p] = d[p] - w
      /\ \A q \in 1..MaxPools : q # p => e[q] = d[q]
      /\ \A q \in 1..MaxPools : 0 <= e[q] /\ e[q] <= d[q]
  <2>1. MaxPools \in Nat
    OBVIOUS
  <2>2. QED
    BY ZenonT(60), <1>1, <1>2, <1>3, <2>1, Drawn
<1>7. PoolsTyped'
  <2>1. \A q \in 1..MaxPools : e[q] <= Capacity
    BY SMTT(60), <1>2, <1>6
  <2>2. \A q \in 1..MaxPools : q > pools' => e[q] = Capacity
    <3> TAKE q \in 1..MaxPools
    <3> HAVE q > pools'
    <3>1. q # p /\ d[q] = Capacity
      BY <1>b
    <3>2. QED
      BY <1>6, <3>1
  <2>3. QED
    BY <1>c, <1>6, <2>1, <2>2 DEF PoolsTyped
<1>8. DepthNotNegative'
  BY <1>c, <1>6 DEF DepthNotNegative
<1>12. ASSUME NEW b \in DOMAIN slab
       PROVE  /\ b \in (1..pools) \X Nat /\ b[1] \in 1..MaxPools /\ b[2] \in Nat
              /\ slab[b] \in Slab /\ slab[b].size \in Nat
              /\ SlabEnd(b) = b[2] + slab[b].size + SlabHeader /\ SlabEnd(b) \in Nat
              /\ SlabEnd(b) <= Capacity - d[b[1]]
  <2>1. b \in (1..pools) \X Nat /\ slab[b] \in Slab /\ SlabEnd(b) <= Capacity - d[b[1]]
    BY <1>0, <1>b DEF SlabsBelowDepth
  <2>2. b[1] \in 1..pools /\ b[2] \in Nat /\ slab[b].size \in Nat
    BY <2>1 DEF Slab
  <2>3. pools \in 1..MaxPools
    BY <1>0 DEF PoolsTyped
  <2>4. b[1] \in 1..MaxPools
    BY <2>2, <2>3
  <2>5. SlabEnd(b) = b[2] + slab[b].size + SlabHeader
    BY DEF SlabEnd
  <2>6. QED
    BY <2>1, <2>2, <2>4, <2>5
<1>9. a \notin DOMAIN slab
  <2> SUFFICES ASSUME a \in DOMAIN slab PROVE FALSE
    OBVIOUS
  <2>1. a[2] + slab[a].size + SlabHeader <= Capacity - d[p] /\ slab[a].size \in Nat
    BY <1>5, <1>12
  <2>2. a[2] = Capacity - d[p] /\ a[2] \in Nat /\ SlabHeader > 0 /\ SlabHeader \in Nat
    BY <1>5
  <2>3. \A x, y, h \in Nat : ~(h > 0 /\ x + y + h <= x)
    OBVIOUS
  <2>4. QED
    BY <2>1, <2>2, <2>3
<1>10. /\ DOMAIN slab' = DOMAIN slab \cup {a}
       /\ slab'[a] = [size |-> RealSize(n), stat_flag |-> 1]
       /\ slab'[a].size = RealSize(n)
       /\ \A b \in DOMAIN slab : slab'[b] = slab[b]
  BY <1>4, <1>9
<1>11. /\ SlabEnd(a)' = Capacity - e[p]
       /\ \A b \in DOMAIN slab : SlabEnd(b)' = SlabEnd(b)
  <2>1. SlabEnd(a)' = a[2] + RealSize(n) + SlabHeader
    BY <1>10 DEF SlabEnd
  <2>2. SlabEnd(a)' = Capacity - e[p]
    <3>1. /\ a[2] = Capacity - d[p] /\ e[p] = d[p] - (RealSize(n) + SlabHeader)
          /\ d[p] \in Int /\ Capacity \in Nat /\ RealSize(n) \in Nat /\ SlabHeader \in Nat
      BY <1>1, <1>2, <1>5, <1>6
    <3>2. \A x, r, h, c \in Int : (c - x) + r + h = c - (x - (r + h))
      OBVIOUS
    <3>3. a[2] + RealSize(n) + SlabHeader = Capacity - e[p]
      BY <3>1, <3>2
    <3>4. QED
      BY <2>1, <3>3
  <2>3. \A b \in DOMAIN slab : SlabEnd(b)' = SlabEnd(b)
    BY <1>10 DEF SlabEnd
  <2>4. QED
    BY <2>2, <2>3
<1>10a. slab'[a] \in Slab /\ \A b \in DOMAIN slab : slab'[b] \in Slab
  <2>1. slab'[a] \in Slab
    BY <1>1, <1>10 DEF Slab
  <2>2. QED
    BY <1>10, <1>12, <2>1
<1>13. SlabsBelowDepth'
  <2>1. \A b \in DOMAIN slab : b \in (1..pools') \X Nat
    <3> TAKE b \in DOMAIN slab
    <3>1. b \in (1..pools) \X Nat /\ pools \in Nat /\ pools' \in Nat
      BY <1>0, <1>12 DEF PoolsTyped
    <3>2. \A r \in 1..pools : r \in 1..pools'
      BY <3>1
    <3>3. QED
      BY <3>1, <3>2
  <2>2. \A b \in DOMAIN slab : SlabEnd(b) <= Capacity - e[b[1]]
    <3> TAKE b \in DOMAIN slab
    <3>1. b[1] \in 1..MaxPools /\ SlabEnd(b) \in Nat /\ SlabEnd(b) <= Capacity - d[b[1]]
      BY <1>12
    <3>2. e[b[1]] <= d[b[1]] /\ d[b[1]] \in Int /\ e[b[1]] \in Int
      BY <1>2, <1>6, <3>1
    <3>3. Capacity \in Int /\ SlabEnd(b) \in Int
      BY <1>2, <3>1
    <3>4. \A s, c, x, y \in Int : s <= c - x /\ y <= x => s <= c - y
      OBVIOUS
    <3>5. QED
      BY <3>1, <3>2, <3>3, <3>4, SMTT(30)
  <2>3. \A b \in DOMAIN slab' :
           b \in (1..pools') \X Nat /\ slab'[b] \in Slab /\ SlabEnd(b)' <= Capacity - e[b[1]]
    <3> TAKE b \in DOMAIN slab'
    <3>1. CASE b = a
      <4>1. SlabEnd(b)' = Capacity - e[b[1]] /\ Capacity - e[b[1]] \in Int
        BY <1>2, <1>5, <1>6, <1>11, <3>1, SMTT(60)
      <4>2. QED
        BY <1>5, <1>10a, <3>1, <4>1
    <3>2. CASE b \in DOMAIN slab
      BY <1>10a, <1>11, <2>1, <2>2, <3>2
    <3>3. QED
      BY <1>10, <3>1, <3>2
  <2>4. QED
    BY <1>c, <2>3 DEF SlabsBelowDepth
<1>14. SlabsApart'
  <2>1. SlabEnd(a)' <= Capacity
    BY SMTT(60), <1>2, <1>6, <1>11
  <2>2. ASSUME NEW b \in DOMAIN slab, b[1] = a[1]
        PROVE  SlabEnd(b)' <= a[2]
    <3>1. SlabEnd(b)' = SlabEnd(b) /\ SlabEnd(b) <= Capacity - d[b[1]] /\ b[1] = p
      BY <1>5, <1>11, <1>12, <2>2
    <3>2. QED
      BY <1>5, <3>1
  <2>3. \A b \in DOMAIN slab : SlabEnd(b)' <= Capacity
    BY <1>0, <1>11 DEF SlabsApart
  <2>4. \A b, c \in DOMAIN slab : b # c /\ b[1] = c[1] =>
            SlabEnd(b)' <= c[2] \/ SlabEnd(c)' <= b[2]
    BY <1>0, <1>11 DEF SlabsApart
  <2>5. \A b, c \in DOMAIN slab' : b # c /\ b[1] = c[1] =>
            SlabEnd(b)' <= c[2] \/ SlabEnd(c)' <= b[2]
    BY <1>10, <2>2, <2>4
  <2>6. QED
    BY <1>10, <2>1, <2>3, <2>5 DEF SlabsApart
<1>15. QED
  BY <1>7, <1>8, <1>13, <1>14 DEF AllocInv

(* Every operation keeps the invariant.                                      *)
LEMMA StepInv ==
    ASSUME ClassesFit
    PROVE  AllocInv /\ [Next]_vars => AllocInv'
<1> SUFFICES ASSUME AllocInv, [Next]_vars PROVE AllocInv'
  OBVIOUS
<1>0. \A a \in DOMAIN slab : slab[a] \in Slab
  BY DEF AllocInv, SlabsBelowDepth
<1>1. ASSUME NEW n \in Asked, NEW h \in 1..MaxHuge, AllocHuge(n, h) PROVE AllocInv'
  BY <1>0, <1>1, SameSlabs DEF AllocHuge
<1>2. ASSUME NEW n \in Asked, AllocHugeFails(n) PROVE AllocInv'
  BY <1>0, <1>2, SameSlabs DEF AllocHugeFails
<1>3. ASSUME NEW n \in Asked, AllocFree(n) PROVE AllocInv'
  <2>1. \E a : slab' = [slab EXCEPT ![a].stat_flag = 1]
    BY <1>3 DEF AllocFree
  <2>2. /\ DOMAIN slab' = DOMAIN slab
        /\ \A b \in DOMAIN slab : slab'[b] \in Slab /\ slab'[b].size = slab[b].size
    BY <1>0, <2>1 DEF Slab
  <2>3. QED
    BY <1>3, <2>2, SameSlabs DEF AllocFree
<1>4. ASSUME NEW n \in Asked, CarveFromPool(n) PROVE AllocInv'
  <2>p. PICK p : p = FirstFit(n)
    OBVIOUS
  <2>1. PICK q \in Fitting(n) : \A r \in Fitting(n) : r <= q
    <3>1. Fitting(n) # {} /\ pool \subseteq 1..pools /\ pools \in Nat
      BY <1>4 DEF CarveFromPool, AllocInv, PoolsTyped
    <3>2. QED
      BY <3>1, LatestFit
  <2>2. p \in Fitting(n)
    BY <2>p, <2>1 DEF FirstFit
  <2>3. p \in pool /\ Fits(p, n) /\ p \in 1..MaxPools /\ p <= pools
    BY <2>2 DEF Fitting, AllocInv, PoolsTyped
  <2>4. depth[p] >= SlabSize(n)
    BY <2>3 DEF Fits, AllocInv, DepthNotNegative, PoolsTyped
  <2>5. ~IsHuge(n) /\ Carve(p, n) /\ pools' = pools /\ pool' \subseteq pool
    BY <1>4, <2>p DEF CarveFromPool, NoFreeSlab, Kept
  <2>6. QED
    BY <2>3, <2>4, <2>5, CarveKeepsInv DEF AllocInv, PoolsTyped
<1>5. ASSUME NEW n \in Asked, CarveFromNewPool(n) PROVE AllocInv'
  <2> DEFINE p == pools + 1
  <2>1. p \in 1..MaxPools /\ pools \in 1..MaxPools /\ p > pools
    BY <1>5 DEF CarveFromNewPool, AllocInv, PoolsTyped
  <2>2. depth[p] = Capacity
    BY <2>1 DEF AllocInv, PoolsTyped
  <2>3. /\ ~IsHuge(n) /\ Carve(p, n) /\ pools' = p
        /\ pool' \subseteq pool \cup {p}
    BY <1>5 DEF CarveFromNewPool, NoFreeSlab, Kept
  <2>4. depth[p] >= SlabSize(n)
    BY <2>2, <2>3, IndexIsClass DEF ClassesFit, SlabSize, RealSize
  <2>5. QED
    BY <2>1, <2>3, <2>4, CarveKeepsInv DEF AllocInv, PoolsTyped
<1>6. ASSUME NEW n \in Asked, NewPoolFails(n) PROVE AllocInv'
  BY <1>0, <1>6, SameSlabs DEF NewPoolFails, Kept
<1>7. ASSUME NEW a \in DOMAIN slab, Free(a) PROVE AllocInv'
  <2>1. /\ DOMAIN slab' = DOMAIN slab
        /\ \A b \in DOMAIN slab : slab'[b] \in Slab /\ slab'[b].size = slab[b].size
    <3>1. \/ slab' = slab
          \/ slab' = [slab EXCEPT ![a].stat_flag = 0]
      BY <1>7 DEF Free
    <3>2. QED
      BY <1>0, <3>1 DEF Slab
  <2>2. QED
    BY <1>7, <2>1, SameSlabs DEF Free
<1>8. ASSUME NEW h \in 1..MaxHuge, FreeHuge(h) PROVE AllocInv'
  BY <1>0, <1>8, SameSlabs DEF FreeHuge
<1>9. CASE UNCHANGED vars
  BY <1>0, <1>9, SameSlabs DEF vars
<1>10. QED
  BY <1>1, <1>2, <1>3, <1>4, <1>5, <1>6, <1>7, <1>8, <1>9 DEF Next

(* With classes that fit into a pool, slabs never reach into each other or   *)
(* out of their pool, for any sequence of allocations and frees.             *)
THEOREM SlabsStayApart ==
    ASSUME ClassesFit
    PROVE  Spec => []SlabsApart
<1>1. AllocInv => SlabsApart
  BY DEF AllocInv
<1>2. QED
  BY InitInv, StepInv, <1>1, PTL DEF Spec

(* And no pool is drawn below zero, which would make it seem to have room    *)
(* for everything.                                                           *)
THEOREM NeverOverdrawn ==
    ASSUME ClassesFit
    PROVE  Spec => []DepthNotNegative
<1>1. AllocInv => DepthNotNegative
  BY DEF AllocInv
<1>2. QED
  BY InitInv, StepInv, <1>1, PTL DEF Spec

-----------------------------------------------------------------------------
(***************************************************************************)
(* The lists of slabs, the lists of pools and the count.                   *)
(***************************************************************************)

(* The class whose list a slab belongs to.                                   *)
ClassOf(a) == Index(slab[a].size)

Sized == \A a \in DOMAIN slab : ClassOf(a) \in Class

UsedRight ==
    /\ used_slabs \in [Class -> SUBSET DOMAIN slab]
    /\ \A i \in Class, a \in DOMAIN slab :
          a \in used_slabs[i] <=> i = ClassOf(a) /\ slab[a].stat_flag = 1

FreeRight ==
    /\ free_slabs \in [Class -> Seq(DOMAIN slab)]
    /\ \A i \in Class : Distinct(free_slabs[i])
    /\ \A i \in Class, a \in DOMAIN slab :
          a \in Elements(free_slabs[i]) <=> i = ClassOf(a) /\ slab[a].stat_flag = 0

(* A slab is listed by its class and its flag.                               *)
SlabLists == Sized /\ UsedRight /\ FreeRight

Handed == {a \in DOMAIN slab : slab[a].stat_flag = 1}

(* A slab is as large as its class: a size of a class has that class.         *)
LEMMA ClassOfRealSize ==
    ASSUME ClassesFit, NEW n \in Asked, ~IsHuge(n)
    PROVE  Index(n) \in Class /\ Index(RealSize(n)) = Index(n)
<1> DEFINE Least(m, i) == m <= ClassSize(i) /\ \A j \in 0..(i - 1) : m > ClassSize(j)
<1>1. Index(n) \in Class /\ n <= RealSize(n) /\ RealSize(n) \in Nat
  BY IndexIsClass DEF ClassesFit
<1>2. \A i \in Class : ClassSize(i) \in Nat
  BY DEF ClassesFit
<1>3. Index(n) # -1
  BY <1>1 DEF Class
<1>4. PICK x \in Class : Least(n, x) /\ x = Index(n)
  <2>1. \E i \in Class : n <= ClassSize(i)
    BY <1>1 DEF RealSize
  <2>2. PICK m \in {i \in Class : n <= ClassSize(i)} :
             \A j \in {i \in Class : n <= ClassSize(i)} : m <= j
    <3> DEFINE T == {i \in Class : n <= ClassSize(i)}
    <3>1. T \in SUBSET Nat /\ T # {}
      BY <2>1 DEF Class
    <3> HIDE DEF T
    <3>2. \E m \in T : \A j \in T : m <= j
      BY <3>1, LeastNatural
    <3>3. QED
      BY <3>2 DEF T
  <2>3. Least(n, m)
    BY <1>2, <2>2 DEF Class
  <2>4. Index(n) = CHOOSE i \in Class : Least(n, i)
    BY <2>1 DEF Index
  <2>5. QED
    BY <2>3, <2>4
<1>5. Least(RealSize(n), x)
  <2>1. RealSize(n) = ClassSize(x)
    BY <1>4 DEF RealSize
  <2>2. \A j \in 0..(x - 1) : j \in Class
    BY DEF Class
  <2>3. QED
    BY <1>1, <1>2, <1>4, <2>1, <2>2
<1>6. \A y \in Class : Least(RealSize(n), y) => y = x
  <2> SUFFICES ASSUME NEW y \in Class, Least(RealSize(n), y) PROVE y = x
    OBVIOUS
  <2>1. RealSize(n) = ClassSize(x)
    BY <1>4 DEF RealSize
  <2>2. ~(y < x)
    BY <1>1, <1>2, <1>5, <2>1 DEF Class
  <2>3. ~(x < y)
    BY <1>1, <1>2, <2>1 DEF Class
  <2>4. QED
    BY <2>2, <2>3 DEF Class
<1>7. Index(RealSize(n)) = CHOOSE i \in Class : Least(RealSize(n), i)
  <2>1. \E i \in Class : RealSize(n) <= ClassSize(i)
    BY <1>5
  <2>2. QED
    BY <2>1 DEF Index
<1> HIDE DEF Least
<1>8. QED
  BY <1>1, <1>4, <1>5, <1>6, <1>7

(* What is in use is what is flagged.                                        *)
LEMMA HandedInUse ==
    ASSUME SlabLists
    PROVE  InUse = Handed
<1>1. \A a \in Handed : a \in used_slabs[ClassOf(a)] /\ ClassOf(a) \in Class
  BY DEF SlabLists, Sized, UsedRight, Handed
<1>2. \A i \in Class : \A a \in used_slabs[i] : a \in Handed
  BY DEF SlabLists, UsedRight, Handed
<1>3. QED
  BY <1>1, <1>2 DEF InUse

(* At first nothing is listed.                                               *)
LEMMA InitLists == Init => SlabLists /\ DOMAIN slab = {}
<1> SUFFICES ASSUME Init PROVE SlabLists /\ DOMAIN slab = {}
  OBVIOUS
<1>1. DOMAIN slab = {}
  BY DEF Init
<1>2. Distinct(<<>>) /\ \A S : <<>> \in Seq(S)
  BY EmptySeq DEF Distinct
<1>3. Sized
  BY <1>1 DEF Sized
<1>4. UsedRight
  BY <1>1 DEF Init, UsedRight
<1>5. FreeRight
  BY <1>1, <1>2 DEF Init, FreeRight
<1>6. QED
  BY <1>1, <1>3, <1>4, <1>5 DEF SlabLists

-----------------------------------------------------------------------------
(* A free slab of the class is taken from its list.                           *)
LEMMA AllocFreeLists ==
    ASSUME ClassesFit, AllocInv, SlabLists, NEW n \in Asked, AllocFree(n)
    PROVE  SlabLists' /\ \E a : Handed' = Handed \cup {a}
<1>1. PICK i \in Class : i = Index(n)
  BY ClassOfRealSize DEF AllocFree
<1>2. PICK q : q = free_slabs[i]
  OBVIOUS
<1>3. q \in Seq(DOMAIN slab) /\ q # <<>> /\ Distinct(q)
  BY <1>1, <1>2 DEF AllocFree, SlabLists, FreeRight
<1>4. PICK a : a = Head(q)
  OBVIOUS
<1>5. /\ Tail(q) \in Seq(DOMAIN slab) /\ Distinct(Tail(q)) /\ a \in Elements(q)
      /\ Elements(Tail(q)) = Elements(q) \ {a}
  BY <1>3, <1>4, TailDistinct
<1>6. a \in DOMAIN slab
  BY <1>3, <1>4, HeadTailProperties
<1>7. i = ClassOf(a) /\ slab[a].stat_flag = 0 /\ slab[a] \in Slab
  BY <1>2, <1>5, <1>6 DEF SlabLists, FreeRight, AllocInv, SlabsBelowDepth
<1>8. /\ slab' = [slab EXCEPT ![a].stat_flag = 1]
      /\ used_slabs' = [used_slabs EXCEPT ![i] = @ \cup {a}]
      /\ free_slabs' = [free_slabs EXCEPT ![i] = Tail(q)]
  BY <1>1, <1>2, <1>4 DEF AllocFree
<1>9. /\ DOMAIN slab' = DOMAIN slab
      /\ \A b \in DOMAIN slab : b # a => slab'[b] = slab[b]
      /\ slab'[a].stat_flag = 1 /\ slab'[a].size = slab[a].size
  BY <1>6, <1>7, <1>8 DEF Slab
<1>10. \A b \in DOMAIN slab : ClassOf(b)' = ClassOf(b)
  BY <1>9 DEF ClassOf
<1>11. Sized'
  BY <1>9, <1>10 DEF SlabLists, Sized
<1>12. UsedRight'
  <2>1. used_slabs \in [Class -> SUBSET DOMAIN slab]
    BY DEF SlabLists, UsedRight
  <2>2. used_slabs' \in [Class -> SUBSET DOMAIN slab]
    BY <1>6, <1>8, <2>1
  <2>3. ASSUME NEW k \in Class, NEW b \in DOMAIN slab
        PROVE  b \in used_slabs'[k] <=> k = ClassOf(b) /\ slab'[b].stat_flag = 1
    <3>1. b \in used_slabs[k] <=> k = ClassOf(b) /\ slab[b].stat_flag = 1
      BY DEF SlabLists, UsedRight
    <3>2. b \in used_slabs'[k] <=> b \in used_slabs[k] \/ (k = i /\ b = a)
      BY <1>8, <2>1
    <3>3. QED
      BY <1>7, <1>9, <3>1, <3>2
  <2>4. QED
    BY <1>9, <1>10, <2>2, <2>3 DEF UsedRight
<1>13. FreeRight'
  <2>1. free_slabs \in [Class -> Seq(DOMAIN slab)] /\ \A k \in Class : Distinct(free_slabs[k])
    BY DEF SlabLists, FreeRight
  <2>2. /\ free_slabs' \in [Class -> Seq(DOMAIN slab)]
        /\ \A k \in Class : free_slabs'[k] = IF k = i THEN Tail(q) ELSE free_slabs[k]
    BY <1>5, <1>8, <2>1
  <2>3. ASSUME NEW k \in Class PROVE Distinct(free_slabs'[k])
    BY <1>5, <2>1, <2>2
  <2>4. ASSUME NEW k \in Class, NEW b \in DOMAIN slab
        PROVE  b \in Elements(free_slabs'[k]) <=> k = ClassOf(b) /\ slab'[b].stat_flag = 0
    <3>1. b \in Elements(free_slabs[k]) <=> k = ClassOf(b) /\ slab[b].stat_flag = 0
      BY DEF SlabLists, FreeRight
    <3>2. b \in Elements(free_slabs'[k]) <=> b \in Elements(free_slabs[k]) /\ ~(k = i /\ b = a)
      BY <1>2, <1>5, <2>2
    <3>3. QED
      BY <1>7, <1>9, <3>1, <3>2
  <2>5. QED
    BY <1>9, <1>10, <2>2, <2>3, <2>4 DEF FreeRight
<1>14. Handed' = Handed \cup {a}
  BY <1>6, <1>9 DEF Handed
<1>15. QED
  BY <1>11, <1>12, <1>13, <1>14 DEF SlabLists

(* A slab that is carved is new, and no other is changed.                     *)
LEMMA CarvedSlab ==
    ASSUME ClassesFit, AllocInv, NEW n \in Asked, ~IsHuge(n),
           NEW p \in 1..MaxPools, Carve(p, n), NEW a, a = <<p, Capacity - depth[p]>>
    PROVE  /\ a \notin DOMAIN slab
           /\ DOMAIN slab' = DOMAIN slab \cup {a}
           /\ slab'[a] = [size |-> RealSize(n), stat_flag |-> 1]
           /\ \A b \in DOMAIN slab : slab'[b] = slab[b]
<1>1. a \notin DOMAIN slab
  <2> SUFFICES ASSUME a \in DOMAIN slab PROVE FALSE
    OBVIOUS
  <2>1. a[1] = p /\ a[2] = Capacity - depth[p]
    OBVIOUS
  <2>2. a[2] + slab[a].size + SlabHeader <= Capacity - depth[p] /\ slab[a] \in Slab
    BY <2>1 DEF AllocInv, SlabsBelowDepth, SlabEnd
  <2>3. Capacity - depth[p] \in Int
    BY DEF AllocInv, PoolsTyped, ClassesFit
  <2>4. slab[a].size \in Nat /\ SlabHeader \in Nat \ {0}
    BY <2>2 DEF Slab
  <2>5. \A x \in Int, y, h \in Nat : x + y + h <= x => h = 0
    OBVIOUS
  <2>6. QED
    BY <2>1, <2>2, <2>3, <2>4, <2>5
<1>2. slab' = [b \in DOMAIN slab \cup {a} |->
                 IF b = a THEN [size |-> RealSize(n), stat_flag |-> 1] ELSE slab[b]]
  BY DEF Carve, CarveBytes
<1>3. QED
  BY <1>1, <1>2

(* It is in use, and in no list of free slabs.                                *)
LEMMA CarveLists ==
    ASSUME ClassesFit, AllocInv, SlabLists, NEW n \in Asked, ~IsHuge(n),
           NEW p \in 1..MaxPools, Carve(p, n), UNCHANGED free_slabs
    PROVE  SlabLists' /\ \E a : Handed' = Handed \cup {a}
<1>1. PICK i \in Class : i = Index(n) /\ Index(RealSize(n)) = i
  BY ClassOfRealSize
<1>2. PICK a : a = <<p, Capacity - depth[p]>>
  OBVIOUS
<1>3. /\ a \notin DOMAIN slab
      /\ DOMAIN slab' = DOMAIN slab \cup {a}
      /\ slab'[a] = [size |-> RealSize(n), stat_flag |-> 1]
      /\ \A b \in DOMAIN slab : slab'[b] = slab[b]
  BY SMTT(60), <1>2, CarvedSlab
<1>4. used_slabs' = [used_slabs EXCEPT ![i] = @ \cup {a}]
  BY <1>1, <1>2 DEF Carve, CarveBytes
<1>5. ClassOf(a)' = i /\ slab'[a].stat_flag = 1 /\ \A b \in DOMAIN slab : ClassOf(b)' = ClassOf(b)
  BY <1>1, <1>3 DEF ClassOf
<1>6. Sized'
  BY <1>3, <1>5 DEF SlabLists, Sized
<1>7. UsedRight'
  <2>1. used_slabs \in [Class -> SUBSET DOMAIN slab]
    BY DEF SlabLists, UsedRight
  <2>2. used_slabs' \in [Class -> SUBSET DOMAIN slab']
    BY <1>3, <1>4, <2>1
  <2>3. \A k \in Class : \A b : b \in used_slabs'[k] <=> b \in used_slabs[k] \/ (k = i /\ b = a)
    BY <1>4, <2>1
  <2>4. ASSUME NEW k \in Class, NEW b \in DOMAIN slab
        PROVE  b \in used_slabs'[k] <=> k = ClassOf(b)' /\ slab'[b].stat_flag = 1
    BY <1>3, <1>5, <2>3 DEF SlabLists, UsedRight
  <2>5. \A k \in Class : a \in used_slabs'[k] <=> k = i
    BY <1>3, <2>1, <2>3
  <2>6. QED
    BY <1>3, <1>5, <2>2, <2>4, <2>5 DEF UsedRight
<1>8. FreeRight'
  <2>1. free_slabs \in [Class -> Seq(DOMAIN slab)]
    BY DEF SlabLists, FreeRight
  <2>2. \A k \in Class : free_slabs[k] \in Seq(DOMAIN slab')
    <3>1. \A S, T : S \subseteq T => \A s \in Seq(S) : s \in Seq(T)
      BY SeqMonotonic
    <3>2. QED
      BY <1>3, <2>1, <3>1
  <2>3. \A k \in Class : a \notin Elements(free_slabs[k])
    <3> SUFFICES ASSUME NEW k \in Class PROVE a \notin Elements(free_slabs[k])
      OBVIOUS
    <3>1. free_slabs[k] \in Seq(DOMAIN slab)
      BY <2>1
    <3>2. \A j \in DOMAIN free_slabs[k] : free_slabs[k][j] \in DOMAIN slab
      BY <3>1, ElementOfSeq, LenProperties
    <3>3. QED
      BY <1>3, <3>2 DEF Elements
  <2>4. free_slabs' \in [Class -> Seq(DOMAIN slab')]
    BY <2>1, <2>2
  <2>5. \A k \in Class : free_slabs'[k] = free_slabs[k] /\ Distinct(free_slabs[k])
    BY DEF SlabLists, FreeRight
  <2>6. \A k \in Class, b \in DOMAIN slab :
           b \in Elements(free_slabs[k]) <=> k = ClassOf(b)' /\ slab'[b].stat_flag = 0
    BY <1>3, <1>5 DEF SlabLists, FreeRight
  <2>7. QED
    BY <1>3, <1>5, <2>3, <2>4, <2>5, <2>6 DEF FreeRight
<1>9. Handed' = Handed \cup {a}
  BY <1>3, <1>5 DEF Handed
<1>10. QED
  BY <1>6, <1>7, <1>8, <1>9 DEF SlabLists

(* A slab of an allocator whose classes fit is never taken for a block of     *)
(* malloc.                                                                   *)
LEMMA NotTakenForHuge ==
    ASSUME ClassesFit, AllocInv, SlabLists, NEW a \in DOMAIN slab
    PROVE  ~(slab[a].size >= Capacity \/ Index(slab[a].size) < 0)
<1>1. Index(slab[a].size) \in Class
  BY DEF SlabLists, Sized, ClassOf
<1>2. a[2] + slab[a].size + SlabHeader <= Capacity
  BY DEF AllocInv, SlabsApart, SlabEnd
<1>3. a[2] \in Nat /\ slab[a].size \in Nat /\ SlabHeader \in Nat \ {0} /\ Capacity \in Nat
  BY DEF AllocInv, SlabsBelowDepth, Slab, ClassesFit
<1>4. \A x, y, h, c \in Nat : x + y + h <= c /\ h # 0 => ~(y >= c)
  OBVIOUS
<1>5. QED
  BY <1>1, <1>2, <1>3, <1>4 DEF Class

(* A slab that is freed goes from the one list to the other.                  *)
LEMMA FreeLists ==
    ASSUME ClassesFit, AllocInv, SlabLists, NEW a \in DOMAIN slab, Free(a)
    PROVE  SlabLists' /\ a \in Handed /\ Handed' = Handed \ {a}
<1>1. PICK i \in Class : i = ClassOf(a)
  BY DEF SlabLists, Sized
<1>2. slab[a] \in Slab /\ slab[a].stat_flag = 1
  BY DEF Free, Released, AllocInv, SlabsBelowDepth, Slab
<1>3. PICK q : q = free_slabs[i]
  OBVIOUS
<1>4. q \in Seq(DOMAIN slab) /\ Distinct(q) /\ a \notin Elements(q)
  BY <1>1, <1>2, <1>3 DEF SlabLists, FreeRight
<1>5. /\ slab' = [slab EXCEPT ![a].stat_flag = 0]
      /\ used_slabs' = [used_slabs EXCEPT ![i] = @ \ {a}]
      /\ free_slabs' = [free_slabs EXCEPT ![i] = <<a>> \o q]
  BY <1>1, <1>3, NotTakenForHuge DEF Free, FreeClass, ClassOf
<1>6. /\ <<a>> \o q \in Seq(DOMAIN slab) /\ Distinct(<<a>> \o q)
      /\ Elements(<<a>> \o q) = Elements(q) \cup {a}
  BY <1>4, PrependDistinct
<1>7. /\ DOMAIN slab' = DOMAIN slab
      /\ \A b \in DOMAIN slab : b # a => slab'[b] = slab[b]
      /\ slab'[a].stat_flag = 0 /\ slab'[a].size = slab[a].size
  BY <1>2, <1>5 DEF Slab
<1>8. \A b \in DOMAIN slab : ClassOf(b)' = ClassOf(b)
  BY <1>7 DEF ClassOf
<1>9. Sized'
  BY <1>7, <1>8 DEF SlabLists, Sized
<1>10. UsedRight'
  <2>1. used_slabs \in [Class -> SUBSET DOMAIN slab]
    BY DEF SlabLists, UsedRight
  <2>2. used_slabs' \in [Class -> SUBSET DOMAIN slab]
    BY <1>5, <2>1
  <2>3. ASSUME NEW k \in Class, NEW b \in DOMAIN slab
        PROVE  b \in used_slabs'[k] <=> k = ClassOf(b) /\ slab'[b].stat_flag = 1
    <3>1. b \in used_slabs[k] <=> k = ClassOf(b) /\ slab[b].stat_flag = 1
      BY DEF SlabLists, UsedRight
    <3>2. b \in used_slabs'[k] <=> b \in used_slabs[k] /\ ~(k = i /\ b = a)
      BY <1>5, <2>1
    <3>3. QED
      BY <1>1, <1>7, <3>1, <3>2
  <2>4. QED
    BY <1>7, <1>8, <2>2, <2>3 DEF UsedRight
<1>11. FreeRight'
  <2>1. free_slabs \in [Class -> Seq(DOMAIN slab)] /\ \A k \in Class : Distinct(free_slabs[k])
    BY DEF SlabLists, FreeRight
  <2>2. /\ free_slabs' \in [Class -> Seq(DOMAIN slab)]
        /\ \A k \in Class : free_slabs'[k] = IF k = i THEN <<a>> \o q ELSE free_slabs[k]
    BY <1>5, <1>6, <2>1
  <2>3. ASSUME NEW k \in Class PROVE Distinct(free_slabs'[k])
    BY <1>6, <2>1, <2>2
  <2>4. ASSUME NEW k \in Class, NEW b \in DOMAIN slab
        PROVE  b \in Elements(free_slabs'[k]) <=> k = ClassOf(b) /\ slab'[b].stat_flag = 0
    <3>1. b \in Elements(free_slabs[k]) <=> k = ClassOf(b) /\ slab[b].stat_flag = 0
      BY DEF SlabLists, FreeRight
    <3>2. b \in Elements(free_slabs'[k]) <=> b \in Elements(free_slabs[k]) \/ (k = i /\ b = a)
      BY <1>3, <1>6, <2>2
    <3>3. QED
      BY <1>1, <1>7, <3>1, <3>2
  <2>5. QED
    BY <1>7, <1>8, <2>2, <2>3, <2>4 DEF FreeRight
<1>12. a \in Handed /\ Handed' = Handed \ {a}
  BY <1>2, <1>7 DEF Handed
<1>13. QED
  BY <1>9, <1>10, <1>11, <1>12 DEF SlabLists

-----------------------------------------------------------------------------
(* A carve is made from a pool that there is, or from the next one.           *)
LEMMA CarvedFrom ==
    ASSUME AllocInv, NEW n \in Asked, CarveFromPool(n) \/ CarveFromNewPool(n)
    PROVE  /\ ~IsHuge(n) /\ UNCHANGED <<free_slabs, used_huge>>
           /\ \E p \in 1..MaxPools : Carve(p, n)
<1>1. CASE CarveFromPool(n)
  <2>1. Fitting(n) # {} /\ pool \subseteq 1..pools /\ pools \in 1..MaxPools
    BY <1>1 DEF CarveFromPool, AllocInv, PoolsTyped
  <2>2. FirstFit(n) \in Fitting(n)
    BY <2>1, LatestFit DEF FirstFit
  <2>3. FirstFit(n) \in 1..MaxPools
    <3>1. FirstFit(n) \in 1..pools
      BY <2>1, <2>2 DEF Fitting
    <3>2. \A x \in 1..pools : x \in 1..MaxPools
      BY <2>1
    <3>3. QED
      BY <3>1, <3>2
  <2>4. QED
    BY <1>1, <2>3 DEF CarveFromPool, NoFreeSlab
<1>2. CASE CarveFromNewPool(n)
  <2>1. pools + 1 \in 1..MaxPools
    BY <1>2 DEF CarveFromNewPool, AllocInv, PoolsTyped
  <2>2. QED
    BY <1>2, <2>1 DEF CarveFromNewPool, NoFreeSlab
<1>3. QED
  BY <1>1, <1>2

(* Steps that change no list of slabs.                                        *)
LEMMA SameLists ==
    ASSUME SlabLists, UNCHANGED <<slab, free_slabs, used_slabs>>
    PROVE  SlabLists' /\ Handed' = Handed
<1>1. \A b \in DOMAIN slab : ClassOf(b)' = ClassOf(b)
  BY DEF ClassOf
<1>2. Sized' /\ UsedRight' /\ FreeRight'
  BY <1>1 DEF SlabLists, Sized, UsedRight, FreeRight
<1>3. QED
  BY <1>2 DEF SlabLists, Handed

(* What each step does to the slabs handed out, the blocks of malloc and the  *)
(* count.                                                                    *)
Counted ==
    \/ UNCHANGED <<Handed, used_huge, alloc_count>>
    \/ /\ UNCHANGED <<Handed, used_huge>>
       /\ alloc_count' = alloc_count + 1
    \/ /\ \E a : Handed' = Handed \cup {a}
       /\ UNCHANGED used_huge
       /\ alloc_count' = alloc_count + 1
    \/ /\ \E a \in Handed : Handed' = Handed \ {a}
       /\ UNCHANGED used_huge
       /\ alloc_count' = alloc_count - 1
    \/ /\ \E h : DOMAIN used_huge' = DOMAIN used_huge \cup {h}
       /\ UNCHANGED Handed
       /\ alloc_count' = alloc_count + 1
    \/ /\ \E h \in DOMAIN used_huge : DOMAIN used_huge' = DOMAIN used_huge \ {h}
       /\ UNCHANGED Handed
       /\ alloc_count' = alloc_count - 1

(* Every operation keeps the lists right, and counts what it does.            *)
LEMMA StepLists ==
    ASSUME ClassesFit, AllocInv, SlabLists, [Next]_vars
    PROVE  SlabLists' /\ Counted
<1>1. ASSUME NEW n \in Asked, NEW h \in 1..MaxHuge, AllocHuge(n, h) PROVE SlabLists' /\ Counted
  <2>1. SlabLists' /\ Handed' = Handed
    BY <1>1, SameLists DEF AllocHuge
  <2>2. DOMAIN used_huge' = DOMAIN used_huge \cup {h} /\ alloc_count' = alloc_count + 1
    BY <1>1 DEF AllocHuge
  <2>3. QED
    BY <2>1, <2>2 DEF Counted
<1>2. ASSUME NEW n \in Asked, AllocHugeFails(n) PROVE SlabLists' /\ Counted
  <2>1. SlabLists' /\ Handed' = Handed
    BY <1>2, SameLists DEF AllocHugeFails
  <2>2. UNCHANGED used_huge /\ alloc_count' = alloc_count + 1
    BY <1>2 DEF AllocHugeFails
  <2>3. QED
    BY <2>1, <2>2 DEF Counted
<1>3. ASSUME NEW n \in Asked, AllocFree(n) PROVE SlabLists' /\ Counted
  <2>1. SlabLists' /\ \E a : Handed' = Handed \cup {a}
    BY <1>3, AllocFreeLists
  <2>2. UNCHANGED used_huge /\ alloc_count' = alloc_count + 1
    BY <1>3 DEF AllocFree
  <2>3. QED
    BY <2>1, <2>2 DEF Counted
<1>4. ASSUME NEW n \in Asked, CarveFromPool(n) \/ CarveFromNewPool(n) PROVE SlabLists' /\ Counted
  <2>1. PICK p \in 1..MaxPools :
             ~IsHuge(n) /\ UNCHANGED <<free_slabs, used_huge>> /\ Carve(p, n)
    BY <1>4, CarvedFrom
  <2>2. SlabLists' /\ \E a : Handed' = Handed \cup {a}
    BY <2>1, CarveLists
  <2>3. alloc_count' = alloc_count + 1
    BY <2>1 DEF Carve, CarveBytes
  <2>4. QED
    BY <2>1, <2>2, <2>3 DEF Counted
<1>5. ASSUME NEW n \in Asked, NewPoolFails(n) PROVE SlabLists' /\ Counted
  <2>1. SlabLists' /\ Handed' = Handed
    BY ZenonT(60), <1>5, SameLists DEF NewPoolFails
  <2>2. UNCHANGED <<used_huge, alloc_count>>
    BY <1>5 DEF NewPoolFails
  <2>3. QED
    BY <2>1, <2>2 DEF Counted
<1>6. ASSUME NEW a \in DOMAIN slab, Free(a) PROVE SlabLists' /\ Counted
  <2>1. SlabLists' /\ a \in Handed /\ Handed' = Handed \ {a}
    BY <1>6, FreeLists
  <2>2. UNCHANGED used_huge /\ alloc_count' = alloc_count - 1
    BY <1>6 DEF Free
  <2>3. QED
    BY <2>1, <2>2 DEF Counted
<1>7. ASSUME NEW h \in 1..MaxHuge, FreeHuge(h) PROVE SlabLists' /\ Counted
  <2>1. SlabLists' /\ Handed' = Handed
    BY <1>7, SameLists DEF FreeHuge
  <2>2. /\ h \in DOMAIN used_huge /\ DOMAIN used_huge' = DOMAIN used_huge \ {h}
        /\ alloc_count' = alloc_count - 1
    BY <1>7 DEF FreeHuge
  <2>3. QED
    BY <2>1, <2>2 DEF Counted
<1>8. CASE UNCHANGED vars
  <2>1. SlabLists' /\ Handed' = Handed
    BY <1>8, SameLists DEF vars
  <2>2. UNCHANGED <<used_huge, alloc_count>>
    BY <1>8 DEF vars
  <2>3. QED
    BY <2>1, <2>2 DEF Counted
<1>9. QED
  BY <1>1, <1>2, <1>3, <1>4, <1>5, <1>6, <1>7, <1>8 DEF Next

-----------------------------------------------------------------------------
(* The count is at least what has been handed out and not given back.         *)
CountInv ==
    /\ IsFiniteSet(Handed)
    /\ IsFiniteSet(DOMAIN used_huge)
    /\ alloc_count \in Int
    /\ alloc_count >= Cardinality(Handed) + Cardinality(DOMAIN used_huge)

(* At first nothing has been handed out.                                      *)
LEMMA InitCount == Init => CountInv
<1> SUFFICES ASSUME Init PROVE CountInv
  OBVIOUS
<1>1. Handed = {} /\ DOMAIN used_huge = {} /\ alloc_count = 0
  BY DEF Init, Handed
<1>2. QED
  BY <1>1, FS_EmptySet DEF CountInv

(* A larger set of slabs or blocks is counted, and so is a smaller one.       *)
LEMMA StepCount ==
    ASSUME CountInv, Counted
    PROVE  CountInv'
<1> DEFINE S == Handed
           H == DOMAIN used_huge
<1>1. /\ IsFiniteSet(S) /\ Cardinality(S) \in Nat
      /\ IsFiniteSet(H) /\ Cardinality(H) \in Nat
      /\ alloc_count \in Int /\ alloc_count >= Cardinality(S) + Cardinality(H)
  BY FS_CardinalityType DEF CountInv
<1>2. \A T, x : IsFiniteSet(T) =>
         /\ IsFiniteSet(T \cup {x}) /\ Cardinality(T) \in Nat
         /\ Cardinality(T \cup {x}) \in {Cardinality(T), Cardinality(T) + 1}
  BY FS_AddElement, FS_CardinalityType
<1>3. \A T, x : IsFiniteSet(T) /\ x \in T =>
         IsFiniteSet(T \ {x}) /\ Cardinality(T \ {x}) = Cardinality(T) - 1
  BY FS_RemoveElement
<1>4. CASE UNCHANGED <<Handed, used_huge>> /\ alloc_count' \in {alloc_count, alloc_count + 1}
  BY <1>1, <1>4 DEF CountInv
<1>5. ASSUME NEW a, Handed' = Handed \cup {a}, UNCHANGED used_huge, alloc_count' = alloc_count + 1
      PROVE  CountInv'
  <2>1. IsFiniteSet(S \cup {a}) /\ Cardinality(S \cup {a}) \in {Cardinality(S), Cardinality(S) + 1}
    BY <1>1, <1>2
  <2>2. alloc_count + 1 >= Cardinality(S \cup {a}) + Cardinality(H) /\ alloc_count + 1 \in Int
    BY <1>1, <2>1
  <2>3. QED
    BY <1>1, <1>5, <2>1, <2>2 DEF CountInv
<1>6. ASSUME NEW a \in Handed, Handed' = Handed \ {a}, UNCHANGED used_huge,
             alloc_count' = alloc_count - 1
      PROVE  CountInv'
  <2>1. IsFiniteSet(S \ {a}) /\ Cardinality(S \ {a}) = Cardinality(S) - 1
    BY <1>1, <1>3
  <2>2. alloc_count - 1 >= Cardinality(S \ {a}) + Cardinality(H) /\ alloc_count - 1 \in Int
    BY <1>1, <2>1
  <2>3. QED
    BY <1>1, <1>6, <2>1, <2>2 DEF CountInv
<1>7. ASSUME NEW h, DOMAIN used_huge' = DOMAIN used_huge \cup {h}, UNCHANGED Handed,
             alloc_count' = alloc_count + 1
      PROVE  CountInv'
  <2>1. IsFiniteSet(H \cup {h}) /\ Cardinality(H \cup {h}) \in {Cardinality(H), Cardinality(H) + 1}
    BY <1>1, <1>2
  <2>2. alloc_count + 1 >= Cardinality(S) + Cardinality(H \cup {h}) /\ alloc_count + 1 \in Int
    BY <1>1, <2>1
  <2>3. QED
    BY <1>1, <1>7, <2>1, <2>2 DEF CountInv
<1>8. ASSUME NEW h \in DOMAIN used_huge, DOMAIN used_huge' = DOMAIN used_huge \ {h},
             UNCHANGED Handed, alloc_count' = alloc_count - 1
      PROVE  CountInv'
  <2>1. IsFiniteSet(H \ {h}) /\ Cardinality(H \ {h}) = Cardinality(H) - 1
    BY <1>1, <1>3
  <2>2. alloc_count - 1 >= Cardinality(S) + Cardinality(H \ {h}) /\ alloc_count - 1 \in Int
    BY <1>1, <2>1
  <2>3. QED
    BY <1>1, <1>8, <2>1, <2>2 DEF CountInv
<1>9. QED
  BY <1>4, <1>5, <1>6, <1>7, <1>8 DEF Counted

(* The destructor never misses what was not given back, whatever was freed    *)
(* twice: the count is at least the number of slabs and blocks in use.        *)
THEOREM LeaksReported ==
    ASSUME ClassesFit
    PROVE  Spec => []LeakReported
<1>1. SlabLists /\ CountInv => LeakReported
  BY HandedInUse DEF CountInv, LeakReported
<1>2. AllocInv /\ SlabLists /\ CountInv /\ [Next]_vars => SlabLists' /\ CountInv'
  BY StepLists, StepCount
<1>3. Init => SlabLists /\ CountInv
  BY InitLists, InitCount
<1>4. QED
  BY InitInv, StepInv, <1>1, <1>2, <1>3, PTL DEF Spec

-----------------------------------------------------------------------------
(* The lists hold each slab in the one place that its flag says.              *)
LEMMA ListedOnce ==
    ASSUME SlabLists
    PROVE  SlabsListedOnce
<1> SUFFICES ASSUME NEW i \in Class, NEW a \in DOMAIN slab
             PROVE  LET places == {k \in DOMAIN free_slabs[i] : free_slabs[i][k] = a}
                        mine   == i = Index(slab[a].size)
                    IN  /\ a \in used_slabs[i] <=> mine /\ slab[a].stat_flag = 1
                        /\ Cardinality(places) = IF mine /\ slab[a].stat_flag = 0 THEN 1 ELSE 0
  BY DEF SlabsListedOnce
<1> DEFINE places == {k \in DOMAIN free_slabs[i] : free_slabs[i][k] = a}
           listed == i = Index(slab[a].size) /\ slab[a].stat_flag = 0
<1>1. /\ a \in used_slabs[i] <=> i = Index(slab[a].size) /\ slab[a].stat_flag = 1
      /\ a \in Elements(free_slabs[i]) <=> listed
      /\ Distinct(free_slabs[i])
  BY DEF SlabLists, UsedRight, FreeRight, ClassOf
<1>2. CASE listed
  <2>1. PICK k \in DOMAIN free_slabs[i] : free_slabs[i][k] = a
    BY <1>1, <1>2 DEF Elements
  <2>2. places = {k}
    BY <1>1, <2>1 DEF Distinct
  <2>3. Cardinality(places) = 1
    BY <2>2, FS_Singleton
  <2>4. QED
    BY <1>1, <1>2, <2>3
<1>3. CASE ~listed
  <2>1. places = {}
    BY <1>1, <1>3 DEF Elements
  <2>2. Cardinality(places) = 0
    BY <2>1, FS_EmptySet
  <2>3. QED
    BY <1>1, <1>3, <2>2
<1>4. QED
  BY <1>2, <1>3

(* Where slabs begin and end is the same if no slab is carved.                *)
LEMMA SameGaps ==
    ASSUME NoGaps, UNCHANGED depth, DOMAIN slab' = DOMAIN slab,
           \A a \in DOMAIN slab : slab'[a].size = slab[a].size
    PROVE  NoGaps'
<1>1. \A a \in DOMAIN slab : SlabEnd(a)' = SlabEnd(a)
  BY DEF SlabEnd
<1> SUFFICES ASSUME NEW p \in 1..MaxPools
             PROVE  {SlabEnd(a)' : a \in {b \in DOMAIN slab' : b[1] = p}} \cup {0}
                      = {a[2] : a \in {b \in DOMAIN slab' : b[1] = p}} \cup {Capacity - depth'[p]}
  BY DEF NoGaps
<1>2. {SlabEnd(a)' : a \in {b \in DOMAIN slab' : b[1] = p}}
        = {SlabEnd(a) : a \in {b \in DOMAIN slab : b[1] = p}}
  BY <1>1
<1>3. QED
  BY <1>2 DEF NoGaps

(* A slab that is carved begins where the last one ended, and ends where what  *)
(* is left of the pool begins.                                               *)
LEMMA CarveGaps ==
    ASSUME ClassesFit, AllocInv, NoGaps, NEW n \in Asked, ~IsHuge(n),
           NEW p \in 1..MaxPools, Carve(p, n)
    PROVE  NoGaps'
<1>1. PICK a : a = <<p, Capacity - depth[p]>>
  OBVIOUS
<1>2. /\ a \notin DOMAIN slab
      /\ DOMAIN slab' = DOMAIN slab \cup {a}
      /\ slab'[a] = [size |-> RealSize(n), stat_flag |-> 1]
      /\ \A b \in DOMAIN slab : slab'[b] = slab[b]
  BY <1>1, CarvedSlab
<1>3. /\ depth'[p] = depth[p] - SlabSize(n)
      /\ \A q \in 1..MaxPools : q # p => depth'[q] = depth[q]
      /\ depth[p] \in Int
  BY DEF Carve, CarveBytes, AllocInv, PoolsTyped
<1>4. RealSize(n) \in Nat /\ Capacity \in Nat /\ SlabHeader \in Nat
  BY IndexIsClass DEF ClassesFit
<1>5. a[1] = p /\ a[2] = Capacity - depth[p] /\ SlabEnd(a)' = Capacity - depth'[p]
  <2>1. SlabEnd(a)' = a[2] + RealSize(n) + SlabHeader
    BY <1>2 DEF SlabEnd
  <2>2. \A c, d, r, h \in Int : (c - d) + r + h = c - (d - (r + h))
    OBVIOUS
  <2>3. (Capacity - depth[p]) + RealSize(n) + SlabHeader
           = Capacity - (depth[p] - (RealSize(n) + SlabHeader))
    BY <1>3, <1>4, <2>2
  <2>4. QED
    BY <1>1, <1>3, <2>1, <2>3 DEF SlabSize
<1>6. \A b \in DOMAIN slab : SlabEnd(b)' = SlabEnd(b)
  BY <1>2 DEF SlabEnd
<1> SUFFICES ASSUME NEW q \in 1..MaxPools
             PROVE  {SlabEnd(b)' : b \in {c \in DOMAIN slab' : c[1] = q}} \cup {0}
                      = {b[2] : b \in {c \in DOMAIN slab' : c[1] = q}} \cup {Capacity - depth'[q]}
  BY DEF NoGaps
<1> DEFINE Old == {c \in DOMAIN slab : c[1] = q}
           Ends == {SlabEnd(b) : b \in Old}
           Begins == {b[2] : b \in Old}
<1>7. Ends \cup {0} = Begins \cup {Capacity - depth[q]}
  BY DEF NoGaps
<1>8. CASE q = p
  <2>1. {c \in DOMAIN slab' : c[1] = q} = Old \cup {a}
    BY <1>2, <1>5, <1>8
  <2>2. {SlabEnd(b)' : b \in Old \cup {a}} = Ends \cup {Capacity - depth'[q]}
    BY <1>5, <1>6, <1>8
  <2>3. {b[2] : b \in Old \cup {a}} = Begins \cup {Capacity - depth[q]}
    BY <1>5, <1>8
  <2> HIDE DEF Old, Ends, Begins
  <2>4. QED
    BY <1>7, <2>1, <2>2, <2>3
<1>9. CASE q # p
  <2>1. {c \in DOMAIN slab' : c[1] = q} = Old
    BY <1>2, <1>5, <1>9
  <2>2. {SlabEnd(b)' : b \in Old} = Ends
    BY <1>6
  <2>3. depth'[q] = depth[q]
    BY <1>3, <1>9
  <2>4. QED
    BY <1>7, <2>1, <2>2, <2>3
<1>10. QED
  BY <1>8, <1>9

(* Pools are put aside from the one list to the other.                        *)
LEMMA StepPools ==
    ASSUME AllocInv, PoolsListedOnce, [Next]_vars
    PROVE  PoolsListedOnce'
<1>1. ASSUME NEW n \in Asked, CarveFromPool(n) \/ NewPoolFails(n) PROVE PoolsListedOnce'
  <2>1. pools' = pools /\ pool' = pool \ Full(n) /\ empty_pool' = empty_pool \cup Full(n)
    BY <1>1 DEF CarveFromPool, NewPoolFails, Kept
  <2>2. Full(n) \subseteq pool
    BY DEF Full, PassedOver
  <2>3. QED
    BY <2>1, <2>2 DEF PoolsListedOnce
<1>2. ASSUME NEW n \in Asked, CarveFromNewPool(n) PROVE PoolsListedOnce'
  <2>1. /\ pools' = pools + 1 /\ pool' = (pool \ Full(n)) \cup {pools + 1}
        /\ empty_pool' = empty_pool \cup Full(n)
    BY <1>2 DEF CarveFromNewPool, Kept
  <2>2. Full(n) \subseteq pool
    BY DEF Full, PassedOver
  <2>3. pools + 1 \notin 1..pools /\ 1..(pools + 1) = (1..pools) \cup {pools + 1}
    BY DEF AllocInv, PoolsTyped
  <2>4. QED
    BY <2>1, <2>2, <2>3 DEF PoolsListedOnce
<1>3. CASE UNCHANGED <<pools, pool, empty_pool>>
  BY <1>3 DEF PoolsListedOnce
<1>4. QED
  BY <1>1, <1>2, <1>3
  DEF Next, AllocHuge, AllocHugeFails, AllocFree, Free, FreeHuge, vars

(* Slabs lie back to back, whatever is done.                                  *)
LEMMA StepGaps ==
    ASSUME ClassesFit, AllocInv, NoGaps, [Next]_vars
    PROVE  NoGaps'
<1>1. ASSUME NEW n \in Asked, CarveFromPool(n) \/ CarveFromNewPool(n) PROVE NoGaps'
  BY <1>1, CarvedFrom, CarveGaps
<1>2. ASSUME UNCHANGED <<depth, slab>> PROVE NoGaps'
  BY <1>2, SameGaps
<1>3. ASSUME NEW n \in Asked, AllocFree(n) PROVE NoGaps'
  <2>1. UNCHANGED depth /\ \E a : slab' = [slab EXCEPT ![a].stat_flag = 1]
    BY <1>3 DEF AllocFree
  <2>2. DOMAIN slab' = DOMAIN slab /\ \A b \in DOMAIN slab : slab'[b].size = slab[b].size
    BY <2>1 DEF AllocInv, SlabsBelowDepth, Slab
  <2>3. QED
    BY <2>1, <2>2, SameGaps
<1>4. ASSUME NEW a \in DOMAIN slab, Free(a) PROVE NoGaps'
  <2>1. UNCHANGED depth /\ (slab' = slab \/ slab' = [slab EXCEPT ![a].stat_flag = 0])
    BY <1>4 DEF Free
  <2>2. DOMAIN slab' = DOMAIN slab /\ \A b \in DOMAIN slab : slab'[b].size = slab[b].size
    BY <2>1 DEF AllocInv, SlabsBelowDepth, Slab
  <2>3. QED
    BY <2>1, <2>2, SameGaps
<1>5. QED
  BY <1>1, <1>2, <1>3, <1>4
  DEF Next, AllocHuge, AllocHugeFails, NewPoolFails, FreeHuge, vars

(* No byte, slab or pool is lost or counted twice, for any sequence of         *)
(* allocations, failures, frees and repeated frees.                          *)
THEOREM NothingEverLost ==
    ASSUME ClassesFit
    PROVE  Spec => []NothingLost
<1>1. SlabLists /\ NoGaps /\ PoolsListedOnce => NothingLost
  BY ListedOnce DEF NothingLost
<1>2. Init => NoGaps /\ PoolsListedOnce
  <2> SUFFICES ASSUME Init PROVE NoGaps /\ PoolsListedOnce
    OBVIOUS
  <2>1. DOMAIN slab = {} /\ \A p \in 1..MaxPools : Capacity - depth[p] = 0
    BY DEF Init, ClassesFit
  <2>2. NoGaps
    BY <2>1 DEF NoGaps
  <2>3. PoolsListedOnce
    BY DEF Init, PoolsListedOnce
  <2>4. QED
    BY <2>2, <2>3
<1>3. AllocInv /\ NoGaps /\ PoolsListedOnce /\ [Next]_vars => NoGaps' /\ PoolsListedOnce'
  BY StepGaps, StepPools
<1>4. AllocInv /\ SlabLists /\ [Next]_vars => SlabLists'
  BY StepLists
<1>5. Init => SlabLists
  BY InitLists
<1>6. QED
  BY InitInv, StepInv, <1>1, <1>2, <1>3, <1>4, <1>5, PTL DEF Spec

-----------------------------------------------------------------------------
(* What is left of the types, and no slab is given to free.                   *)
RestTyped ==
    /\ DOMAIN used_huge \subseteq 1..MaxHuge
    /\ \A h \in DOMAIN used_huge : used_huge[h] \in Nat
    /\ fault = "none"
    /\ DOMAIN asked = DOMAIN slab
    /\ \A a \in DOMAIN asked : asked[a] \in Asked

(* Every operation keeps the rest.                                            *)
LEMMA StepRest ==
    ASSUME ClassesFit, AllocInv, SlabLists, RestTyped, [Next]_vars
    PROVE  RestTyped'
<1>1. ASSUME NEW n \in Asked, NEW h \in 1..MaxHuge, AllocHuge(n, h) PROVE RestTyped'
  BY <1>1 DEF AllocHuge, RestTyped
<1>2. ASSUME NEW n \in Asked, AllocFree(n) PROVE RestTyped'
  <2>1. \E a : slab' = [slab EXCEPT ![a].stat_flag = 1] /\ asked' = [asked EXCEPT ![a] = n]
    BY <1>2 DEF AllocFree
  <2>2. DOMAIN slab' = DOMAIN slab /\ DOMAIN asked' = DOMAIN asked
    BY <2>1
  <2>3. \A a \in DOMAIN asked : asked'[a] \in Asked
    BY <2>1 DEF RestTyped
  <2>4. UNCHANGED <<used_huge, fault>>
    BY <1>2 DEF AllocFree
  <2>5. QED
    BY <2>2, <2>3, <2>4 DEF RestTyped
<1>3. ASSUME NEW n \in Asked, CarveFromPool(n) \/ CarveFromNewPool(n) PROVE RestTyped'
  <2>1. PICK p \in 1..MaxPools : ~IsHuge(n) /\ UNCHANGED used_huge /\ Carve(p, n)
    BY <1>3, CarvedFrom
  <2>2. PICK a : a = <<p, Capacity - depth[p]>>
    OBVIOUS
  <2>3. DOMAIN slab' = DOMAIN slab \cup {a}
    BY <2>1, <2>2, CarvedSlab
  <2>4. asked' = [b \in DOMAIN asked \cup {a} |-> IF b = a THEN n ELSE asked[b]]
    BY <2>1, <2>2 DEF Carve, CarveBytes
  <2>5. UNCHANGED fault
    BY <1>3 DEF CarveFromPool, CarveFromNewPool
  <2>6. QED
    BY <2>1, <2>3, <2>4, <2>5 DEF RestTyped
<1>4. ASSUME NEW a \in DOMAIN slab, Free(a) PROVE RestTyped'
  <2>1. UNCHANGED <<used_huge, fault, asked>> /\ slab' = [slab EXCEPT ![a].stat_flag = 0]
    BY <1>4, NotTakenForHuge DEF Free
  <2>2. QED
    BY <2>1 DEF RestTyped
<1>5. ASSUME NEW h \in 1..MaxHuge, FreeHuge(h) PROVE RestTyped'
  BY <1>5 DEF FreeHuge, RestTyped
<1>6. CASE UNCHANGED <<used_huge, fault, asked, slab>>
  BY <1>6 DEF RestTyped
<1>7. QED
  BY <1>1, <1>2, <1>3, <1>4, <1>5, <1>6 DEF Next, AllocHugeFails, NewPoolFails, vars

(* The count, which is unsigned, is never taken below zero, and no address of *)
(* a pool is given to free, whatever is freed twice.                          *)
THEOREM AllocatorTypes ==
    ASSUME ClassesFit
    PROVE  Spec => [](TypeOK /\ fault = "none")
<1>1. AllocInv /\ PoolsListedOnce /\ SlabLists /\ CountInv /\ RestTyped => TypeOK /\ fault = "none"
  <2> SUFFICES ASSUME AllocInv, PoolsListedOnce, SlabLists, CountInv, RestTyped
                  PROVE  TypeOK /\ fault = "none"
    OBVIOUS
  <2>1. /\ pools \in 1..MaxPools /\ depth \in [1..MaxPools -> Int] /\ pool \subseteq 1..pools
        /\ empty_pool \subseteq 1..pools
    BY DEF AllocInv, PoolsTyped, PoolsListedOnce
  <2>2. DOMAIN slab \subseteq Address /\ \A a \in DOMAIN slab : slab[a] \in Slab
    <3>1. \A a \in DOMAIN slab : a \in (1..pools) \X Nat /\ slab[a] \in Slab
      BY DEF AllocInv, SlabsBelowDepth
    <3>2. 1..pools \subseteq 1..MaxPools
      BY <2>1
    <3>3. QED
      BY <3>1, <3>2 DEF Address
  <2>3. alloc_count \in Nat
    BY FS_CardinalityType DEF CountInv
  <2>4. QED
    BY <2>1, <2>2, <2>3 DEF TypeOK, SlabLists, UsedRight, FreeRight, RestTyped
<1>2. Init => PoolsListedOnce /\ SlabLists /\ CountInv /\ RestTyped
  BY InitLists, InitCount DEF Init, PoolsListedOnce, RestTyped
<1>3. AllocInv /\ PoolsListedOnce /\ SlabLists /\ CountInv /\ RestTyped /\ [Next]_vars
        => PoolsListedOnce' /\ SlabLists' /\ CountInv' /\ RestTyped'
  BY StepPools, StepLists, StepCount, StepRest
<1>4. QED
  BY InitInv, StepInv, <1>1, <1>2, <1>3, PTL DEF Spec
-----------------------------------------------------------------------------
(***************************************************************************)
(* The order of the pools, and the promise to the callers.                 *)
(***************************************************************************)

(* A pool that was put aside has no room for any slab.                        *)
FullAside == \A p \in empty_pool : depth[p] < MinDepth

(* A slab of any class is at least as large as the smallest one.              *)
LEMMA LeastSlab ==
    ASSUME ClassesFit, NEW n \in Asked, ~IsHuge(n)
    PROVE  SlabSize(n) \in Nat /\ MinDepth <= SlabSize(n)
<1>1. PICK i \in Class : i = Index(n) /\ RealSize(n) = ClassSize(i) /\ ClassSize(i) \in Nat
  BY ClassOfRealSize DEF RealSize, ClassesFit
<1>2. DataMinSize <= ClassSize(i)
  BY <1>1 DEF ClassesFit
<1>3. QED
  BY <1>1, <1>2 DEF SlabSize, MinDepth

(* A pool that is put aside stays as it is: nothing is carved from it.        *)
LEMMA StepAside ==
    ASSUME AllocInv, PoolsListedOnce, FullAside, [Next]_vars
    PROVE  FullAside'
<1>1. \A n : Full(n) \subseteq pool /\ \A p \in Full(n) : depth[p] < MinDepth
  BY DEF Full, PassedOver
<1>2. depth \in [1..MaxPools -> Int] /\ pools \in 1..MaxPools
      /\ pool \subseteq 1..pools /\ empty_pool \subseteq 1..pools
  BY DEF AllocInv, PoolsTyped, PoolsListedOnce
<1>3. ASSUME NEW n \in Asked, CarveFromPool(n) PROVE FullAside'
  <2>1. PICK f : f = FirstFit(n)
    OBVIOUS
  <2>2. f \in Fitting(n) /\ \A q \in Fitting(n) : q <= f
    BY <1>2, <1>3, <2>1, LatestFit DEF CarveFromPool, FirstFit
  <2>3. f \in pool /\ f \notin Full(n) /\ f \notin empty_pool
    <3>1. f \in pool /\ f \in 1..pools
      BY <1>2, <2>2 DEF Fitting
    <3>2. f \notin PassedOver(n)
      BY <1>2, <2>2, <3>1 DEF PassedOver
    <3>3. QED
      BY <3>1, <3>2 DEF Full, PoolsListedOnce
  <2>4. \E w : depth' = [depth EXCEPT ![f] = @ - w]
    BY <1>3, <2>1 DEF CarveFromPool, Carve, CarveBytes
  <2>5. \A p \in 1..MaxPools : p # f => depth'[p] = depth[p]
    BY <1>2, <2>4
  <2>6. \A p \in 1..pools : p \in 1..MaxPools
    BY <1>2
  <2>7. empty_pool' = empty_pool \cup Full(n)
    BY <1>3 DEF CarveFromPool
  <2>8. QED
    BY <1>1, <1>2, <2>3, <2>5, <2>6, <2>7 DEF FullAside, MinDepth
<1>4. ASSUME NEW n \in Asked, CarveFromNewPool(n) PROVE FullAside'
  <2>1. \E w : depth' = [depth EXCEPT ![pools + 1] = @ - w]
    BY <1>4 DEF CarveFromNewPool, Carve, CarveBytes
  <2>2. \A p \in 1..pools : p \in 1..MaxPools /\ p # pools + 1
    BY <1>2
  <2>3. \A p \in 1..pools : depth'[p] = depth[p]
    BY <1>2, <2>1, <2>2
  <2>4. empty_pool' = empty_pool \cup Full(n)
    BY <1>4 DEF CarveFromNewPool
  <2>5. QED
    BY <1>1, <1>2, <2>3, <2>4 DEF FullAside, MinDepth
<1>5. ASSUME NEW n \in Asked, NewPoolFails(n) PROVE FullAside'
  BY <1>1, <1>5 DEF NewPoolFails, FullAside, MinDepth
<1>6. CASE UNCHANGED <<depth, empty_pool>>
  BY <1>6 DEF FullAside, MinDepth
<1>7. QED
  BY <1>3, <1>4, <1>5, <1>6
  DEF Next, AllocHuge, AllocHugeFails, AllocFree, Free, FreeHuge, vars

(* When a pool is created, those in the list lack the room for the slab, and  *)
(* those put aside lack it for any slab.                                      *)
LEMMA NewPoolStep ==
    ASSUME ClassesFit, AllocInv, PoolsListedOnce, FullAside, [Next]_vars,
           NEW a \in DOMAIN slab' \ DOMAIN slab, a[1] > pools, NEW p \in 1..pools
    PROVE  depth[p] < slab'[a].size + SlabHeader
<1>1. depth \in [1..MaxPools -> Int] /\ pools \in 1..MaxPools /\ pool \subseteq 1..pools
      /\ DepthNotNegative
  BY DEF AllocInv, PoolsTyped
<1>2. ASSUME NEW n \in Asked, CarveFromPool(n) PROVE FALSE
  <2>1. FirstFit(n) \in Fitting(n)
    BY <1>1, <1>2, LatestFit DEF CarveFromPool, FirstFit
  <2>2. PICK f : f = FirstFit(n) /\ f \in 1..pools
    BY <1>1, <2>1 DEF Fitting
  <2>3. DOMAIN slab' = DOMAIN slab \cup {<<f, Capacity - depth[f]>>}
    BY <1>2, <2>2 DEF CarveFromPool, Carve, CarveBytes
  <2>4. a[1] = f
    BY <2>3
  <2>5. QED
    BY <1>1, <2>2, <2>4
<1>3. ASSUME NEW n \in Asked, CarveFromNewPool(n) PROVE depth[p] < slab'[a].size + SlabHeader
  <2>1. ~IsHuge(n) /\ Fitting(n) = {} /\ Carve(pools + 1, n) /\ pools + 1 \in 1..MaxPools
    BY <1>1, <1>3 DEF CarveFromNewPool, NoFreeSlab
  <2>2. slab'[a].size = RealSize(n)
    <3>1. PICK b : b = <<pools + 1, Capacity - depth[pools + 1]>>
      OBVIOUS
    <3>2. DOMAIN slab' = DOMAIN slab \cup {b} /\ slab'[b] = [size |-> RealSize(n), stat_flag |-> 1]
      BY <2>1, <3>1, CarvedSlab
    <3>3. QED
      BY <3>2
  <2>3. SlabSize(n) \in Nat /\ MinDepth <= SlabSize(n) /\ MinDepth \in Int
    <3>1. MinDepth \in Int
      BY DEF MinDepth
    <3>2. QED
      BY <2>1, <3>1, LeastSlab
  <2>4. depth[p] \in Int /\ p \in 1..MaxPools
    BY <1>1
  <2>5. CASE p \in pool
    <3>1. ~Fits(p, n)
      BY <2>1, <2>5 DEF Fitting
    <3>2. QED
      BY <2>2, <2>3, <2>4, <3>1 DEF Fits, SlabSize
  <2>6. CASE p \in empty_pool
    <3>1. depth[p] < MinDepth
      BY <2>6 DEF FullAside
    <3>2. QED
      BY <2>2, <2>3, <2>4, <3>1 DEF SlabSize
  <2>7. QED
    BY <2>5, <2>6 DEF PoolsListedOnce
<1>4. CASE DOMAIN slab' = DOMAIN slab
  BY <1>4
<1>5. ASSUME NEW n \in Asked, AllocFree(n) PROVE DOMAIN slab' = DOMAIN slab
  BY <1>5 DEF AllocFree
<1>6. ASSUME NEW c \in DOMAIN slab, Free(c) PROVE DOMAIN slab' = DOMAIN slab
  BY <1>6 DEF Free
<1>7. QED
  BY <1>2, <1>3, <1>4, <1>5, <1>6
  DEF Next, AllocHuge, AllocHugeFails, NewPoolFails, FreeHuge, vars

(* Memory is taken for a new pool only when the slab fits into none of the    *)
(* pools there are: none is put aside too early, or passed over in the list. *)
THEOREM PoolsAreFilled ==
    ASSUME ClassesFit
    PROVE  Spec => NewPoolOnlyIfFull
<1>1. Init => PoolsListedOnce /\ FullAside
  BY DEF Init, PoolsListedOnce, FullAside
<1>2. AllocInv /\ PoolsListedOnce /\ FullAside /\ [Next]_vars
        => /\ PoolsListedOnce' /\ FullAside'
           /\ [\A a \in DOMAIN slab' \ DOMAIN slab :
                 a[1] > pools => \A p \in 1..pools : depth[p] < slab'[a].size + SlabHeader]_vars
  BY StepPools, StepAside, NewPoolStep
<1>3. QED
  BY InitInv, StepInv, <1>1, <1>2, PTL DEF Spec, NewPoolOnlyIfFull

-----------------------------------------------------------------------------
(***************************************************************************)
(* The allocator is the allocator its callers are promised.                *)
(***************************************************************************)

(* A slab has the size of its class, and holds what it was handed out for.    *)
SlabsServe ==
    /\ \A a \in DOMAIN slab : slab[a].size = ClassSize(ClassOf(a))
    /\ \A a \in Handed : asked[a] <= slab[a].size

SlabBlock(a) == [area |-> a[1], first |-> a[2] + SlabHeader, last |-> SlabEnd(a),
                 asked |-> asked[a]]
HugeBlock(h) == [area |-> -h, first |-> 0, last |-> used_huge[h], asked |-> used_huge[h]]

(* The blocks the callers have: what Blocks calls inUse.                      *)
BlocksNow == {SlabBlock(a) : a \in InUse} \cup {HugeBlock(h) : h \in DOMAIN used_huge}

(* All that is known of a state.                                              *)
FullInv == AllocInv /\ PoolsListedOnce /\ SlabLists /\ RestTyped /\ SlabsServe

(* A block that is got, and one that is given back.                           *)
LEMMA GetStep ==
    ASSUME NEW b, b \in Blocks!Block, b.last >= b.first + b.asked, b \notin BlocksNow,
           \A c \in BlocksNow : Blocks!Apart(b, c), BlocksNow' = BlocksNow \cup {b}
    PROVE  Blocks!Next
<1>1. Blocks!Get(b)
  BY DEF Blocks!Get, BlocksNow, SlabBlock, HugeBlock
<1>2. b \in BlocksNow' \ BlocksNow
  OBVIOUS
<1>3. QED
  BY <1>1, <1>2 DEF Blocks!Next, BlocksNow, SlabBlock, HugeBlock

LEMMA GiveBackStep ==
    ASSUME NEW b \in BlocksNow, BlocksNow' = BlocksNow \ {b}
    PROVE  Blocks!Next
  BY DEF Blocks!Next, Blocks!GiveBack, BlocksNow, SlabBlock, HugeBlock

(* Two slabs, or two blocks of malloc, are two blocks, and neither is the      *)
(* other.                                                                    *)
LEMMA BlocksDiffer ==
    ASSUME AllocInv, NEW a \in DOMAIN slab
    PROVE  /\ \A c \in DOMAIN slab : a # c => SlabBlock(a) # SlabBlock(c)
           /\ \A h \in 1..MaxHuge : SlabBlock(a) # HugeBlock(h)
<1>1. \A c \in DOMAIN slab : c = <<c[1], c[2]>> /\ c[1] \in Nat \ {0} /\ c[2] \in Nat
  BY DEF AllocInv, SlabsBelowDepth, PoolsTyped
<1>2. ASSUME NEW c \in DOMAIN slab, SlabBlock(a) = SlabBlock(c) PROVE a = c
  <2>1. a[1] = c[1] /\ a[2] + SlabHeader = c[2] + SlabHeader
    BY <1>2 DEF SlabBlock
  <2>2. a[2] = c[2]
    BY <1>1, <2>1
  <2>3. QED
    BY <1>1, <2>1, <2>2
<1>3. ASSUME NEW h \in 1..MaxHuge, SlabBlock(a) = HugeBlock(h) PROVE FALSE
  <2>1. a[1] = -h
    BY <1>3 DEF SlabBlock, HugeBlock
  <2>2. QED
    BY <1>1, <2>1
<1>4. QED
  BY <1>2, <1>3

SlabBlocksDiffer == \A a, c \in DOMAIN slab : a # c => SlabBlock(a) # SlabBlock(c)

LEMMA SlabsDiffer == AllocInv => SlabBlocksDiffer
  BY BlocksDiffer DEF SlabBlocksDiffer

(* A slab that is handed out is a block that is got.                          *)
LEMMA SlabGot ==
    ASSUME FullInv, FullInv', NEW a \in DOMAIN slab', a \notin Handed,
           Handed' = Handed \cup {a}, UNCHANGED used_huge,
           \A c \in Handed : slab'[c].size = slab[c].size /\ asked'[c] = asked[c]
    PROVE  Blocks!Next
<1>1. InUse = Handed /\ InUse' = Handed'
  <2>1. SlabLists /\ SlabLists'
    BY DEF FullInv
  <2>2. (SlabLists => InUse = Handed)'
    BY HandedInUse, PTL
  <2>3. QED
    BY <2>1, <2>2, HandedInUse
<1>2. \A c \in Handed : SlabBlock(c)' = SlabBlock(c) /\ SlabEnd(c)' = SlabEnd(c)
  BY DEF SlabBlock, SlabEnd
<1>3. \A h \in DOMAIN used_huge : HugeBlock(h)' = HugeBlock(h)
  BY DEF HugeBlock
<1>4. PICK b : b = SlabBlock(a)'
  OBVIOUS
<1>5. BlocksNow' = BlocksNow \cup {b}
  BY <1>1, <1>2, <1>3, <1>4 DEF BlocksNow
<1>6. /\ a[1] \in 1..MaxPools /\ a[2] \in Nat /\ slab'[a].size \in Nat
      /\ asked'[a] \in Asked /\ asked'[a] \in Nat /\ asked'[a] <= slab'[a].size
      /\ SlabEnd(a)' = a[2] + slab'[a].size + SlabHeader
  <2>1. a \in (1..pools') \X Nat /\ slab'[a] \in Slab /\ pools' \in 1..MaxPools
    BY DEF FullInv, AllocInv, SlabsBelowDepth, PoolsTyped
  <2>2. asked'[a] \in Asked /\ asked'[a] <= slab'[a].size
    BY DEF FullInv, RestTyped, SlabsServe
  <2>3. a[1] \in 1..MaxPools
    BY <2>1
  <2>4. QED
    BY <2>1, <2>2, <2>3 DEF Slab, SlabEnd
<1>7. b = [area |-> a[1], first |-> a[2] + SlabHeader, last |-> SlabEnd(a)', asked |-> asked'[a]]
  BY <1>4 DEF SlabBlock
<1>8. b \in Blocks!Block
  BY <1>6, <1>7 DEF Blocks!Block
<1>9. b.last >= b.first + b.asked
  BY <1>6, <1>7
<1>10. \A c \in DOMAIN slab' : a # c => SlabBlock(c)' # b
  <2>1. SlabBlocksDiffer'
    <3>1. (AllocInv => SlabBlocksDiffer)'
      BY SlabsDiffer, PTL
    <3>2. QED
      BY <3>1 DEF FullInv
  <2>2. QED
    BY <1>4, <2>1 DEF SlabBlocksDiffer
<1>11. Handed \subseteq DOMAIN slab' /\ DOMAIN used_huge \subseteq 1..MaxHuge
  BY DEF Handed, FullInv, RestTyped
<1>12. \A h \in DOMAIN used_huge : b.area # HugeBlock(h).area /\ HugeBlock(h) # b
  <2>1. \A h \in DOMAIN used_huge : HugeBlock(h).area = -h /\ h \in 1..MaxHuge
    BY <1>11 DEF HugeBlock
  <2>2. b.area = a[1]
    BY <1>7
  <2>3. QED
    BY <1>6, <2>1, <2>2
<1>13. b \notin BlocksNow
  <2>1. \A c \in Handed : SlabBlock(c) # b
    BY <1>2, <1>10, <1>11
  <2>2. QED
    BY <1>1, <1>12, <2>1 DEF BlocksNow
<1>14. \A c \in BlocksNow : Blocks!Apart(b, c)
  <2>1. ASSUME NEW c \in Handed PROVE Blocks!Apart(b, SlabBlock(c))
    <3>1. c # a /\ c \in DOMAIN slab'
      BY <1>11
    <3>2. a[1] = c[1] => SlabEnd(a)' <= c[2] \/ SlabEnd(c)' <= a[2]
      BY <3>1 DEF FullInv, AllocInv, SlabsApart
    <3>3. c[2] \in Nat /\ SlabEnd(c) = SlabEnd(c)'
      BY <1>2 DEF Handed, FullInv, AllocInv, SlabsBelowDepth
    <3>4. SlabEnd(c) \in Nat
      BY DEF Handed, FullInv, AllocInv, SlabsBelowDepth, Slab, SlabEnd
    <3>5. SlabBlock(c).area = c[1] /\ SlabBlock(c).first = c[2] + SlabHeader
          /\ SlabBlock(c).last = SlabEnd(c)
      BY DEF SlabBlock
    <3>6. b.area = a[1] /\ b.first = a[2] + SlabHeader /\ b.last = SlabEnd(a)'
      BY <1>7
    <3>7. a[1] = c[1] => SlabEnd(a)' <= c[2] + SlabHeader \/ SlabEnd(c) <= a[2] + SlabHeader
      BY <1>6, <3>2, <3>3, <3>4
    <3>8. QED
      BY <3>5, <3>6, <3>7 DEF Blocks!Apart
  <2>2. \A h \in DOMAIN used_huge : Blocks!Apart(b, HugeBlock(h))
    BY <1>12 DEF Blocks!Apart
  <2>3. QED
    BY <1>1, <2>1, <2>2 DEF BlocksNow
<1>15. QED
  BY <1>5, <1>8, <1>9, <1>13, <1>14, GetStep

(* A slab that is freed is a block that is given back.                        *)
LEMMA SlabGivenBack ==
    ASSUME FullInv, FullInv', NEW a \in Handed, Handed' = Handed \ {a}, UNCHANGED used_huge,
           \A c \in Handed' : slab'[c].size = slab[c].size /\ asked'[c] = asked[c]
    PROVE  Blocks!Next
<1>1. InUse = Handed /\ InUse' = Handed'
  <2>1. SlabLists /\ SlabLists'
    BY DEF FullInv
  <2>2. (SlabLists => InUse = Handed)'
    BY HandedInUse, PTL
  <2>3. QED
    BY <2>1, <2>2, HandedInUse
<1>2. \A c \in Handed' : SlabBlock(c)' = SlabBlock(c)
  BY DEF SlabBlock, SlabEnd
<1>3. \A h \in DOMAIN used_huge : HugeBlock(h)' = HugeBlock(h)
  BY DEF HugeBlock
<1>4. BlocksNow' = {SlabBlock(c) : c \in Handed \ {a}} \cup {HugeBlock(h) : h \in DOMAIN used_huge}
  BY <1>1, <1>2, <1>3 DEF BlocksNow
<1>5. a \in DOMAIN slab /\ Handed \subseteq DOMAIN slab /\ DOMAIN used_huge \subseteq 1..MaxHuge
  BY DEF Handed, FullInv, RestTyped
<1>6. /\ \A c \in Handed \ {a} : SlabBlock(c) # SlabBlock(a)
      /\ \A h \in DOMAIN used_huge : HugeBlock(h) # SlabBlock(a)
  BY <1>5, BlocksDiffer DEF FullInv
<1>7. BlocksNow' = BlocksNow \ {SlabBlock(a)} /\ SlabBlock(a) \in BlocksNow
  BY <1>1, <1>4, <1>6 DEF BlocksNow
<1>8. QED
  BY <1>7, GiveBackStep

(* The same for the blocks of malloc.                                         *)
LEMMA HugeGot ==
    ASSUME FullInv, NEW n \in Asked, NEW h \in 1..MaxHuge, AllocHuge(n, h)
    PROVE  Blocks!Next
<1>1. /\ h \notin DOMAIN used_huge
      /\ DOMAIN used_huge' = DOMAIN used_huge \cup {h} /\ used_huge'[h] = n
      /\ \A k \in DOMAIN used_huge : used_huge'[k] = used_huge[k]
      /\ UNCHANGED <<slab, used_slabs, asked>>
  BY DEF AllocHuge
<1>2. InUse' = InUse /\ \A a : SlabBlock(a)' = SlabBlock(a)
  BY <1>1 DEF InUse, SlabBlock, SlabEnd
<1>3. PICK b : b = [area |-> -h, first |-> 0, last |-> n, asked |-> n]
  OBVIOUS
<1>4. HugeBlock(h)' = b /\ \A k \in DOMAIN used_huge : HugeBlock(k)' = HugeBlock(k)
  BY <1>1, <1>3 DEF HugeBlock
<1>5. BlocksNow' = BlocksNow \cup {b}
  BY <1>1, <1>2, <1>4 DEF BlocksNow
<1>6. b \in Blocks!Block /\ b.last >= b.first + b.asked
  BY <1>3 DEF Blocks!Block
<1>7. \A c \in BlocksNow : c.area # -h
  <2>1. \A a \in InUse : SlabBlock(a).area = a[1] /\ a[1] \in Nat
    <3>1. \A a \in InUse : a \in DOMAIN slab
      BY HandedInUse DEF FullInv, Handed
    <3>2. \A a \in DOMAIN slab : a[1] \in Nat
      BY DEF FullInv, AllocInv, PoolsTyped, SlabsBelowDepth
    <3>3. QED
      BY <3>1, <3>2 DEF SlabBlock
  <2>2. \A k \in DOMAIN used_huge : HugeBlock(k).area = -k /\ k \in 1..MaxHuge /\ k # h
    BY <1>1 DEF FullInv, RestTyped, HugeBlock
  <2>3. QED
    BY <2>1, <2>2 DEF BlocksNow
<1>8. b \notin BlocksNow /\ \A c \in BlocksNow : Blocks!Apart(b, c)
  BY <1>3, <1>7 DEF Blocks!Apart
<1>9. QED
  BY <1>5, <1>6, <1>8, GetStep

LEMMA HugeGivenBack ==
    ASSUME FullInv, NEW h \in 1..MaxHuge, FreeHuge(h)
    PROVE  Blocks!Next
<1>1. /\ h \in DOMAIN used_huge
      /\ DOMAIN used_huge' = DOMAIN used_huge \ {h}
      /\ \A k \in DOMAIN used_huge' : used_huge'[k] = used_huge[k]
      /\ UNCHANGED <<slab, used_slabs, asked>>
  BY DEF FreeHuge
<1>2. InUse' = InUse /\ \A a : SlabBlock(a)' = SlabBlock(a)
  BY <1>1 DEF InUse, SlabBlock, SlabEnd
<1>3. \A k \in DOMAIN used_huge' : HugeBlock(k)' = HugeBlock(k)
  BY <1>1 DEF HugeBlock
<1>4. BlocksNow' = {SlabBlock(a) : a \in InUse}
                     \cup {HugeBlock(k) : k \in DOMAIN used_huge \ {h}}
  BY <1>1, <1>2, <1>3 DEF BlocksNow
<1>5. \A a \in InUse : SlabBlock(a) # HugeBlock(h)
  <2>1. \A a \in InUse : a \in DOMAIN slab
    BY HandedInUse DEF FullInv, Handed
  <2>2. QED
    BY <2>1, BlocksDiffer DEF FullInv
<1>6. \A k \in DOMAIN used_huge \ {h} : HugeBlock(k) # HugeBlock(h)
  <2>1. ASSUME NEW k \in DOMAIN used_huge, HugeBlock(k) = HugeBlock(h) PROVE k = h
    <3>1. -k = -h
      BY <2>1 DEF HugeBlock
    <3>2. k \in 1..MaxHuge
      BY DEF FullInv, RestTyped
    <3>3. QED
      BY <3>1, <3>2
  <2>2. QED
    BY <2>1
<1>7. BlocksNow' = BlocksNow \ {HugeBlock(h)} /\ HugeBlock(h) \in BlocksNow
  BY <1>1, <1>4, <1>5, <1>6 DEF BlocksNow
<1>8. QED
  BY <1>7, GiveBackStep

(* A free slab of the class, and what handing it out changes.                 *)
LEMMA AllocFreeSlab ==
    ASSUME ClassesFit, AllocInv, SlabLists, NEW n \in Asked, AllocFree(n)
    PROVE  \E a \in DOMAIN slab :
             /\ ClassOf(a) = Index(n) /\ a \notin Handed
             /\ DOMAIN slab' = DOMAIN slab
             /\ slab'[a].stat_flag = 1
             /\ \A b \in DOMAIN slab : /\ slab'[b].size = slab[b].size
                                       /\ b # a => slab'[b] = slab[b]
             /\ asked' = [asked EXCEPT ![a] = n]
<1>1. PICK i \in Class : i = Index(n)
  BY ClassOfRealSize DEF AllocFree
<1>2. PICK q : q = free_slabs[i]
  OBVIOUS
<1>3. q \in Seq(DOMAIN slab) /\ q # <<>> /\ Distinct(q)
  BY <1>1, <1>2 DEF AllocFree, SlabLists, FreeRight
<1>4. PICK a : a = Head(q)
  OBVIOUS
<1>5. a \in Elements(q) /\ a \in DOMAIN slab
  BY <1>3, <1>4, TailDistinct, HeadTailProperties
<1>6. i = ClassOf(a) /\ slab[a].stat_flag = 0
  BY <1>2, <1>5 DEF SlabLists, FreeRight
<1>7. slab' = [slab EXCEPT ![a].stat_flag = 1] /\ asked' = [asked EXCEPT ![a] = n]
  BY <1>1, <1>2, <1>4 DEF AllocFree
<1>8. \A b \in DOMAIN slab : slab[b] \in Slab
  BY DEF AllocInv, SlabsBelowDepth
<1>9. /\ DOMAIN slab' = DOMAIN slab
      /\ slab'[a].stat_flag = 1 /\ slab'[a].size = slab[a].size
      /\ \A b \in DOMAIN slab : b # a => slab'[b] = slab[b]
  BY <1>5, <1>7, <1>8 DEF Slab
<1>10. a \notin Handed
  BY <1>6 DEF Handed
<1>11. \A b \in DOMAIN slab : slab'[b].size = slab[b].size
  BY <1>9
<1>12. QED
  BY <1>1, <1>5, <1>6, <1>7, <1>9, <1>10, <1>11

(* Every slab serves what it is handed out for, a recycled one as well.       *)
LEMMA StepServes ==
    ASSUME ClassesFit, FullInv, [Next]_vars
    PROVE  SlabsServe'
<1>1. AllocInv /\ SlabLists /\ SlabsServe /\ DOMAIN asked = DOMAIN slab
  BY DEF FullInv, RestTyped
<1>2. ASSUME NEW n \in Asked, AllocFree(n) PROVE SlabsServe'
  <2>1. PICK a \in DOMAIN slab :
             /\ ClassOf(a) = Index(n) /\ a \notin Handed
             /\ DOMAIN slab' = DOMAIN slab
             /\ slab'[a].stat_flag = 1
             /\ \A b \in DOMAIN slab : /\ slab'[b].size = slab[b].size
                                       /\ b # a => slab'[b] = slab[b]
             /\ asked' = [asked EXCEPT ![a] = n]
    BY <1>1, <1>2, AllocFreeSlab
  <2>2. n <= slab[a].size
    <3>1. n <= RealSize(n)
      BY <1>2, IndexIsClass DEF AllocFree, ClassesFit
    <3>2. slab[a].size = ClassSize(Index(n))
      BY <1>1, <2>1 DEF SlabsServe
    <3>3. QED
      BY <3>1, <3>2 DEF RealSize
  <2>3. Handed' = Handed \cup {a}
    BY <2>1 DEF Handed
  <2>4. asked'[a] = n /\ \A b \in DOMAIN slab : b # a => asked'[b] = asked[b]
    BY <1>1, <2>1
  <2>5. \A b \in DOMAIN slab' : slab'[b].size = ClassSize(ClassOf(b)')
    BY <1>1, <2>1 DEF SlabsServe, ClassOf
  <2>6. \A b \in Handed' : asked'[b] <= slab'[b].size
    BY <1>1, <2>1, <2>2, <2>3, <2>4 DEF SlabsServe, Handed
  <2>7. QED
    BY <2>5, <2>6 DEF SlabsServe
<1>3. ASSUME NEW n \in Asked, CarveFromPool(n) \/ CarveFromNewPool(n) PROVE SlabsServe'
  <2>1. PICK p \in 1..MaxPools : ~IsHuge(n) /\ Carve(p, n)
    BY <1>1, <1>3, CarvedFrom
  <2>2. PICK a : a = <<p, Capacity - depth[p]>>
    OBVIOUS
  <2>3. /\ a \notin DOMAIN slab
        /\ DOMAIN slab' = DOMAIN slab \cup {a}
        /\ slab'[a] = [size |-> RealSize(n), stat_flag |-> 1]
        /\ \A b \in DOMAIN slab : slab'[b] = slab[b]
    BY <1>1, <2>1, <2>2, CarvedSlab
  <2>4. asked' = [b \in DOMAIN asked \cup {a} |-> IF b = a THEN n ELSE asked[b]]
    BY <2>1, <2>2 DEF Carve, CarveBytes
  <2>5. n <= RealSize(n) /\ RealSize(n) = ClassSize(Index(RealSize(n)))
    BY <2>1, IndexIsClass, ClassOfRealSize DEF RealSize, ClassesFit
  <2>6. \A b \in DOMAIN slab' : slab'[b].size = ClassSize(ClassOf(b)')
    BY <1>1, <2>3, <2>5 DEF SlabsServe, ClassOf
  <2>7. \A b \in Handed' : asked'[b] <= slab'[b].size
    BY <1>1, <2>3, <2>4, <2>5 DEF SlabsServe, Handed
  <2>8. QED
    BY <2>6, <2>7 DEF SlabsServe
<1>4. ASSUME NEW a \in DOMAIN slab, Free(a) PROVE SlabsServe'
  <2>1. UNCHANGED asked /\ slab' = [slab EXCEPT ![a].stat_flag = 0]
    BY <1>1, <1>4, NotTakenForHuge DEF Free
  <2>2. \A b \in DOMAIN slab : slab[b] \in Slab
    BY <1>1 DEF AllocInv, SlabsBelowDepth
  <2>3. DOMAIN slab' = DOMAIN slab /\ \A b \in DOMAIN slab : slab'[b].size = slab[b].size
    BY <2>1, <2>2 DEF Slab
  <2>4. Handed' = Handed \ {a}
    BY <1>1, <1>4, FreeLists
  <2>5. QED
    BY <1>1, <2>1, <2>3, <2>4 DEF SlabsServe, ClassOf, Handed
<1>5. CASE UNCHANGED <<slab, asked>>
  BY <1>1, <1>5 DEF SlabsServe, ClassOf, Handed
<1>6. QED
  BY <1>2, <1>3, <1>4, <1>5
  DEF Next, AllocHuge, AllocHugeFails, NewPoolFails, FreeHuge, vars

(* Every operation gets a block, gives one back or leaves the blocks alone.   *)
LEMMA StepBlocks ==
    ASSUME ClassesFit, FullInv, FullInv', [Next]_vars
    PROVE  Blocks!Next \/ UNCHANGED BlocksNow
<1>1. AllocInv /\ SlabLists /\ SlabLists' /\ DOMAIN asked = DOMAIN slab
  BY DEF FullInv, RestTyped
<1>2. ASSUME NEW n \in Asked, AllocFree(n) PROVE Blocks!Next
  <2>1. PICK a \in DOMAIN slab :
             /\ ClassOf(a) = Index(n) /\ a \notin Handed
             /\ DOMAIN slab' = DOMAIN slab
             /\ slab'[a].stat_flag = 1
             /\ \A b \in DOMAIN slab : /\ slab'[b].size = slab[b].size
                                       /\ b # a => slab'[b] = slab[b]
             /\ asked' = [asked EXCEPT ![a] = n]
    BY <1>1, <1>2, AllocFreeSlab
  <2>2. Handed' = Handed \cup {a}
    BY <2>1 DEF Handed
  <2>3. \A c \in Handed : slab'[c].size = slab[c].size /\ asked'[c] = asked[c]
    BY <1>1, <2>1 DEF Handed
  <2>4. UNCHANGED used_huge
    BY <1>2 DEF AllocFree
  <2>5. QED
    BY <2>1, <2>2, <2>3, <2>4, SlabGot
<1>3. ASSUME NEW n \in Asked, CarveFromPool(n) \/ CarveFromNewPool(n) PROVE Blocks!Next
  <2>1. PICK p \in 1..MaxPools : ~IsHuge(n) /\ UNCHANGED used_huge /\ Carve(p, n)
    BY <1>1, <1>3, CarvedFrom
  <2>2. PICK a : a = <<p, Capacity - depth[p]>>
    OBVIOUS
  <2>3. /\ a \notin DOMAIN slab
        /\ DOMAIN slab' = DOMAIN slab \cup {a}
        /\ slab'[a] = [size |-> RealSize(n), stat_flag |-> 1]
        /\ \A b \in DOMAIN slab : slab'[b] = slab[b]
    BY <1>1, <2>1, <2>2, CarvedSlab
  <2>4. asked' = [b \in DOMAIN asked \cup {a} |-> IF b = a THEN n ELSE asked[b]]
    BY <2>1, <2>2 DEF Carve, CarveBytes
  <2>5. Handed' = Handed \cup {a} /\ a \notin Handed
    BY <2>3 DEF Handed
  <2>6. \A c \in Handed : slab'[c].size = slab[c].size /\ asked'[c] = asked[c]
    BY <1>1, <2>3, <2>4 DEF Handed
  <2>7. QED
    BY <2>1, <2>3, <2>5, <2>6, SlabGot
<1>4. ASSUME NEW a \in DOMAIN slab, Free(a) PROVE Blocks!Next
  <2>1. UNCHANGED <<asked, used_huge>> /\ slab' = [slab EXCEPT ![a].stat_flag = 0]
    BY <1>1, <1>4, NotTakenForHuge DEF Free
  <2>2. a \in Handed /\ Handed' = Handed \ {a}
    BY <1>1, <1>4, FreeLists
  <2>3. \A c \in Handed' : slab'[c].size = slab[c].size
    BY <2>1, <2>2 DEF Handed
  <2>4. QED
    BY <2>1, <2>2, <2>3, SlabGivenBack
<1>5. CASE UNCHANGED <<slab, used_slabs, used_huge, asked>>
  BY <1>5 DEF BlocksNow, SlabBlock, HugeBlock, SlabEnd, InUse
<1>6. QED
  BY <1>2, <1>3, <1>4, <1>5, HugeGot, HugeGivenBack
  DEF Next, AllocHugeFails, NewPoolFails, vars

(* The allocator keeps its promise: a block is at least as large as what was  *)
(* asked for, apart from every block in use, and not handed out again until   *)
(* it is given back, whether it was carved, recycled or taken from malloc.    *)
THEOREM BlocksImplemented ==
    ASSUME ClassesFit
    PROVE  Spec => BlocksSpec
<1>1. Init => Blocks!Init
  BY DEF Init, Blocks!Init, InUse
<1>2. Init => PoolsListedOnce /\ SlabLists /\ RestTyped /\ SlabsServe
  BY InitLists DEF Init, PoolsListedOnce, RestTyped, SlabsServe, Handed
<1>3. Init => FullInv
  BY <1>2, InitInv DEF FullInv
<1>4. FullInv /\ [Next]_vars => FullInv'
  BY StepInv, StepPools, StepLists, StepRest, StepServes DEF FullInv
<1>5. FullInv /\ FullInv' /\ [Next]_vars => Blocks!Next \/ UNCHANGED BlocksNow
  BY StepBlocks
<1>6. Blocks!Next \/ UNCHANGED BlocksNow
        => [Blocks!Next]_({[area |-> a[1], first |-> a[2] + SlabHeader, last |-> SlabEnd(a),
                            asked |-> asked[a]] : a \in InUse}
                          \cup {[area |-> -h, first |-> 0, last |-> used_huge[h],
                                 asked |-> used_huge[h]] : h \in DOMAIN used_huge})
  BY DEF BlocksNow, SlabBlock, HugeBlock
<1>7. QED
  BY <1>1, <1>3, <1>4, <1>5, <1>6, PTL DEF Spec, BlocksSpec, Blocks!Spec
=============================================================================
