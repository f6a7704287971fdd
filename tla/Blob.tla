-------------------------------- MODULE Blob --------------------------------
(***************************************************************************)
(* The blobs of libblob (blob.c): attributes one after the other in one    *)
(* buffer, each with a type, a length, a name and a value.  A table's      *)
(* value is attributes again; its length is written when it is closed, at  *)
(* the address that was kept for it on an array stack (array_stack.c).     *)
(*                                                                         *)
(* The memory is what was written to it: an attribute at each offset where *)
(* one was composed, its lengths with their width, its value in bytes.     *)
(*                                                                         *)
(* The code checks neither that an attribute fits into the buffer nor that *)
(* a table that is closed was opened.  That is left to the callers, as is  *)
(* the depth to which tables nest: a full stack refuses the address of a   *)
(* table, and nobody looks at what array_stack_push returns.               *)
(***************************************************************************)
EXTENDS Integers, Sequences

CONSTANTS Name,
          NameLen,    (* strlen of each name                               *)
          Extensions, (* the names that begin with a name, itself included *)
          Number, String, Buffer,
                      (* what callers add: integers, and bytes             *)
          BlobLen,    (* the bytes of the buffer, 512                      *)
          StackLen,   (* the bytes of the stack, 100                       *)
          Step,       (* the bytes of an address                           *)
          MaxDepth,   (* to how many open tables the callers go            *)
          Policy,     (* the names blob_parse_to_attr looks for            *)
          Unset       (* what a table of pointers holds before it is set   *)

Byte == 0..255
Width == 65536 (* the lengths are uint16_t                                  *)
FixedLen == 5  (* type, len and name_len, packed                            *)
IntLen == [u8 |-> 1, u16 |-> 2, u32 |-> 4, u64 |-> 8]
Type == DOMAIN IntLen \cup {"string", "buffer", "table"}
(* The values of an int.                                                     *)
Int32 == {v \in Int : -32768 <= v \div 65536 /\ v \div 65536 <= 32767}

ASSUME BlobAssumption ==
    /\ NameLen \in [Name -> Nat]
    (* A longer name makes blob_get_data_len, which takes the offset of the  *)
    (* value for a uint8_t, return too much.                                 *)
    /\ \A n \in Name : FixedLen + NameLen[n] + 1 < 256
    /\ Extensions \in [Name -> SUBSET Name]
    /\ \A n \in Name : n \in Extensions[n]
    (* What callers add as a number, and read again, they keep in an int.    *)
    /\ Number \subseteq Int32
    /\ String \subseteq Seq(Byte \ {0})
    /\ Buffer \subseteq Seq(Byte)
    /\ BlobLen \in Nat /\ BlobLen < Width
    /\ StackLen \in Nat /\ Step \in Nat \ {0}
    /\ MaxDepth \in Nat
    (* Else the address of the innermost table is lost.                      *)
    /\ MaxDepth * Step < StackLen
    /\ Policy \in Seq(Name)
    /\ Unset \notin Nat

VARIABLES
    attr,       (* attr[o]: the attribute at offset o of the buffer        *)
    tail,       (* the offset of the next one                              *)
    tbl_stack,  (* the offsets of the open tables                          *)
    nesting,    (* how many tables the callers have to close               *)
    blob_fault  (* "none", or what has gone wrong in memory                *)

blobVars == <<attr, tail, tbl_stack, nesting, blob_fault>>

BlobInit ==
    /\ attr = <<>>
    /\ tail = 0
    /\ tbl_stack = <<>>
    /\ nesting = 0
    /\ blob_fault = "none"
-----------------------------------------------------------------------------
(* The offset of the value of an attribute in it, and the attribute's length. *)
PrefixLen(n) == FixedLen + NameLen[n] + 1
AttrLen(n, bytes) == (PrefixLen(n) + Len(bytes)) % Width

Attr(type, n, bytes) ==
    [type |-> type, len |-> AttrLen(n, bytes), name_len |-> (NameLen[n] + 1) % Width,
     name |-> n, value |-> bytes]

WithAttr(o, x) == [p \in DOMAIN attr \cup {o} |-> IF p = o THEN x ELSE attr[p]]

HasRoom(len) == tail + len <= BlobLen

(* blob_add                                                                  *)
Add(type, n, bytes) ==
    /\ HasRoom(PrefixLen(n) + Len(bytes))
    /\ attr' = WithAttr(tail, Attr(type, n, bytes))
    /\ tail' = tail + AttrLen(n, bytes)

(* The bytes of an int converted to w of them, the most significant first.    *)
Weight == <<1, 256, 65536, 16777216>>

BigEndian(v, w) ==
    [i \in 1..w |-> IF w - i < 4 THEN (v \div Weight[w - i + 1]) % 256
                    ELSE IF v < 0 THEN 255 ELSE 0]

AddInt(type, n, v) == Add(type, n, BigEndian(v, IntLen[type]))
AddString(n, s) == Add("string", n, Append(s, 0))
AddBuffer(n, b) == Add("buffer", n, b)

AddValue(n) ==
    /\ \/ \E type \in DOMAIN IntLen, v \in Number : AddInt(type, n, v)
       \/ \E s \in String : AddString(n, s)
       \/ \E b \in Buffer : AddBuffer(n, b)
    /\ UNCHANGED <<tbl_stack, nesting, blob_fault>>

(* array_stack_push refuses what would reach the end of the stack.           *)
Pushed(s, o) == IF (Len(s) + 1) * Step < StackLen THEN Append(s, o) ELSE s

AddTableStart(n) ==
    /\ nesting < MaxDepth
    /\ Add("table", n, <<>>)
    /\ tbl_stack' = Pushed(tbl_stack, tail)
    /\ nesting' = nesting + 1
    /\ UNCHANGED blob_fault

(* Variant for mutation: the oldest table is closed first.                    *)
Oldest(s) == s[1]

Top(s) == s[Len(s)]
Popped(s) == SubSeq(s, 1, Len(s) - 1)
(* Variant for mutation: the length of the value is written.                 *)
TableDataLen(start) == (tail - start - FixedLen) % Width

TableLen(start) == (tail - start) % Width

(* What array_stack_pop leaves alone stays NULL, and is written to.          *)
AddTableEnd ==
    /\ nesting > 0
    /\ nesting' = nesting - 1
    /\ IF tbl_stack = <<>>
         THEN /\ blob_fault' = "table at NULL"
              /\ UNCHANGED <<attr, tbl_stack>>
         ELSE /\ attr' = [attr EXCEPT ![Top(tbl_stack)].len = TableLen(Top(tbl_stack))]
              /\ tbl_stack' = Popped(tbl_stack)
              /\ UNCHANGED blob_fault
    /\ UNCHANGED tail

(* Variant for mutation: only the attribute itself is copied.                 *)
CopiedAlone(from) == WithAttr(tail, attr[from])

(* blob_catenate copies an attribute with all that is in it.  busd takes it   *)
(* from the blob it has received, which was composed in the same way; here it *)
(* is one of this blob, a table only once it is closed.                       *)
Copied(from) ==
    LET span == from..(from + attr[from].len - 1)
        to   == {tail + p - from : p \in DOMAIN attr \cap span}
    IN  [p \in DOMAIN attr \cup to |-> IF p \in to THEN attr[p - tail + from] ELSE attr[p]]

Closed == {o \in DOMAIN attr : \A k \in DOMAIN tbl_stack : tbl_stack[k] # o}

Catenate(from) ==
    /\ HasRoom(attr[from].len)
    /\ attr' = Copied(from)
    /\ tail' = tail + attr[from].len
    /\ UNCHANGED <<tbl_stack, nesting, blob_fault>>

(* blob_reset leaves the stack alone, and is for a blob without open tables.  *)
Reset ==
    /\ nesting = 0
    /\ attr' = <<>>
    /\ tail' = 0
    /\ UNCHANGED <<tbl_stack, nesting, blob_fault>>

BlobNext ==
    \/ \E n \in Name : AddValue(n) \/ AddTableStart(n)
    \/ AddTableEnd
    \/ \E from \in Closed : Catenate(from)
    \/ Reset

BlobSpec == BlobInit /\ [][BlobNext]_blobVars
-----------------------------------------------------------------------------
(* How a blob is read.                                                       *)
DataAt(o) == o + FixedLen + attr[o].name_len
DataLen(o) == attr[o].len - ((DataAt(o) - o) % 256)

(* The offsets blob_for_each_attr goes through from one to another.          *)
Steps(first, last) ==
    LET from[o \in 0..(BlobLen + Width)] ==
            IF o >= last \/ o \notin DOMAIN attr THEN <<>>
            ELSE <<o>> \o from[o + attr[o].len]
    IN  from[first]

(* Variant for mutation: as many characters are compared as the attribute's   *)
(* name has.                                                                 *)
ParsedByOwnLength(first, last) ==
    LET steps == Steps(first, last)
        Matching(i) == {k \in DOMAIN steps : Policy[i] \in Extensions[attr[steps[k]].name]}
    IN  [i \in DOMAIN Policy |->
            IF Matching(i) = {} THEN Unset
            ELSE steps[CHOOSE k \in Matching(i) : \A j \in Matching(i) : j <= k]]

(* blob_parse_to_attr: for each name the last attribute that begins with it,  *)
(* since strncmp compares as many characters as the name has.                *)
Parsed(first, last) ==
    LET steps == Steps(first, last)
        Matching(i) == {k \in DOMAIN steps : attr[steps[k]].name \in Extensions[Policy[i]]}
    IN  [i \in DOMAIN Policy |->
            IF Matching(i) = {} THEN Unset
            ELSE steps[CHOOSE k \in Matching(i) : \A j \in Matching(i) : j <= k]]

(* What is read of an integer, least significant byte first: callers keep     *)
(* those of 4 bytes and more in an int.                                      *)
Signed(b) == IF b > 127 THEN b - 256 ELSE b
GetInt(o) ==
    LET bytes == attr[o].value
        Low(k) == IF k <= Len(bytes) THEN bytes[Len(bytes) + 1 - k] ELSE 0
    IN  Low(1) + Weight[2] * Low(2) + Weight[3] * Low(3) + Weight[4] * Signed(Low(4))

GetString(o) ==
    LET bytes == attr[o].value
        end   == CHOOSE k \in DOMAIN bytes : bytes[k] = 0 /\ \A j \in 1..(k - 1) : bytes[j] # 0
    IN  SubSeq(bytes, 1, end - 1)

GetBuffer(o) == SubSeq(attr[o].value, 1, DataLen(o))
-----------------------------------------------------------------------------
(* Each table a caller has to close is on the stack, in order, so that its    *)
(* end is written to its own head and never to that of another, nor to NULL.  *)
TablesPaired ==
    /\ blob_fault = "none"
    /\ Len(tbl_stack) = nesting
    /\ \A k \in 1..Len(tbl_stack) :
         /\ attr[tbl_stack[k]].type = "table"
         /\ \A j \in 1..(k - 1) : tbl_stack[j] < tbl_stack[k]

End(o) == o + attr[o].len

(* Attributes that are complete lie apart or one in the other, and in none    *)
(* does a table begin that is still open: a length that is written later      *)
(* never cuts through what was there.                                        *)
ExtentsNest ==
    /\ \A o \in DOMAIN attr : End(o) <= tail
    /\ \A o, p \in DOMAIN attr : o < p => End(o) <= p \/ End(p) <= End(o)
    /\ \A o \in DOMAIN attr, k \in 1..Len(tbl_stack) : o < tbl_stack[k] => End(o) <= tbl_stack[k]

(* Whatever was opened, closed, copied and added, each table is closed where   *)
(* it was opened, and no length cuts through an attribute.                    *)
WellNested == TablesPaired /\ ExtentsNest
=============================================================================
