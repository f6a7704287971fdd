----------------------------- MODULE BlobReader -----------------------------
(***************************************************************************)
(* The document that a blob is to those who read it with for_each and the  *)
(* getters of blob.c, and what blob_parse_to_attr finds in it.             *)
(***************************************************************************)
EXTENDS Blob

CONSTANT Root (* the name of the document                                   *)

(* An integer as its type holds it.                                          *)
Held(type, v) == IF type \in {"u8", "u16"} THEN v % Weight[IntLen[type] + 1] ELSE v

Value ==
    {[type |-> t, data |-> Held(t, v)] : t \in DOMAIN IntLen, v \in Number}
        \cup [type : {"string"}, data : String]
        \cup [type : {"buffer"}, data : Buffer]

(* The document, as the readers of blob.c return it.                         *)
ReadValue(o) ==
    [type |-> attr[o].type,
     data |-> CASE attr[o].type = "string" -> GetString(o)
                [] attr[o].type = "buffer" -> GetBuffer(o)
                [] OTHER -> GetInt(o)]

Inside(o) == Steps(DataAt(o), DataAt(o) + DataLen(o))

Read ==
    LET item[o \in DOMAIN attr] ==
            IF attr[o].type = "table"
            THEN [name |-> attr[o].name,
                  items |-> [k \in DOMAIN Inside(o) |-> item[Inside(o)[k]]]]
            ELSE [name |-> attr[o].name, value |-> ReadValue(o)]
    IN  item

(* An open table reaches to the next, and the innermost to the tail.         *)
FrameRead(k) ==
    LET begin == IF k = 1 THEN 0 ELSE DataAt(tbl_stack[k - 1])
        end   == IF k <= Len(tbl_stack) THEN tbl_stack[k] ELSE tail
        steps == Steps(begin, end)
    IN  [name  |-> IF k = 1 THEN Root ELSE attr[tbl_stack[k - 1]].name,
         items |-> [i \in DOMAIN steps |-> Read[steps[i]]]]

Document == INSTANCE BlobDocument WITH
    Deepest <- BlobLen \div FixedLen,
    frames  <- [k \in 1..(Len(tbl_stack) + 1) |-> FrameRead(k)]

(* What for_each, the getters and the lengths give back of a blob is the      *)
(* document that was composed, at every moment, with all its tables open,     *)
(* closed, empty, nested and copied.                                         *)
DocumentSpec == Document!Spec

(* blob_parse_to_attr gives the last item of a table that has the name        *)
(* looked for, if no other item of that table has a name that begins with it. *)
LookupFindsOwn ==
    \A o \in Closed : attr[o].type = "table" =>
        LET items  == Read[o].items
            parsed == Parsed(DataAt(o), DataAt(o) + DataLen(o))
        IN  \A i \in DOMAIN Policy :
                LET named == {k \in DOMAIN items : items[k].name = Policy[i]}
                    alike == {k \in DOMAIN items : items[k].name \in Extensions[Policy[i]]}
                IN  alike = named =>
                      IF named = {} THEN parsed[i] = Unset
                      ELSE Read[parsed[i]] = items[CHOOSE k \in named : \A j \in named : j <= k]
=============================================================================
