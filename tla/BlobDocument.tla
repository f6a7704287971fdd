---------------------------- MODULE BlobDocument ----------------------------
(***************************************************************************)
(* What a blob promises: a document of named values and tables of such, in *)
(* the order in which they were added.  An item goes to the innermost      *)
(* table that is open.                                                     *)
(***************************************************************************)
EXTENDS Integers, Sequences

CONSTANTS Name, Value,
          MaxDepth, (* how many tables are open at once                    *)
          Deepest,  (* bound: how deep items lie                           *)
          Root      (* the name of the document                            *)

VARIABLE frames (* the document and the open tables, the innermost last     *)

NoItems == [name |-> Root, items |-> <<>>]

Init == frames = <<NoItems>>

WithItem(f, x) == [f EXCEPT !.items = Append(@, x)]

Extend(x) == frames' = [frames EXCEPT ![Len(frames)] = WithItem(@, x)]

Add(n, v) == Extend([name |-> n, value |-> v])

Open(n) ==
    /\ Len(frames) <= MaxDepth
    /\ frames' = Append(frames, [name |-> n, items |-> <<>>])

Close ==
    LET k == Len(frames)
    IN  /\ k > 1
        /\ frames' = [i \in 1..(k - 1) |->
                        IF i = k - 1 THEN WithItem(frames[i], frames[k]) ELSE frames[i]]

(* The items at each depth below the open tables and above the next.         *)
ItemsTo ==
    LET Items(S) == UNION {{x.items[i] : i \in DOMAIN x.items} : x \in S}
        Tables(S) == {x \in S : "items" \in DOMAIN x}
        upTo[d \in 0..Deepest] ==
            IF d = 0 THEN Items({frames[k] : k \in DOMAIN frames})
            ELSE upTo[d - 1] \cup Items(Tables(upTo[d - 1]))
    IN  upTo[Deepest]

Copy == \E x \in ItemsTo : Extend(x)

Clear == Len(frames) = 1 /\ Init'

Next ==
    \/ \E n \in Name, v \in Value : Add(n, v)
    \/ \E n \in Name : Open(n)
    \/ Close
    \/ Copy
    \/ Clear

Spec == Init /\ [][Next]_frames
=============================================================================
