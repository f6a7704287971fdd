------------------------------- MODULE MCBlob -------------------------------
(* Values to model-check blobs with.                                         *)
EXTENDS BlobReader

CONSTANTS a, ab

MCExtensions == [n \in Name |-> IF n = a THEN {a, ab} ELSE {n}]
MCNameLen == [n \in Name |-> IF n = a THEN 1 ELSE 2]
MCNumber == {-1, 300}
MCString == {<<65>>, <<>>}
MCBuffer == {<<0, 1>>}
MCPolicy == <<a, ab>>
=============================================================================
