------------------------ MODULE MCTransactionManager ------------------------
(***************************************************************************)
(* Two tables whose names make the key of row "b" of table "t:a" that of   *)
(* row "a:b" of table "t", so that two rows share a slot of the buffer.    *)
(***************************************************************************)
EXTENDS TransactionManager

MCTables == {<<"t">>, <<"t", "a">>}
MCRowIds == {<<"b">>, <<"a", "b">>}

(* Row "t:b" is stored, the others are not. *)
MCStored == [k \in Keys |-> IF k = <<"t", "b">> THEN [data |-> 0, is_deleted |-> FALSE] ELSE NoRow]
=============================================================================
