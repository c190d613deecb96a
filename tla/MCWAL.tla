-------------------------------- MODULE MCWAL --------------------------------
(***************************************************************************)
(* Two transactions, a one-byte payload, and a crash at any byte of any    *)
(* append.                                                                 *)
(***************************************************************************)
EXTENDS WAL

MCPayloads == {<<7>>}
=============================================================================
