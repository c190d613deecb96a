----------------------------- MODULE MCRowCache -----------------------------
(***************************************************************************)
(* A cache of two rows, two tables and two seconds: enough keys to fill    *)
(* it, to repeat one and to run past the end with stale entries in front.  *)
(***************************************************************************)
EXTENDS RowCache

(* Equal lists, too few values, and a column named twice. *)
MCInputs == {<< <<"id", "qty">>, <<"1", "2">> >>, << <<"id", "id">>, <<"1", "2">> >>,
             << <<"id", "qty">>, <<"1">> >>}
=============================================================================
