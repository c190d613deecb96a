----------------------------- MODULE MCAdvanced -----------------------------
(***************************************************************************)
(* The three classes of advanced_features.cpp share no state, so each      *)
(* behaviour exercises one of them: part says which.                       *)
(***************************************************************************)
EXTENDS EventCycles, GraphEngine, DeclaredIntentTable

VARIABLE part

vars == <<eventVars, graphVars, tableVars, part>>

Init == /\ EventInit /\ GraphInit /\ TableInit
        /\ part \in {"events", "graph", "table"}

Next == \/ part = "events" /\ EventNext /\ UNCHANGED <<graphVars, tableVars, part>>
        \/ part = "graph" /\ GraphNext /\ UNCHANGED <<eventVars, tableVars, part>>
        \/ part = "table" /\ TableNext /\ UNCHANGED <<eventVars, graphVars, part>>

Spec == Init /\ [][Next]_vars
=============================================================================
