----------------------------- MODULE AtomicStore -----------------------------
(***************************************************************************)
(* What the transactional row store of transaction_correctness.cpp         *)
(* promises, without version lists, states or write sets: a transaction    *)
(* collects rows nobody else can see, and one step either publishes all of *)
(* them or drops all of them.                                              *)
(***************************************************************************)
CONSTANTS TxIds,    \* transaction identifiers
          Rows      \* what an insert adds: a table, a row key and the data

VARIABLES open,       \* transactions that have begun and not ended
          ended,      \* transactions that have committed or rolled back
          pending,    \* pending[t]: rows t inserted and has not published
          published   \* rows every reader sees

avars == <<open, ended, pending, published>>

AInit == /\ open = {}
         /\ ended = {}
         /\ pending = [t \in TxIds |-> {}]
         /\ published = {}

ABegin(t) == /\ t \notin open \cup ended
             /\ open' = open \cup {t}
             /\ UNCHANGED <<ended, pending, published>>

AInsert(t, r) == /\ t \in open
                 /\ pending' = [pending EXCEPT ![t] = @ \cup {r}]
                 /\ UNCHANGED <<open, ended, published>>

AEnd(t) == /\ t \in open
           /\ open' = open \ {t}
           /\ ended' = ended \cup {t}
           /\ pending' = [pending EXCEPT ![t] = {}]

ACommit(t) == AEnd(t) /\ published' = published \cup pending[t]

ARollback(t) == AEnd(t) /\ UNCHANGED published

ANext == \E t \in TxIds : \/ ABegin(t)
                          \/ \E r \in Rows : AInsert(t, r)
                          \/ ACommit(t)
                          \/ ARollback(t)

ASpec == AInit /\ [][ANext]_avars
==============================================================================
