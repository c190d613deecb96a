--------------------------------- MODULE WAL ---------------------------------
(***************************************************************************)
(* WALManager of src/src/recovery_wal.cpp: a log file to which one process *)
(* appends DATA, COMMIT and ABORT entries, and from which the next process *)
(* recovers the data of committed transactions.  The file is its bytes, so *)
(* that a process that dies inside an append leaves any prefix of the      *)
(* entry behind.  Opening for append never truncates, so a torn entry      *)
(* stays in the middle of the file once something is written after it.     *)
(***************************************************************************)
EXTENDS Integers, Sequences, SequencesExt, FiniteSets

CONSTANTS WalTxns,         \* transaction ids the callers use
          Payloads,     \* data strings, as sequences of bytes
          MaxEntries,   \* bound on the entries appended, torn ones included
          MaxCrashes    \* bound on the times the process dies

MaxInt == 2147483647

(* Ids and lengths are numbers an int holds. *)
ASSUME WalTxnsAssumption == \A t \in WalTxns : t \in Nat /\ t <= MaxInt
ASSUME PayloadsAssumption == \A p \in Payloads : p \in Seq(0..255) /\ Len(p) <= MaxInt

VARIABLES wal,              \* the bytes of the file
          up,               \* the process is running
          committed_txns,   \* its map from transaction id to "the last marker was COMMIT"
          entries, crashes, \* counters for the bounds
          log,              \* history: the entries that reached the file whole
          acked,            \* history: commits reported to the caller and not aborted since
          recovered,        \* history: this process has called recover()
          tail              \* history: "whole", "torn" when the file ends inside an entry,
                            \* "buried" when something was appended behind such an end

walVars == <<wal, up, committed_txns, entries, crashes, log, acked, recovered, tail>>

DATA == 1
COMMIT == 2
ABORT == 3

-----------------------------------------------------------------------------
(* encode_entry: txn_id, entry_type and length as four little-endian bytes  *)
(* each, then the data.                                                     *)
Int32(n) == <<n % 256, (n \div 256) % 256, (n \div 65536) % 256, n \div 16777216>>

encode_entry(e) == Int32(e.txn_id) \o Int32(e.entry_type) \o Int32(Len(e.data)) \o e.data

(* The four bytes that start i bytes behind pos, read as an integer. *)
ReadInt32(buf, pos, i) ==
  buf[pos + i + 1] + 256 * buf[pos + i + 2] + 65536 * buf[pos + i + 3] + 16777216 * buf[pos + i + 4]

(* decode_entry accepts what is at pos only if header and data are all there. *)
Decodable(buf, pos) ==
  /\ Len(buf) - pos >= 12
  /\ Len(buf) - pos >= 12 + ReadInt32(buf, pos, 8)

decode_entry(buf, pos) ==
  LET len == ReadInt32(buf, pos, 8)
  IN  [txn_id |-> ReadInt32(buf, pos, 0),
       entry_type |-> ReadInt32(buf, pos, 4),
       data |-> SubSeq(buf, pos + 13, pos + 12 + len)]

(* The loop both passes of recover() run: decode from the start, stop at    *)
(* the first position that does not decode.                                 *)
Decoded(buf) ==
  LET from[pos \in 0..Len(buf)] ==
        IF pos < Len(buf) /\ Decodable(buf, pos)
          THEN <<decode_entry(buf, pos)>> \o from[pos + 12 + ReadInt32(buf, pos, 8)]
          ELSE <<>>
  IN  from[0]

IsMarker(e) == e.entry_type \in {COMMIT, ABORT}

(* The txn ids that have a marker. *)
Marked(es) == {es[i].txn_id : i \in {j \in DOMAIN es : IsMarker(es[j])}}

(* A first pass that keeps the first marker it finds. *)
Outcomes_FirstWins(es) ==
  [t \in Marked(es) |->
     LET first == CHOOSE i \in DOMAIN es :
                    /\ IsMarker(es[i]) /\ es[i].txn_id = t
                    /\ \A j \in 1..(i - 1) : ~(IsMarker(es[j]) /\ es[j].txn_id = t)
     IN  es[first].entry_type = COMMIT]

(* First pass: the last marker of each transaction decides. *)
Outcomes(es) ==
  [t \in Marked(es) |->
     LET last == CHOOSE i \in DOMAIN es :
                   /\ IsMarker(es[i]) /\ es[i].txn_id = t
                   /\ \A j \in (i + 1)..Len(es) : ~(IsMarker(es[j]) /\ es[j].txn_id = t)
     IN  es[last].entry_type = COMMIT]

(* The second pass, entry by entry: the DATA entries of the transactions in *)
(* ts, in the order of the file.                                            *)
DataOf(es, ts) ==
  LET kept[i \in 0..Len(es)] ==
        IF i = 0 THEN <<>>
        ELSE IF es[i].entry_type = DATA /\ es[i].txn_id \in ts THEN Append(kept[i - 1], es[i])
        ELSE kept[i - 1]
  IN  kept[Len(es)]

(* It keeps those the first pass found committed. *)
RecoveredFrom(es) == DataOf(es, {t \in DOMAIN Outcomes(es) : Outcomes(es)[t]})

(* A recovery that throws everything away when the file does not decode to  *)
(* its end.                                                                 *)
Recover_AllOrNothing(buf) ==
  IF Len(FlattenSeq([i \in DOMAIN Decoded(buf) |-> encode_entry(Decoded(buf)[i])])) = Len(buf)
    THEN RecoveredFrom(Decoded(buf)) ELSE <<>>

(* What recover() returns for a file. *)
Recover(buf) == RecoveredFrom(Decoded(buf))

-----------------------------------------------------------------------------
WalInit == /\ wal = <<>> /\ up = TRUE /\ committed_txns = <<>>
           /\ entries = 0 /\ crashes = 0
           /\ log = <<>> /\ acked = {} /\ recovered = FALSE /\ tail = "whole"

Entry(t, type, data) == [txn_id |-> t, entry_type |-> type, data |-> data]

(* One append: the stream is opened for append, written and closed. *)
AppendEntry(e) ==
  /\ up /\ entries < MaxEntries
  /\ entries' = entries + 1
  /\ wal' = wal \o encode_entry(e)
  /\ log' = Append(log, e)
  /\ tail' = IF tail = "whole" THEN "whole" ELSE "buried"
  /\ UNCHANGED <<up, crashes, recovered>>

SetOutcome(t, b) ==
  committed_txns' = [x \in DOMAIN committed_txns \cup {t} |-> IF x = t THEN b ELSE committed_txns[x]]

write_data(t, p) == /\ AppendEntry(Entry(t, DATA, p))
                    /\ UNCHANGED <<committed_txns, acked>>

write_commit(t) == /\ AppendEntry(Entry(t, COMMIT, <<>>))
                   /\ SetOutcome(t, TRUE)
                   /\ acked' = acked \cup {t}

(* An abort that forgets the map. *)
write_abort_NoMap(t) == /\ AppendEntry(Entry(t, ABORT, <<>>))
                        /\ acked' = acked \ {t}
                        /\ UNCHANGED committed_txns

write_abort(t) == /\ AppendEntry(Entry(t, ABORT, <<>>))
                  /\ SetOutcome(t, FALSE)
                  /\ acked' = acked \ {t}

recover == /\ up
           /\ committed_txns' = Outcomes(Decoded(wal))
           /\ recovered' = TRUE
           /\ UNCHANGED <<wal, up, entries, crashes, log, acked, tail>>

(* The process dies inside an append, when n bytes of the entry are in the  *)
(* file.  With n = 0 it dies before, with all of them after the write: then *)
(* the entry counts, though its caller never hears of it.                   *)
CrashInAppend(e, n) ==
  /\ up /\ entries < MaxEntries /\ crashes < MaxCrashes
  /\ entries' = entries + 1
  /\ crashes' = crashes + 1
  /\ up' = FALSE
  /\ wal' = wal \o SubSeq(encode_entry(e), 1, n)
  /\ LET whole == n = Len(encode_entry(e)) IN
       /\ log' = IF whole THEN Append(log, e) ELSE log
       /\ acked' = IF whole /\ e.entry_type = ABORT THEN acked \ {e.txn_id} ELSE acked
  /\ tail' = CASE n = 0 -> tail
              [] n > 0 /\ tail # "whole" -> "buried"
              [] n > 0 /\ tail = "whole" -> IF n = Len(encode_entry(e)) THEN "whole" ELSE "torn"
  /\ committed_txns' = <<>> /\ recovered' = FALSE

(* A new process: a fresh WALManager on the same path. *)
Restart == /\ ~up
           /\ up' = TRUE
           /\ UNCHANGED <<wal, committed_txns, entries, crashes, log, acked, recovered, tail>>

AllEntries == {Entry(t, DATA, p) : t \in WalTxns, p \in Payloads}
                \cup {Entry(t, m, <<>>) : t \in WalTxns, m \in {COMMIT, ABORT}}

WalNext == \/ \E t \in WalTxns : \/ \E p \in Payloads : write_data(t, p)
                                 \/ write_commit(t)
                                 \/ write_abort(t)
           \/ recover
           \/ \E e \in AllEntries : \E n \in 0..Len(encode_entry(e)) : CrashInAppend(e, n)
           \/ Restart

WalSpec == WalInit /\ [][WalNext]_walVars

-----------------------------------------------------------------------------
(* Every variable has the shape of what it stands for. *)
WalTypeOK == /\ wal \in Seq(0..255)
             /\ up \in BOOLEAN
             /\ committed_txns \in [DOMAIN committed_txns -> BOOLEAN]
             /\ log \in Seq(AllEntries)
             /\ acked \subseteq WalTxns
             /\ recovered \in BOOLEAN /\ tail \in {"whole", "torn", "buried"}

(* The reference for a committed transaction: it has a COMMIT marker with   *)
(* no ABORT marker behind it.                                               *)
CommittedIn(es, t) ==
  \E i \in DOMAIN es : /\ es[i] = Entry(t, COMMIT, <<>>)
                       /\ \A j \in (i + 1)..Len(es) : es[j] # Entry(t, ABORT, <<>>)

(* A crash at any byte costs nothing but the entry it cut: as long as       *)
(* nothing was appended behind a torn entry, recover() returns exactly the  *)
(* committed data of the entries that reached the file whole, in order.     *)
RecoverExact ==
  tail # "buried" => Recover(wal) = DataOf(log, {t \in WalTxns : CommittedIn(log, t)})

(* Once a process has recovered, its map of outcomes and the file never     *)
(* disagree, whatever it appends: the map that write_commit and write_abort *)
(* maintain is the one a recovery would compute.                            *)
MemoryAgreesWithFile ==
  up /\ recovered /\ tail # "buried" => committed_txns = Outcomes(Decoded(wal))

Aborted(t) == Len(log') > Len(log) /\ Last(log') = Entry(t, ABORT, <<>>)

NoLossStep ==
  tail' = "buried" \/ \A i \in DOMAIN Recover(wal) :
                \/ Aborted(Recover(wal)[i].txn_id)
                \/ \E j \in DOMAIN Recover(wal') : Recover(wal')[j] = Recover(wal)[i]

(* What was recoverable before a step is recoverable after it, crashes in   *)
(* the middle of a write included, unless the step is an abort of the       *)
(* transaction the entry belongs to, or something has been appended behind  *)
(* a torn entry: from the first such append on nothing is claimed, because  *)
(* recover() may then take torn and new bytes together for an entry.        *)
NothingLost == [][NoLossStep]_walVars

(* The data entries of transaction t that reached the file whole. *)
WrittenBy(t) == {e \in ToSet(log) : e.entry_type = DATA /\ e.txn_id = t}

(* "WAL provides durability ... Only committed transactions survive": a     *)
(* commit that write_commit reported can be recovered, with all its data.   *)
AckedCommitSurvives == \A t \in acked : WrittenBy(t) \subseteq ToSet(Recover(wal))
=============================================================================
