----------------------------- MODULE HardenedWAL -----------------------------
(***************************************************************************)
(* The three readers of log files with a commit flag: parse_wal_hardened   *)
(* of src/src/recovery_wal_hardened.cpp, verify_transaction_integrity of   *)
(* src/src/transaction_integrity_e2e.cpp and recover_from_wal of src/src/  *)
(* query_executor_public_api.cpp.  The files are the ones their programs   *)
(* write: whole entries, headers with a length beyond the limit and no     *)
(* data, and at the end possibly a piece of an entry.  There may be no     *)
(* file: parse_wal_hardened and recover_from_wal then return at once what  *)
(* they return for an empty one, and the integrity check reports it.       *)
(***************************************************************************)
EXTENDS Integers, Sequences, FiniteSets

CONSTANTS LogTxns,          \* transaction ids
          LogData,          \* data of whole entries, as sequences of bytes
          BadLengths,       \* lengths beyond the limit
          MAX_ENTRY_SIZE,   \* 65536 in the code
          MaxLogEntries     \* bound on the entries written

MaxWord == 2147483647

(* Ids and lengths are below 2^31. *)
ASSUME LogAssumption == /\ \A t \in LogTxns : t \in Nat /\ t <= MaxWord
                        /\ MAX_ENTRY_SIZE \in Nat /\ MAX_ENTRY_SIZE <= MaxWord
                        /\ \A d \in LogData : d \in Seq(0..255) /\ Len(d) <= MAX_ENTRY_SIZE
                        /\ \A n \in BadLengths : n \in Nat /\ MAX_ENTRY_SIZE < n /\ n <= MaxWord

VARIABLES exists,     \* the file is there and can be opened
          file,       \* its bytes
          whole,      \* history: the entries written whole
          bad,        \* history: how many headers with a bad length
          torn        \* history: the bytes of the piece at the end, 0 for none

logVars == <<exists, file, whole, bad, torn>>

LogEntry(t, flag, d) == [txn_id |-> t, is_committed |-> flag, data |-> d]

Word(n) == <<n % 256, (n \div 256) % 256, (n \div 65536) % 256, n \div 16777216>>
ReadWord(f, pos) == f[pos + 1] + 256 * f[pos + 2] + 65536 * f[pos + 3] + 16777216 * f[pos + 4]
Header(t, flag, len) == Word(t) \o Word(flag) \o Word(len)

(* What the readers take from the position of an entry. *)
DataLen(f, pos) == ReadWord(f, pos + 8)
EntryAt(f, pos) == LogEntry(ReadWord(f, pos), ReadWord(f, pos + 4), SubSeq(f, pos + 13, pos + 12 + DataLen(f, pos)))
Remaining(f, pos) == Len(f) - pos

(* A parser that gives up at a length beyond the limit. *)
parse_wal_hardened_GivesUp(f) ==
  LET from[pos \in 0..Len(f)] ==
        IF Remaining(f, pos) < 4 THEN [entries |-> <<>>, skipped |-> 0]
        ELSE IF Remaining(f, pos) < 12 \/ DataLen(f, pos) > MAX_ENTRY_SIZE
                \/ Remaining(f, pos) < 12 + DataLen(f, pos)
          THEN [entries |-> <<>>, skipped |-> 1]
        ELSE LET rest == from[pos + 12 + DataLen(f, pos)]
             IN  [rest EXCEPT !.entries = <<EntryAt(f, pos)>> \o @]
  IN  from[0]

(* parse_wal_hardened: fewer than four bytes are the normal end, a header   *)
(* or data that stop short end the loop with one entry skipped, a length    *)
(* beyond the limit costs its header only.                                  *)
parse_wal_hardened(f) ==
  LET from[pos \in 0..Len(f)] ==
        IF Remaining(f, pos) < 4 THEN [entries |-> <<>>, skipped |-> 0]
        ELSE IF Remaining(f, pos) < 12 THEN [entries |-> <<>>, skipped |-> 1]
        ELSE IF DataLen(f, pos) > MAX_ENTRY_SIZE
          THEN [from[pos + 12] EXCEPT !.skipped = @ + 1]
        ELSE IF Remaining(f, pos) < 12 + DataLen(f, pos) THEN [entries |-> <<>>, skipped |-> 1]
        ELSE LET rest == from[pos + 12 + DataLen(f, pos)]
             IN  [rest EXCEPT !.entries = <<EntryAt(f, pos)>> \o @]
  IN  from[0]

(* Phase 1 of verify_transaction_integrity: the entries that go into        *)
(* txn_map, in order, and whether one ended inside its data.                *)
IntegrityScan(f) ==
  LET from[pos \in 0..Len(f)] ==
        IF Remaining(f, pos) < 12 THEN [entries |-> <<>>, all_valid |-> TRUE]
        ELSE IF DataLen(f, pos) > MAX_ENTRY_SIZE THEN from[pos + 12]
        ELSE IF Remaining(f, pos) < 12 + DataLen(f, pos) THEN [entries |-> <<>>, all_valid |-> FALSE]
        ELSE LET rest == from[pos + 12 + DataLen(f, pos)]
             IN  [rest EXCEPT !.entries = <<EntryAt(f, pos)>> \o @]
  IN  from[0]

(* txn_map: the last entry of an id replaces the ones before. *)
TxnMap(es) ==
  [t \in {es[i].txn_id : i \in DOMAIN es} |->
     es[CHOOSE i \in DOMAIN es : es[i].txn_id = t /\ \A j \in (i + 1)..Len(es) : es[j].txn_id # t]]

(* A file that cannot be opened leaves the report as it was set up, with    *)
(* acid_properties_hold true, but for all_valid.                            *)
NotOpened == [total_txns |-> 0, committed_txns |-> 0, uncommitted_txns |-> 0,
              write_operations |-> 0, all_valid |-> FALSE, acid_properties_hold |-> TRUE]

Report(f) ==
  LET scan == IntegrityScan(f)
      txn_map == TxnMap(scan.entries)
      committed == Cardinality({t \in DOMAIN txn_map : txn_map[t].is_committed # 0})
      uncommitted == Cardinality({t \in DOMAIN txn_map : txn_map[t].is_committed = 0})
      writes == Cardinality({i \in DOMAIN scan.entries : scan.entries[i].data # <<>>})
      total == Cardinality(DOMAIN txn_map)
  IN  [total_txns |-> total, committed_txns |-> committed, uncommitted_txns |-> uncommitted,
       write_operations |-> writes, all_valid |-> scan.all_valid,
       acid_properties_hold |-> writes > 0 /\ committed > 0 /\ total = committed + uncommitted]

verify_transaction_integrity(opens, f) == IF opens THEN Report(f) ELSE NotOpened

(* A recovery that stops at a length beyond the limit. *)
recover_from_wal_Stops(f) ==
  LET from[pos \in 0..Len(f)] ==
        IF Remaining(f, pos) < 12 THEN 0
        ELSE IF DataLen(f, pos) > MAX_ENTRY_SIZE \/ Remaining(f, pos) < 12 + DataLen(f, pos) THEN 0
        ELSE from[pos + 12 + DataLen(f, pos)] + (IF EntryAt(f, pos).is_committed # 0 THEN 1 ELSE 0)
  IN  from[0]

(* recover_from_wal only counts the committed entries. *)
recover_from_wal(f) ==
  LET from[pos \in 0..Len(f)] ==
        IF Remaining(f, pos) < 12 THEN 0
        ELSE IF DataLen(f, pos) > MAX_ENTRY_SIZE THEN from[pos + 12]
        ELSE IF Remaining(f, pos) < 12 + DataLen(f, pos) THEN 0
        ELSE from[pos + 12 + DataLen(f, pos)] + (IF EntryAt(f, pos).is_committed # 0 THEN 1 ELSE 0)
  IN  from[0]

-----------------------------------------------------------------------------
LogInit == exists \in BOOLEAN /\ file = <<>> /\ whole = <<>> /\ bad = 0 /\ torn = 0

Encoded(e) == Header(e.txn_id, e.is_committed, Len(e.data)) \o e.data

MayWrite == torn = 0 /\ Len(whole) + bad < MaxLogEntries

WriteEntry(e) == /\ MayWrite
                 /\ exists' = TRUE
                 /\ file' = file \o Encoded(e)
                 /\ whole' = Append(whole, e)
                 /\ UNCHANGED <<bad, torn>>

WriteBadHeader(t, flag, len) == /\ MayWrite
                                /\ exists' = TRUE
                                /\ file' = file \o Header(t, flag, len)
                                /\ bad' = bad + 1
                                /\ UNCHANGED <<whole, torn>>

(* The writer dies when n bytes of an entry are in the file. *)
WritePiece(e, n) == /\ MayWrite
                    /\ exists' = TRUE
                    /\ file' = file \o SubSeq(Encoded(e), 1, n)
                    /\ torn' = n
                    /\ UNCHANGED <<whole, bad>>

LogEntries == {LogEntry(t, flag, d) : t \in LogTxns, flag \in {0, 1}, d \in LogData}

LogNext == \/ \E e \in LogEntries : \/ WriteEntry(e)
                                    \/ \E n \in 1..(Len(Encoded(e)) - 1) : WritePiece(e, n)
           \/ \E t \in LogTxns, flag \in {0, 1}, len \in BadLengths : WriteBadHeader(t, flag, len)

LogSpec == LogInit /\ [][LogNext]_logVars

-----------------------------------------------------------------------------
(* The hardened parser finds its way back behind every bad header and in    *)
(* front of a piece of an entry: it returns exactly the entries written     *)
(* whole, in order, and counts each bad header and a piece as one skipped   *)
(* entry; a piece of fewer than four bytes passes for the end of the file.  *)
HardenedRecoversAll ==
  /\ parse_wal_hardened(file).entries = whole
  /\ parse_wal_hardened(file).skipped = bad + (IF torn >= 4 THEN 1 ELSE 0)

(* The three loops, each written out on its own, find the same entries: the *)
(* committed ones recover_from_wal counts are the parser's, and so are the  *)
(* ids and the data entries of the integrity check, whose last entry of an  *)
(* id decides, and which reports a piece only when its data are cut.  Of a  *)
(* file that cannot be opened all_valid is false, and only that: the flag   *)
(* acid_properties_hold says nothing of a report that is not valid.         *)
ReadersAgree ==
  LET es == parse_wal_hardened(file).entries
      report == verify_transaction_integrity(exists, file)
      LastFlag(t) == es[CHOOSE i \in DOMAIN es : es[i].txn_id = t /\ \A j \in DOMAIN es : j > i => es[j].txn_id # t].is_committed
      ids == {es[i].txn_id : i \in DOMAIN es}
  IN  /\ recover_from_wal(file) = Cardinality({i \in DOMAIN es : es[i].is_committed # 0})
      /\ report.total_txns = Cardinality(ids)
      /\ report.all_valid <=> exists /\ torn < 12
      /\ exists => (report.acid_properties_hold <=> /\ \E i \in DOMAIN es : es[i].data # <<>>
                                                   /\ \E t \in ids : LastFlag(t) # 0)
=============================================================================
