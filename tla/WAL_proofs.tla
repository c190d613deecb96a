------------------------------ MODULE WAL_proofs ------------------------------
(***************************************************************************)
(* For any transactions and payloads, any number of appends and crashes at *)
(* any byte: as long as nothing is appended behind a torn entry, the file  *)
(* decodes to exactly the entries that reached it whole.  The second part  *)
(* is about the three readers of logs with a commit flag: past any bad     *)
(* headers and up to a torn end they find exactly the entries written.     *)
(***************************************************************************)
EXTENDS WAL, HardenedWAL, SequenceTheorems, FiniteSetTheorems, WellFoundedInduction, TLAPS

Bytes == 0..255

(* The bytes of entry e stand behind the first pos bytes of buf. *)
StandsAt(buf, pos, e) == \A j \in 1..(12 + Len(e.data)) : buf[pos + j] = encode_entry(e)[j]

(* The entries es stand in buf one behind the other: the i-th of them ends *)
(* at off[i].                                                              *)
Framed(buf, es, off) ==
  /\ off \in [0..Len(es) -> Nat] /\ off[0] = 0
  /\ \A i \in 1..Len(es) : /\ off[i] = off[i - 1] + 12 + Len(es[i].data)
                           /\ off[i] <= Len(buf)
                           /\ StandsAt(buf, off[i - 1], es[i])

(* Behind the first pos bytes there is a part of an entry, not all of it. *)
TornAt(buf, pos) ==
  \E e \in AllEntries, n \in Nat :
    /\ 0 < n /\ n < 12 + Len(e.data) /\ Len(buf) = pos + n
    /\ \A j \in 1..n : buf[pos + j] = encode_entry(e)[j]

Ends(buf, pos, how) == IF how = "whole" THEN pos = Len(buf) ELSE TornAt(buf, pos)

(* The file is the entries of the log, and at most one torn entry. *)
Layout(buf, es, how) == \E off : Framed(buf, es, off) /\ Ends(buf, off[Len(es)], how)

-----------------------------------------------------------------------------
(* Bytes as numbers. *)
LEMMA ByteNumbers == \A x \in Bytes : x \in Nat
  BY DEF Bytes

(* Four bytes as one number. *)
Value(x, y, z, u) == x + 256 * y + 65536 * z + 16777216 * u

LEMMA ValueIsNat == \A x, y, z, u \in Nat : Value(x, y, z, u) \in Nat
  BY SMT DEF Value

(* The numbers that fit into four bytes. *)
Words == {n \in Nat : n <= MaxInt}

LEMMA WordNumbers == \A n \in Words : n \in Nat
  BY SMT DEF Words

(* The last byte of a number and the rest of it. *)
LEMMA Divide ==
  ASSUME NEW n \in Nat
  PROVE  /\ n \div 256 \in Nat /\ n % 256 \in 0..255
         /\ n = (256 * (n \div 256)) + (n % 256)
  BY SMT

(* The four bytes of a number give the number back. *)
LEMMA Int32Bytes ==
  ASSUME NEW n \in Words
  PROVE  LET b == Int32(n) IN
           b \in Seq(Bytes) /\ Len(b) = 4 /\ Value(b[1], b[2], b[3], b[4]) = n
<1> DEFINE q == n \div 256
           r == q \div 256
           u == r \div 256
           x == n % 256
           y == q % 256
           z == r % 256
<1>1. n \in Nat
  BY SMT DEF Words
<1>2. q \in Nat /\ x \in 0..255 /\ n = (256 * q) + x
  BY <1>1, Divide
<1> HIDE DEF q, x
<1>3. r \in Nat /\ y \in 0..255 /\ q = (256 * r) + y
  BY <1>2, Divide
<1> HIDE DEF r, y
<1>4. u \in Nat /\ z \in 0..255 /\ r = (256 * u) + z
  BY <1>3, Divide
<1> HIDE DEF u, z
<1>5. u \in 0..255 /\ Value(x, y, z, u) = n
  BY SMT, <1>1, <1>2, <1>3, <1>4 DEF Words, MaxInt, Value
<1>6. n \div 65536 = r /\ n \div 16777216 = u
  BY SMT, <1>1, <1>2, <1>3, <1>4
<1>7. Int32(n) = <<x, y, z, u>>
  BY SMT, <1>6 DEF Int32, q, x, y, z
<1>8. <<x, y, z, u>> \in Seq(Bytes) /\ Len(<<x, y, z, u>>) = 4
  BY SMT, <1>2, <1>3, <1>4, <1>5 DEF Bytes
<1> QED BY SMT, <1>5, <1>7, <1>8

(* b is s followed by r. *)
Joined(b, s, r) == /\ b \in Seq(Bytes) /\ Len(b) = Len(s) + Len(r)
                   /\ \A i \in 1..Len(s) : b[i] = s[i]
                   /\ \A i \in 1..Len(r) : b[Len(s) + i] = r[i]

LEMMA Concat == ASSUME NEW s \in Seq(Bytes), NEW r \in Seq(Bytes) PROVE Joined(s \o r, s, r)
<1>1. Len(s) \in Nat /\ Len(r) \in Nat
  OBVIOUS
<1>2. /\ s \o r \in Seq(Bytes) /\ Len(s \o r) = Len(s) + Len(r)
      /\ \A i \in 1..(Len(s) + Len(r)) : (s \o r)[i] = IF i <= Len(s) THEN s[i] ELSE r[i - Len(s)]
  BY ConcatProperties
<1>3. \A i \in 1..Len(r) : /\ Len(s) + i \in 1..(Len(s) + Len(r)) /\ ~(Len(s) + i <= Len(s))
                           /\ Len(s) + i - Len(s) = i
  BY <1>1
<1>4. \A i \in 1..Len(s) : i \in 1..(Len(s) + Len(r)) /\ i <= Len(s)
  BY <1>1
<1> QED BY <1>1, <1>2, <1>3, <1>4 DEF Joined

(* The first twelve bytes of b are the numbers t, m and n. *)
Holds(b, t, m, n) == /\ Value(b[1], b[2], b[3], b[4]) = t
                     /\ Value(b[5], b[6], b[7], b[8]) = m
                     /\ Value(b[9], b[10], b[11], b[12]) = n

(* The bytes of a header. *)
LEMMA HeaderShape ==
  ASSUME NEW t \in Words, NEW m \in Words, NEW n \in Words
  PROVE  LET b == Header(t, m, n) IN b \in Seq(Bytes) /\ Len(b) = 12 /\ Holds(b, t, m, n)
<1> DEFINE x == Int32(t)
           y == Int32(m)
           z == Int32(n)
           xy == x \o y
           b == xy \o z
<1>1. x \in Seq(Bytes) /\ Len(x) = 4 /\ Value(x[1], x[2], x[3], x[4]) = t
  BY Int32Bytes
<1>2. y \in Seq(Bytes) /\ Len(y) = 4 /\ Value(y[1], y[2], y[3], y[4]) = m
  BY Int32Bytes
<1>3. z \in Seq(Bytes) /\ Len(z) = 4 /\ Value(z[1], z[2], z[3], z[4]) = n
  BY Int32Bytes
<1>4. Header(t, m, n) = b
  BY SMT DEF Header, Word, Int32
<1> HIDE DEF x, y, z
<1>5. Joined(xy, x, y)
  BY <1>1, <1>2, Concat
<1> HIDE DEF xy
<1>6. xy \in Seq(Bytes) /\ Len(xy) = 8 /\ (\A i \in 1..4 : xy[i] = x[i]) /\ \A i \in 1..4 : xy[4 + i] = y[i]
  BY <1>1, <1>2, <1>5 DEF Joined
<1>7. Joined(b, xy, z)
  BY <1>3, <1>6, Concat
<1> HIDE DEF b
<1>8. b \in Seq(Bytes) /\ Len(b) = 12 /\ (\A i \in 1..8 : b[i] = xy[i]) /\ \A i \in 1..4 : b[8 + i] = z[i]
  BY <1>3, <1>6, <1>7 DEF Joined
<1>9. b[1] = x[1] /\ b[2] = x[2] /\ b[3] = x[3] /\ b[4] = x[4]
  BY <1>6, <1>8
<1>10. b[5] = y[1] /\ b[6] = y[2] /\ b[7] = y[3] /\ b[8] = y[4]
  <2>1. xy[4 + 1] = y[1] /\ xy[4 + 2] = y[2] /\ xy[4 + 3] = y[3] /\ xy[4 + 4] = y[4]
    BY <1>6
  <2> QED BY <1>8, <2>1
<1>11. b[9] = z[1] /\ b[10] = z[2] /\ b[11] = z[3] /\ b[12] = z[4]
  <2>1. b[8 + 1] = z[1] /\ b[8 + 2] = z[2] /\ b[8 + 3] = z[3] /\ b[8 + 4] = z[4]
    BY <1>8
  <2> QED BY <2>1
<1>12. Holds(b, t, m, n)
  BY <1>1, <1>2, <1>3, <1>9, <1>10, <1>11 DEF Holds
<1> QED BY <1>4, <1>8, <1>12

(* What is known of the entries the callers write. *)
LEMMA EntryType ==
  ASSUME NEW e \in AllEntries
  PROVE  /\ e = [txn_id |-> e.txn_id, entry_type |-> e.entry_type, data |-> e.data]
         /\ e.txn_id \in WalTxns /\ e.txn_id \in Words /\ e.entry_type \in {DATA, COMMIT, ABORT}
         /\ e.entry_type \in Words /\ e.data \in Seq(Bytes) /\ Len(e.data) \in Words
<1> DEFINE empty == <<>>
<1>1. empty \in Seq(Bytes) /\ Len(empty) = 0
  BY EmptySeq
<1>2. PICK t \in WalTxns, m \in {DATA, COMMIT, ABORT}, d \in Payloads \cup {empty} : e = Entry(t, m, d)
  BY DEF AllEntries
<1> HIDE DEF empty
<1>3. d \in Seq(Bytes) /\ Len(d) \in Words
  <2>1. CASE d = empty
    <3>1. 0 \in Words
      BY SMT DEF Words, MaxInt
    <3> QED BY <1>1, <2>1, <3>1
  <2>2. CASE d \in Payloads
    <3>1. d \in Seq(Bytes) /\ Len(d) <= MaxInt
      BY SMT, <2>2, PayloadsAssumption DEF Bytes
    <3>2. Len(d) \in Nat
      BY <3>1, LenProperties
    <3>3. Len(d) \in Words
      BY SMT, <3>1, <3>2 DEF Words
    <3> QED BY <3>1, <3>3
  <2> QED BY <1>2, <2>1, <2>2
<1>4. t \in Words /\ m \in Words
  BY SMT, <1>2, WalTxnsAssumption DEF Words, MaxInt, DATA, COMMIT, ABORT
<1> QED BY <1>2, <1>3, <1>4 DEF Entry

(* encode_entry, byte by byte. *)
LEMMA EncodeShape ==
  ASSUME NEW e \in AllEntries
  PROVE  LET b == encode_entry(e) IN
           /\ b \in Seq(Bytes) /\ Len(b) = 12 + Len(e.data)
           /\ Holds(b, e.txn_id, e.entry_type, Len(e.data))
           /\ \A j \in 1..Len(e.data) : b[12 + j] = e.data[j]
<1> DEFINE h == Header(e.txn_id, e.entry_type, Len(e.data))
           d == e.data
           b == h \o d
<1>1. e.txn_id \in Words /\ e.entry_type \in Words /\ d \in Seq(Bytes) /\ Len(d) \in Words
  BY EntryType
<1>2. h \in Seq(Bytes) /\ Len(h) = 12 /\ Holds(h, e.txn_id, e.entry_type, Len(d))
  BY <1>1, HeaderShape
<1>3. encode_entry(e) = b
  BY SMT DEF encode_entry, Header, Word, Int32
<1> HIDE DEF h, d
<1>4. Joined(b, h, d)
  BY <1>1, <1>2, Concat
<1> HIDE DEF b
<1>5. /\ b \in Seq(Bytes) /\ Len(b) = 12 + Len(d) /\ (\A i \in 1..12 : b[i] = h[i])
      /\ \A j \in 1..Len(d) : b[12 + j] = d[j]
  BY <1>2, <1>4 DEF Joined
<1>6. Holds(b, e.txn_id, e.entry_type, Len(d))
  BY <1>2, <1>5 DEF Holds
<1> QED BY <1>3, <1>5, <1>6 DEF d

-----------------------------------------------------------------------------
(* The file as a function of the position: f holds what the loop of        *)
(* recover() decodes from each of the last m + 1 positions on.             *)
Tails(f, m, buf) ==
  f = [pos \in (Len(buf) - m)..Len(buf) |->
         IF pos < Len(buf) /\ Decodable(buf, pos)
           THEN <<decode_entry(buf, pos)>> \o f[pos + 12 + ReadInt32(buf, pos, 8)]
           ELSE <<>>]

(* A length that is read is a number, and decoding moves on. *)
LEMMA Advances ==
  ASSUME NEW buf \in Seq(Bytes), NEW pos \in 0..Len(buf), Decodable(buf, pos)
  PROVE  /\ ReadInt32(buf, pos, 8) \in Nat
         /\ pos + 12 + ReadInt32(buf, pos, 8) \in (pos + 1)..Len(buf)
<1> DEFINE r == ReadInt32(buf, pos, 8)
<1>1. Len(buf) \in Nat /\ Len(buf) - pos >= 12 /\ Len(buf) - pos >= 12 + r
  BY DEF Decodable
<1>2. /\ pos + 8 + 1 \in 1..Len(buf) /\ pos + 8 + 2 \in 1..Len(buf)
      /\ pos + 8 + 3 \in 1..Len(buf) /\ pos + 8 + 4 \in 1..Len(buf)
  BY <1>1
<1>3. \A i \in 1..Len(buf) : buf[i] \in Nat
  <2>1. \A i \in 1..Len(buf) : buf[i] \in Bytes
    OBVIOUS
  <2> QED BY <2>1, ByteNumbers
<1>4. r \in Nat
  <2> DEFINE byte(i) == buf[pos + 8 + i]
  <2>1. byte(1) \in Nat /\ byte(2) \in Nat /\ byte(3) \in Nat /\ byte(4) \in Nat
    BY <1>2, <1>3
  <2>2. r = Value(byte(1), byte(2), byte(3), byte(4))
    BY SMT DEF ReadInt32, Value
  <2> HIDE DEF byte, r
  <2> QED BY <2>1, <2>2, ValueIsNat
<1> HIDE DEF r
<1>5. pos + 12 + r \in (pos + 1)..Len(buf)
  BY <1>1, <1>4
<1> QED BY <1>4, <1>5 DEF r

(* The loop can be run from every position. *)
LEMMA TailsExist ==
  ASSUME NEW buf \in Seq(Bytes), NEW n \in 0..Len(buf)
  PROVE  \E f : Tails(f, n, buf)
<1> DEFINE E(m) == \E f : Tails(f, m, buf)
           V == {m \in 0..n : ~E(m)}
           L == Len(buf)
           next(pos) == pos + 12 + ReadInt32(buf, pos, 8)
           here(pos) == pos < L /\ Decodable(buf, pos)
<1>0. L \in Nat /\ n \in 0..n
  OBVIOUS
<1> SUFFICES ASSUME V # {} PROVE FALSE
  <2> SUFFICES E(n)
    OBVIOUS
  <2> HIDE DEF E
  <2> QED BY <1>0
<1>1. V \in SUBSET Nat
  BY <1>0
<1>2. PICK m \in V : \A y \in V : <<y, m>> \notin OpToRel(<, Nat)
  <2> HIDE DEF V
  <2> QED BY <1>1, WFMin, NatLessThanWellFounded
<1>3. \A y \in V : ~(y < m)
  <2> HIDE DEF V
  <2> QED BY <1>1, <1>2 DEF OpToRel
<1>4. m \in 0..n /\ ~E(m)
  OBVIOUS
<1>5. m # 0
  <2> DEFINE f == [pos \in L..L |-> <<>>]
  <2>1. L - 0 = L /\ \A pos \in L..L : ~(pos < L)
    BY <1>0
  <2>2. Tails(f, 0, buf)
    BY <2>1 DEF Tails
  <2>3. E(0)
    <3> HIDE DEF f
    <3> QED BY <2>2
  <2> QED BY <1>4, <2>3
<1>6. m - 1 \in 0..n /\ m - 1 < m /\ m \in Nat /\ m <= L
  BY <1>0, <1>4, <1>5
<1>7. E(m - 1)
  <2> HIDE DEF E
  <2> QED BY <1>3, <1>6
<1>8. PICK g : Tails(g, m - 1, buf)
  BY <1>7
<1> DEFINE p == L - m
           new == IF here(p) THEN <<decode_entry(buf, p)>> \o g[next(p)] ELSE <<>>
           f == [pos \in p..L |-> IF pos = p THEN new ELSE g[pos]]
<1>9. \A pos \in (p + 1)..L :
        g[pos] = IF here(pos) THEN <<decode_entry(buf, pos)>> \o g[next(pos)] ELSE <<>>
  <2>1. L - (m - 1) = p + 1
    BY <1>0, <1>6
  <2> QED BY <1>8, <2>1 DEF Tails
<1>10. \A pos \in p..L : f[pos] = IF pos = p THEN new ELSE g[pos]
  OBVIOUS
<1>11. f = [pos \in p..L |-> f[pos]]
  OBVIOUS
<1>12. \A pos \in p..L : here(pos) => next(pos) \in (pos + 1)..L /\ next(pos) \in p..L /\ next(pos) # p
  <2> SUFFICES ASSUME NEW pos \in p..L, here(pos)
               PROVE  next(pos) \in (pos + 1)..L /\ next(pos) \in p..L /\ next(pos) # p
    OBVIOUS
  <2>1. pos \in 0..L
    BY <1>0, <1>6
  <2>2. next(pos) \in (pos + 1)..L
    BY <2>1, Advances
  <2> HIDE DEF next
  <2> QED BY <1>0, <1>6, <2>1, <2>2
<1> HIDE DEF f, V, E, next, here
<1>13. ASSUME NEW pos \in p..L
       PROVE  f[pos] = IF here(pos) THEN <<decode_entry(buf, pos)>> \o f[next(pos)] ELSE <<>>
  <2>0. here(pos) => f[next(pos)] = g[next(pos)]
    BY <1>10, <1>12
  <2>1. CASE pos = p
    BY <1>10, <2>0, <2>1
  <2>2. CASE pos # p
    <3>1. pos \in (p + 1)..L
      BY <1>0, <1>6, <2>2
    <3> QED BY <1>9, <1>10, <2>0, <2>2, <3>1
  <2> QED BY <2>1, <2>2
<1>14. Tails(f, m, buf)
  BY <1>11, <1>13 DEF Tails, next, here
<1> QED BY <1>4, <1>14 DEF E

(* Decoded is what it decodes from the start on. *)
LEMMA DecodedIsTail ==
  ASSUME NEW buf \in Seq(Bytes)
  PROVE  \E f : Tails(f, Len(buf), buf) /\ Decoded(buf) = f[0]
<1> DEFINE from == CHOOSE f : Tails(f, Len(buf), buf)
<1>1. Len(buf) \in Nat /\ Len(buf) \in 0..Len(buf) /\ Len(buf) - Len(buf) = 0
  OBVIOUS
<1>2. Tails(from, Len(buf), buf)
  BY <1>1, TailsExist
<1>3. Decoded(buf) = from[0]
  BY <1>1 DEF Decoded, Tails
<1> QED BY <1>2, <1>3
-----------------------------------------------------------------------------
(* The three numbers of a header are read back. *)
LEMMA HeaderRead ==
  ASSUME NEW buf, NEW pos \in Nat, NEW e \in AllEntries,
         \A j \in 1..12 : buf[pos + j] = encode_entry(e)[j]
  PROVE  /\ ReadInt32(buf, pos, 0) = e.txn_id
         /\ ReadInt32(buf, pos, 4) = e.entry_type
         /\ ReadInt32(buf, pos, 8) = Len(e.data)
<1> DEFINE b == encode_entry(e)
           at(j) == buf[pos + j]
<1>1. Holds(b, e.txn_id, e.entry_type, Len(e.data))
  BY EncodeShape
<1>2. \A j \in 1..12 : at(j) = b[j]
  OBVIOUS
<1>3. /\ ReadInt32(buf, pos, 0) = Value(at(1), at(2), at(3), at(4))
      /\ ReadInt32(buf, pos, 4) = Value(at(5), at(6), at(7), at(8))
      /\ ReadInt32(buf, pos, 8) = Value(at(9), at(10), at(11), at(12))
  <2>1. /\ pos + 0 + 1 = pos + 1 /\ pos + 0 + 2 = pos + 2 /\ pos + 0 + 3 = pos + 3 /\ pos + 0 + 4 = pos + 4
        /\ pos + 4 + 1 = pos + 5 /\ pos + 4 + 2 = pos + 6 /\ pos + 4 + 3 = pos + 7 /\ pos + 4 + 4 = pos + 8
        /\ pos + 8 + 1 = pos + 9 /\ pos + 8 + 2 = pos + 10 /\ pos + 8 + 3 = pos + 11 /\ pos + 8 + 4 = pos + 12
    OBVIOUS
  <2> QED BY ONLY SMT, <2>1 DEF ReadInt32, Value
<1> HIDE DEF at, b
<1>4. /\ at(1) = b[1] /\ at(2) = b[2] /\ at(3) = b[3] /\ at(4) = b[4]
      /\ at(5) = b[5] /\ at(6) = b[6] /\ at(7) = b[7] /\ at(8) = b[8]
      /\ at(9) = b[9] /\ at(10) = b[10] /\ at(11) = b[11] /\ at(12) = b[12]
  BY <1>2
<1> QED BY ONLY <1>1, <1>3, <1>4 DEF Holds

(* decode_entry takes back what encode_entry wrote. *)
LEMMA DecodeStands ==
  ASSUME NEW buf \in Seq(Bytes), NEW pos \in Nat, NEW e \in AllEntries,
         pos + 12 + Len(e.data) <= Len(buf), StandsAt(buf, pos, e)
  PROVE  /\ Decodable(buf, pos) /\ ReadInt32(buf, pos, 8) = Len(e.data)
         /\ decode_entry(buf, pos) = e
<1> DEFINE d == e.data
           n == Len(d)
           L == Len(buf)
<1>1. /\ d \in Seq(Bytes) /\ n \in Nat /\ L \in Nat
      /\ e = [txn_id |-> e.txn_id, entry_type |-> e.entry_type, data |-> d]
  BY EntryType, WordNumbers
<1>2. \A j \in 1..12 : buf[pos + j] = encode_entry(e)[j]
  <2>1. \A j \in 1..12 : j \in 1..(12 + n)
    BY <1>1
  <2> QED BY <2>1 DEF StandsAt
<1>3. /\ ReadInt32(buf, pos, 0) = e.txn_id
      /\ ReadInt32(buf, pos, 4) = e.entry_type
      /\ ReadInt32(buf, pos, 8) = n
  BY <1>2, HeaderRead
<1>4. pos + 12 + n <= L
  OBVIOUS
<1>5. \A j \in 1..n : buf[pos + 12 + j] = d[j]
  <2> SUFFICES ASSUME NEW j \in 1..n PROVE buf[pos + 12 + j] = d[j]
    OBVIOUS
  <2>1. 12 + j \in 1..(12 + n) /\ pos + (12 + j) = pos + 12 + j
    BY <1>1
  <2>2. buf[pos + (12 + j)] = encode_entry(e)[12 + j]
    BY <2>1 DEF StandsAt
  <2>3. encode_entry(e)[12 + j] = d[j]
    BY EncodeShape
  <2> QED BY <2>1, <2>2, <2>3
<1> HIDE DEF d, n, L
<1>6. SubSeq(buf, pos + 13, pos + 12 + n) = d
  <2> DEFINE lo == pos + 13
             hi == pos + 12 + n
             sub == SubSeq(buf, lo, hi)
  <2>1. lo \in Int /\ hi \in Int /\ hi - lo + 1 = n /\ (lo <= hi \/ n = 0) /\ (lo <= hi => n # 0)
    BY <1>1
  <2>2. \A i \in lo..hi : buf[i] \in Bytes
    <3>1. \A i \in lo..hi : i \in 1..L
      BY <1>1, <1>4
    <3> QED BY <3>1 DEF L
  <2>3. \A i \in 1..n : lo + i - 1 = pos + 12 + i
    BY <1>1
  <2> HIDE DEF lo, hi
  <2>4. /\ sub \in Seq(Bytes) /\ Len(sub) = (IF lo <= hi THEN hi - lo + 1 ELSE 0)
        /\ \A i \in 1..(hi - lo + 1) : sub[i] = buf[lo + i - 1]
    BY <2>1, <2>2, SubSeqProperties
  <2> HIDE DEF sub
  <2>5. Len(sub) = n
    BY <2>1, <2>4
  <2>6. \A i \in 1..n : sub[i] = d[i]
    BY <1>5, <2>1, <2>3, <2>4
  <2>7. Len(d) = n
    BY DEF n
  <2>8. sub = d
    BY <1>1, <2>4, <2>5, <2>6, <2>7, SeqEqual
  <2> QED BY <2>8 DEF sub, lo, hi
<1>7. decode_entry(buf, pos) = e
  BY <1>1, <1>3, <1>6 DEF decode_entry
<1>8. L - pos >= 12 /\ L - pos >= 12 + n
  BY <1>1, <1>4
<1> QED BY <1>3, <1>7, <1>8 DEF Decodable, L, n, d

(* A torn entry does not decode: its own length says it is not all there. *)
LEMMA TornStops ==
  ASSUME NEW buf \in Seq(Bytes), NEW pos \in Nat, TornAt(buf, pos)
  PROVE  ~Decodable(buf, pos)
<1>1. PICK e \in AllEntries, n \in Nat :
        /\ 0 < n /\ n < 12 + Len(e.data) /\ Len(buf) = pos + n
        /\ \A j \in 1..n : buf[pos + j] = encode_entry(e)[j]
  BY DEF TornAt
<1> DEFINE z == Len(e.data)
<1>2. z \in Nat
  BY EntryType, WordNumbers
<1>3. CASE n < 12
  <2>1. ~(Len(buf) - pos >= 12)
    BY <1>1, <1>3
  <2> QED BY <2>1 DEF Decodable
<1>4. CASE ~(n < 12)
  <2>1. \A j \in 1..12 : j \in 1..n
    BY <1>4
  <2>2. ReadInt32(buf, pos, 8) = z
    BY <1>1, <2>1, HeaderRead
  <2> HIDE DEF z
  <2>3. ~(Len(buf) - pos >= 12 + z)
    BY <1>1, <1>2 DEF z
  <2> QED BY <2>2, <2>3 DEF Decodable
<1> QED BY <1>3, <1>4

(* A file that is laid out so decodes to the entries, and stops there. *)
LEMMA LayoutDecodes ==
  ASSUME NEW buf \in Seq(Bytes), NEW es \in Seq(AllEntries), NEW how, Layout(buf, es, how)
  PROVE  Decoded(buf) = es
<1> DEFINE n == Len(es)
           L == Len(buf)
<1>1. n \in Nat /\ L \in Nat /\ L - L = 0 /\ n \in 0..n /\ 0 \in 0..n
  OBVIOUS
<1>2. PICK off : Framed(buf, es, off) /\ Ends(buf, off[n], how)
  BY DEF Layout
<1>3. PICK f : Tails(f, L, buf) /\ Decoded(buf) = f[0]
  BY DecodedIsTail
<1>4. \A pos \in 0..L :
        f[pos] = IF pos < L /\ Decodable(buf, pos)
                   THEN <<decode_entry(buf, pos)>> \o f[pos + 12 + ReadInt32(buf, pos, 8)]
                   ELSE <<>>
  BY <1>1, <1>3 DEF Tails
<1>5. /\ off[0] = 0 /\ \A i \in 0..n : off[i] \in Nat
  BY <1>2 DEF Framed
<1>6. \A i \in 0..n : off[i] \in 0..L
  <2> SUFFICES ASSUME NEW i \in 0..n PROVE off[i] \in 0..L
    OBVIOUS
  <2>1. CASE i = 0
    BY <1>1, <1>5, <2>1
  <2>2. CASE i # 0
    <3>1. i \in 1..n
      BY <1>1, <2>2
    <3>2. off[i] <= L
      BY <1>2, <3>1 DEF Framed
    <3> QED BY <1>1, <1>5, <3>2
  <2> QED BY <2>1, <2>2
<1> DEFINE P(k) == f[off[n - k]] = SubSeq(es, n - k + 1, n)
           V == {k \in 0..n : ~P(k)}
<1>7. V = {}
  <2> SUFFICES ASSUME V # {} PROVE FALSE
    OBVIOUS
  <2>1. V \in SUBSET Nat
    BY <1>1
  <2>2. PICK k \in V : \A y \in V : <<y, k>> \notin OpToRel(<, Nat)
    <3> HIDE DEF V
    <3> QED BY <2>1, WFMin, NatLessThanWellFounded
  <2>3. \A y \in V : ~(y < k)
    <3> HIDE DEF V
    <3> QED BY <2>1, <2>2 DEF OpToRel
  <2>4. k \in 0..n /\ ~P(k)
    OBVIOUS
  <2>5. P(0)
    <3>1. n - 0 = n /\ n - 0 + 1 = n + 1 /\ n < n + 1 /\ n + 1 \in Int /\ n \in Int
      BY <1>1
    <3>2. SubSeq(es, n + 1, n) = <<>>
      BY <3>1, SubSeqEmpty
    <3>3. off[n] \in 0..L /\ off[n] \in Nat
      BY <1>1, <1>5, <1>6
    <3>4. ~(off[n] < L /\ Decodable(buf, off[n]))
      <4>1. CASE how = "whole"
        BY <1>1, <1>2, <3>3, <4>1 DEF Ends
      <4>2. CASE how # "whole"
        <5>1. TornAt(buf, off[n])
          BY <1>2, <4>2 DEF Ends
        <5> QED BY <3>3, <5>1, TornStops
      <4> QED BY <4>1, <4>2
    <3>5. f[off[n]] = <<>>
      BY <1>4, <3>3, <3>4
    <3> QED BY <3>1, <3>2, <3>5
  <2>6. k # 0
    BY <2>4, <2>5
  <2> DEFINE i == n - k + 1
             e == es[i]
             pos == off[i - 1]
  <2>7. /\ k - 1 \in 0..n /\ k - 1 < k /\ i \in 1..n /\ i - 1 = n - k /\ n - (k - 1) = i
        /\ n - (k - 1) + 1 = i + 1 /\ i - 1 \in 0..n /\ i \in 0..n /\ n \in i..n
    <3> HIDE DEF n, P, V
    <3> QED BY <1>1, <2>4, <2>6
  <2>8. P(k - 1)
    <3> HIDE DEF P
    <3> QED BY <2>3, <2>7
  <2>9. f[off[i]] = SubSeq(es, i + 1, n)
    BY <2>7, <2>8
  <2>10. e \in AllEntries
    BY <2>7
  <2>11. off[i] = pos + 12 + Len(e.data) /\ off[i] <= L /\ StandsAt(buf, pos, e)
    BY <1>2, <2>7 DEF Framed
  <2>12. pos \in Nat /\ pos \in 0..L
    BY <1>5, <1>6, <2>7
  <2>13. SubSeq(es, i, n) = <<es[i]>> \o SubSeq(es, i + 1, n)
    BY <2>7, SubSeqRecursiveFirst
  <2> HIDE DEF e, pos, i, n, P, V
  <2>14. Decodable(buf, pos) /\ ReadInt32(buf, pos, 8) = Len(e.data) /\ decode_entry(buf, pos) = e
    BY <2>10, <2>11, <2>12, DecodeStands
  <2>15. Len(e.data) \in Nat
    BY <2>10, EntryType, WordNumbers
  <2>16. pos < L
    <3> DEFINE z == Len(e.data)
               next == off[i]
    <3>1. next = pos + 12 + z /\ next <= L /\ z \in Nat
      BY <2>11, <2>15
    <3> HIDE DEF z, next, L
    <3> QED BY <1>1, <2>12, <3>1
  <2>17. f[pos] = <<e>> \o f[off[i]]
    BY <1>4, <2>11, <2>12, <2>14, <2>16
  <2>18. f[off[n - k]] = SubSeq(es, n - k + 1, n)
    BY <2>7, <2>9, <2>13, <2>17 DEF e, pos, i
  <2> QED BY <2>4, <2>18 DEF P
<1>8. P(n)
  <2> HIDE DEF P
  <2> QED BY <1>1, <1>7
<1>9. n - n = 0 /\ n - n + 1 = 1
  BY <1>1
<1>10. SubSeq(es, 1, n) = es
  BY SubSeqFull
<1> QED BY <1>3, <1>5, <1>8, <1>9, <1>10
-----------------------------------------------------------------------------
(* An append leaves the entries in front of it where they are. *)
LEMMA FramedGrows ==
  ASSUME NEW buf \in Seq(Bytes), NEW more \in Seq(Bytes), NEW es \in Seq(AllEntries), NEW off,
         Framed(buf, es, off)
  PROVE  Framed(buf \o more, es, off)
<1> DEFINE now == buf \o more
<1>1. Len(buf) \in Nat /\ Len(more) \in Nat /\ Len(es) \in Nat
  OBVIOUS
<1>2. Joined(now, buf, more)
  BY Concat
<1> HIDE DEF now
<1>3. Len(now) = Len(buf) + Len(more) /\ \A i \in 1..Len(buf) : now[i] = buf[i]
  BY <1>2 DEF Joined
<1>4. ASSUME NEW i \in 1..Len(es)
      PROVE  /\ off[i] = off[i - 1] + 12 + Len(es[i].data)
             /\ off[i] <= Len(now)
             /\ StandsAt(now, off[i - 1], es[i])
  <2> DEFINE pos == off[i - 1]
             z == Len(es[i].data)
             end == off[i]
  <2>1. end = pos + 12 + z /\ end <= Len(buf) /\ StandsAt(buf, pos, es[i])
    BY DEF Framed
  <2>2. i - 1 \in 0..Len(es)
    BY <1>1
  <2>3. pos \in Nat
    BY <2>2 DEF Framed
  <2>4. z \in Nat
    <3>1. es[i] \in AllEntries
      OBVIOUS
    <3>2. z \in Words
      BY <3>1, EntryType
    <3> HIDE DEF z
    <3> QED BY <3>2, WordNumbers
  <2>5. StandsAt(now, pos, es[i])
    <3> SUFFICES ASSUME NEW j \in 1..(12 + z) PROVE now[pos + j] = encode_entry(es[i])[j]
      BY DEF StandsAt
    <3>1. pos + j \in 1..Len(buf)
      <4> HIDE DEF pos, z, end
      <4> QED BY <1>1, <2>1, <2>3, <2>4
    <3>2. buf[pos + j] = encode_entry(es[i])[j]
      BY <2>1 DEF StandsAt
    <3> QED BY <1>3, <3>1, <3>2
  <2>6. end <= Len(now)
    <3> HIDE DEF pos, z, end
    <3> QED BY <1>1, <1>3, <2>1, <2>3, <2>4
  <2> QED BY <2>1, <2>5, <2>6
<1>5. off \in [0..Len(es) -> Nat] /\ off[0] = 0
  BY DEF Framed
<1> QED BY <1>4, <1>5 DEF Framed, now

(* An empty file. *)
LEMMA LayoutEmpty ==
  ASSUME NEW buf, NEW es, Len(buf) = 0, Len(es) = 0 PROVE Layout(buf, es, "whole")
<1> DEFINE off == [i \in 0..0 |-> 0]
<1>1. off \in [0..Len(es) -> Nat] /\ off[0] = 0 /\ \A i \in 1..Len(es) : FALSE
  OBVIOUS
<1> HIDE DEF off
<1>2. Framed(buf, es, off)
  BY <1>1 DEF Framed
<1>3. Ends(buf, off[Len(es)], "whole")
  BY <1>1 DEF Ends
<1> QED BY <1>2, <1>3 DEF Layout

(* A whole entry behind whole ones. *)
LEMMA LayoutAppend ==
  ASSUME NEW buf \in Seq(Bytes), NEW es \in Seq(AllEntries), NEW e \in AllEntries,
         Layout(buf, es, "whole")
  PROVE  Layout(buf \o encode_entry(e), Append(es, e), "whole")
<1> DEFINE b == encode_entry(e)
           now == buf \o b
           all == Append(es, e)
           n == Len(es)
           z == Len(e.data)
<1>1. n \in Nat /\ Len(buf) \in Nat
  OBVIOUS
<1>2. b \in Seq(Bytes) /\ Len(b) = 12 + z
  BY EncodeShape
<1>3. z \in Nat
  <2>1. z \in Words
    BY EntryType
  <2> HIDE DEF z
  <2> QED BY <2>1, WordNumbers
<1>4. all \in Seq(AllEntries) /\ Len(all) = n + 1 /\ all[n + 1] = e /\ \A i \in 1..n : all[i] = es[i]
  OBVIOUS
<1> HIDE DEF b, all
<1>5. PICK off : Framed(buf, es, off) /\ Ends(buf, off[n], "whole")
  BY DEF Layout
<1>6. off[n] = Len(buf)
  BY <1>5 DEF Ends
<1>7. Joined(now, buf, b)
  BY <1>2, Concat
<1>8. Framed(now, es, off)
  BY <1>2, <1>5, FramedGrows
<1> HIDE DEF now, n, z
<1>9. Len(now) = Len(buf) + 12 + z /\ \A i \in 1..(12 + z) : now[Len(buf) + i] = b[i]
  BY <1>1, <1>2, <1>3, <1>7 DEF Joined
<1> DEFINE new == [i \in 0..(n + 1) |-> IF i = n + 1 THEN Len(now) ELSE off[i]]
<1>10. /\ off \in [0..n -> Nat] /\ off[0] = 0
       /\ \A i \in 1..n : /\ off[i] = off[i - 1] + 12 + Len(es[i].data)
                          /\ off[i] <= Len(now)
                          /\ StandsAt(now, off[i - 1], es[i])
  BY <1>8 DEF Framed, n
<1>11. /\ new \in [0..(n + 1) -> Nat] /\ new[n + 1] = Len(now)
       /\ \A i \in 0..n : new[i] = off[i]
  BY <1>1, <1>3, <1>9, <1>10
<1> HIDE DEF new
<1>12. ASSUME NEW i \in 1..(n + 1)
       PROVE  /\ new[i] = new[i - 1] + 12 + Len(all[i].data)
              /\ new[i] <= Len(now)
              /\ StandsAt(now, new[i - 1], all[i])
  <2>1. CASE i = n + 1
    <3>1. n \in 0..n /\ i - 1 = n /\ Len(now) \in Nat /\ Len(now) <= Len(now)
      BY <1>1, <1>3, <1>9, <2>1
    <3>2. new[i] = Len(now) /\ new[i - 1] = Len(buf) /\ all[i] = e /\ Len(all[i].data) = z
      BY <1>4, <1>6, <1>11, <2>1, <3>1 DEF z
    <3>3. StandsAt(now, Len(buf), e)
      BY <1>9 DEF StandsAt, b, z
    <3> QED BY <1>9, <3>1, <3>2, <3>3
  <2>2. CASE i # n + 1
    <3>1. i \in 1..n /\ i \in 0..n /\ i - 1 \in 0..n
      BY <1>1, <2>2
    <3>2. new[i] = off[i] /\ new[i - 1] = off[i - 1] /\ all[i] = es[i]
      BY <1>4, <1>11, <3>1
    <3> QED BY <1>10, <3>1, <3>2
  <2> QED BY <2>1, <2>2
<1>13. 0 \in 0..n
  BY <1>1
<1>14. Framed(now, all, new)
  BY <1>4, <1>10, <1>11, <1>12, <1>13 DEF Framed
<1>15. Ends(now, new[Len(all)], "whole")
  BY <1>4, <1>11 DEF Ends
<1>16. Layout(now, all, "whole")
  BY <1>14, <1>15 DEF Layout
<1> QED BY <1>16 DEF now, all, b

(* The first bytes of an entry behind whole ones. *)
LEMMA LayoutTears ==
  ASSUME NEW buf \in Seq(Bytes), NEW es \in Seq(AllEntries), NEW e \in AllEntries,
         Layout(buf, es, "whole"), NEW n \in Nat, 0 < n, n < Len(encode_entry(e))
  PROVE  Layout(buf \o SubSeq(encode_entry(e), 1, n), es, "torn")
<1> DEFINE b == encode_entry(e)
           part == SubSeq(b, 1, n)
           now == buf \o part
<1>1. b \in Seq(Bytes) /\ Len(b) = 12 + Len(e.data) /\ Len(buf) \in Nat
  BY EncodeShape
<1>2. part \in Seq(Bytes) /\ Len(part) = n /\ \A i \in 1..n : part[i] = b[i]
  <2> HIDE DEF b
  <2>1. \A i \in 1..n : b[i] \in Bytes
    BY <1>1 DEF b
  <2>2. 1 <= n /\ n - 1 + 1 = n /\ 1 \in Int /\ n \in Int /\ \A i \in 1..n : 1 + i - 1 = i
    OBVIOUS
  <2>3. /\ part \in Seq(Bytes) /\ Len(part) = (IF 1 <= n THEN n - 1 + 1 ELSE 0)
        /\ \A i \in 1..(n - 1 + 1) : part[i] = b[1 + i - 1]
    BY <2>1, <2>2, SubSeqProperties
  <2> HIDE DEF part
  <2> QED BY <2>2, <2>3
<1>3. PICK off : Framed(buf, es, off) /\ Ends(buf, off[Len(es)], "whole")
  BY DEF Layout
<1>4. off[Len(es)] = Len(buf)
  BY <1>3 DEF Ends
<1> HIDE DEF part
<1>5. Joined(now, buf, part)
  BY <1>2, Concat
<1>6. Framed(now, es, off)
  BY <1>2, <1>3, FramedGrows
<1> HIDE DEF now
<1>7. Len(now) = Len(buf) + n /\ \A j \in 1..n : now[Len(buf) + j] = b[j]
  BY <1>2, <1>5 DEF Joined
<1>8. n < 12 + Len(e.data)
  BY <1>1
<1>9. TornAt(now, Len(buf))
  BY <1>7, <1>8 DEF TornAt
<1>10. Ends(now, off[Len(es)], "torn")
  BY <1>4, <1>9 DEF Ends
<1>11. Layout(now, es, "torn")
  BY <1>6, <1>10 DEF Layout
<1> QED BY <1>11 DEF now, part
-----------------------------------------------------------------------------
(* The last marker of transaction t in es is the i-th entry. *)
IsLast(es, t, i) ==
  /\ i \in 1..Len(es) /\ IsMarker(es[i]) /\ es[i].txn_id = t
  /\ \A j \in (i + 1)..Len(es) : ~(IsMarker(es[j]) /\ es[j].txn_id = t)

(* What the first pass says of t. *)
Verdict(es, t) ==
  LET last == CHOOSE i \in DOMAIN es :
                /\ IsMarker(es[i]) /\ es[i].txn_id = t
                /\ \A j \in (i + 1)..Len(es) : ~(IsMarker(es[j]) /\ es[j].txn_id = t)
  IN  es[last].entry_type = COMMIT

(* The map the first pass builds. *)
LEMMA OutcomesAre == ASSUME NEW es PROVE Outcomes(es) = [t \in Marked(es) |-> Verdict(es, t)]
  BY Zenon DEF Outcomes, Verdict

(* A marked transaction has a last marker. *)
LEMMA LastExists ==
  ASSUME NEW es \in Seq(AllEntries), NEW t, NEW i \in 1..Len(es), IsMarker(es[i]), es[i].txn_id = t
  PROVE  \E k : IsLast(es, t, k) /\ i <= k
<1> DEFINE n == Len(es)
           M(j) == IsMarker(es[j]) /\ es[j].txn_id = t
           V == {d \in 0..n : n - d \in 1..n /\ M(n - d)}
<1>1. n \in Nat /\ n - i \in 0..n /\ n - (n - i) = i
  OBVIOUS
<1>2. n - i \in V
  BY <1>1
<1>3. V \in SUBSET Nat
  BY <1>1
<1>4. PICK d \in V : \A y \in V : <<y, d>> \notin OpToRel(<, Nat)
  <2> HIDE DEF V
  <2> QED BY <1>2, <1>3, WFMin, NatLessThanWellFounded
<1>5. \A y \in V : ~(y < d)
  <2> HIDE DEF V
  <2> QED BY <1>3, <1>4 DEF OpToRel
<1> DEFINE k == n - d
<1>6. d \in 0..n /\ k \in 1..n /\ M(k)
  OBVIOUS
<1>7. ASSUME NEW j \in (k + 1)..n, M(j) PROVE FALSE
  <2> HIDE DEF M, n
  <2>1. n - j \in 0..n /\ n - (n - j) = j /\ j \in 1..n /\ n - j < d
    BY <1>1, <1>6
  <2>2. n - j \in V
    BY <1>7, <2>1
  <2> QED BY <1>5, <2>1, <2>2
<1>8. i <= k
  <2> HIDE DEF V, M, n
  <2>1. ~(n - i < d)
    BY <1>2, <1>5
  <2>2. n \in Nat /\ d \in 0..n /\ i \in 1..n
    BY <1>1, <1>6 DEF n
  <2> QED BY <2>1, <2>2
<1> HIDE DEF k
<1>9. IsLast(es, t, k)
  BY <1>6, <1>7 DEF IsLast
<1> QED BY <1>8, <1>9

(* The last marker decides. *)
LEMMA LastDecides ==
  ASSUME NEW es \in Seq(AllEntries), NEW t, NEW k, IsLast(es, t, k)
  PROVE  t \in Marked(es) /\ Verdict(es, t) = (es[k].entry_type = COMMIT)
<1> DEFINE Q(i) == /\ IsMarker(es[i]) /\ es[i].txn_id = t
                   /\ \A j \in (i + 1)..Len(es) : ~(IsMarker(es[j]) /\ es[j].txn_id = t)
           last == CHOOSE i \in DOMAIN es : Q(i)
<1>1. DOMAIN es = 1..Len(es) /\ Len(es) \in Nat
  OBVIOUS
<1>2. k \in DOMAIN es /\ Q(k)
  BY <1>1 DEF IsLast
<1>3. last \in DOMAIN es /\ Q(last)
  <2> HIDE DEF Q
  <2> QED BY <1>2
<1> HIDE DEF last
<1>4. k \in 1..Len(es) /\ last \in 1..Len(es)
  BY <1>1, <1>2, <1>3
<1>5. last = k
  <2>1. ~(k \in (last + 1)..Len(es))
    BY <1>2, <1>3
  <2>2. ~(last \in (k + 1)..Len(es))
    BY <1>2, <1>3
  <2> QED BY ONLY <1>1, <1>4, <2>1, <2>2
<1>6. Verdict(es, t) = (es[last].entry_type = COMMIT)
  BY Zenon DEF Verdict, last
<1>7. t \in Marked(es)
  BY <1>2 DEF Marked
<1> QED BY <1>5, <1>6, <1>7, Zenon

(* A transaction that is marked has a last marker. *)
LEMMA MarkedHasLast ==
  ASSUME NEW es \in Seq(AllEntries), NEW t \in Marked(es)
  PROVE  \E k : IsLast(es, t, k)
<1>1. DOMAIN es = 1..Len(es)
  OBVIOUS
<1>2. PICK i \in 1..Len(es) : IsMarker(es[i]) /\ es[i].txn_id = t
  BY <1>1 DEF Marked
<1> QED BY <1>2, LastExists

(* An entry of the callers that is a marker is one of two. *)
LEMMA MarkerShape ==
  ASSUME NEW e \in AllEntries
  PROVE  /\ e.entry_type = COMMIT => e = Entry(e.txn_id, COMMIT, <<>>)
         /\ e.entry_type = ABORT => e = Entry(e.txn_id, ABORT, <<>>)
<1> DEFINE empty == <<>>
<1>1. \/ \E t \in WalTxns, p \in Payloads : e = Entry(t, DATA, p)
      \/ \E t \in WalTxns, m \in {COMMIT, ABORT} : e = Entry(t, m, empty)
  BY DEF AllEntries
<1> HIDE DEF empty
<1>2. /\ e.entry_type = COMMIT => e = Entry(e.txn_id, COMMIT, empty)
      /\ e.entry_type = ABORT => e = Entry(e.txn_id, ABORT, empty)
  BY <1>1 DEF Entry, DATA, COMMIT, ABORT
<1> QED BY <1>2 DEF empty

(* The first pass finds committed what the reference calls committed. *)
LEMMA CommittedSet ==
  ASSUME NEW es \in Seq(AllEntries)
  PROVE  {t \in DOMAIN Outcomes(es) : Outcomes(es)[t]} = {t \in WalTxns : CommittedIn(es, t)}
<1> DEFINE n == Len(es)
           empty == <<>>
<1>0. DOMAIN es = 1..n /\ n \in Nat /\ \A i \in 1..n : es[i] \in AllEntries
  OBVIOUS
<1>1. /\ DOMAIN Outcomes(es) = Marked(es)
      /\ \A t \in Marked(es) : Outcomes(es)[t] = Verdict(es, t)
  BY OutcomesAre, Zenon
<1>2. ASSUME NEW t \in Marked(es), Verdict(es, t) PROVE t \in WalTxns /\ CommittedIn(es, t)
  <2>1. PICK k : IsLast(es, t, k)
    BY MarkedHasLast
  <2>2. es[k].entry_type = COMMIT
    BY <1>2, <2>1, LastDecides, Zenon
  <2>3. k \in 1..n /\ es[k] \in AllEntries /\ es[k].txn_id = t
    BY <1>0, <2>1 DEF IsLast
  <2>4. es[k] = Entry(t, COMMIT, <<>>) /\ t \in WalTxns
    BY <2>2, <2>3, MarkerShape, EntryType
  <2>5. \A j \in (k + 1)..n : es[j] # Entry(t, ABORT, <<>>)
    <3> HIDE DEF empty
    <3> SUFFICES ASSUME NEW j \in (k + 1)..n, es[j] = Entry(t, ABORT, empty) PROVE FALSE
      BY DEF empty
    <3>1. IsMarker(es[j]) /\ es[j].txn_id = t
      BY DEF IsMarker, Entry
    <3> QED BY <2>1, <3>1 DEF IsLast
  <2>6. CommittedIn(es, t)
    BY <1>0, <2>3, <2>4, <2>5 DEF CommittedIn
  <2> QED BY <2>4, <2>6
<1>3. ASSUME NEW t \in WalTxns, CommittedIn(es, t) PROVE t \in Marked(es) /\ Verdict(es, t)
  <2>1. PICK i \in 1..n : /\ es[i] = Entry(t, COMMIT, empty)
                          /\ \A j \in (i + 1)..n : es[j] # Entry(t, ABORT, empty)
    BY <1>0, <1>3 DEF CommittedIn
  <2> HIDE DEF empty
  <2>2. IsMarker(es[i]) /\ es[i].txn_id = t /\ es[i].entry_type = COMMIT
    BY <2>1 DEF IsMarker, Entry
  <2>3. PICK k : IsLast(es, t, k) /\ i <= k
    BY <2>2, LastExists
  <2>4. k \in 1..n /\ IsMarker(es[k]) /\ es[k].txn_id = t /\ es[k] \in AllEntries
    BY <1>0, <2>3 DEF IsLast
  <2>5. es[k].entry_type = COMMIT
    <3>1. CASE k = i
      BY <2>2, <3>1
    <3>2. CASE k # i
      <4>1. k \in (i + 1)..n
        BY <1>0, <2>3, <2>4, <3>2
      <4>2. es[k] # Entry(t, ABORT, empty)
        BY <2>1, <4>1
      <4>3. es[k].entry_type # ABORT
        BY <2>4, <4>2, MarkerShape DEF empty
      <4> QED BY <2>4, <4>3 DEF IsMarker
    <3> QED BY <3>1, <3>2
  <2> QED BY <2>3, <2>5, LastDecides, Zenon
<1> QED BY <1>1, <1>2, <1>3, Zenon

-----------------------------------------------------------------------------
(* One more entry: the markers of the others keep their verdict. *)
LEMMA AppendKeeps ==
  ASSUME NEW es \in Seq(AllEntries), NEW e \in AllEntries, NEW t, ~(IsMarker(e) /\ e.txn_id = t)
  PROVE  /\ t \in Marked(Append(es, e)) <=> t \in Marked(es)
         /\ t \in Marked(es) => Verdict(Append(es, e), t) = Verdict(es, t)
<1> DEFINE now == Append(es, e)
           n == Len(es)
<1>1. /\ now \in Seq(AllEntries) /\ Len(now) = n + 1 /\ n \in Nat
      /\ now[n + 1] = e /\ \A i \in 1..n : now[i] = es[i]
  OBVIOUS
<1> HIDE DEF now, n
<1>2. ASSUME NEW k, IsLast(now, t, k) PROVE k \in 1..n
  BY <1>1, <1>2 DEF IsLast
<1>3. ASSUME NEW k, IsLast(es, t, k) PROVE IsLast(now, t, k) /\ now[k] = es[k]
  <2>1. k \in 1..n /\ k \in 1..(n + 1) /\ now[k] = es[k]
    BY <1>1, <1>3 DEF IsLast, n
  <2>2. \A j \in (k + 1)..(n + 1) : j = n + 1 \/ (j \in (k + 1)..n /\ j \in 1..n)
    BY <1>1, <2>1
  <2>3. \A j \in (k + 1)..(n + 1) : ~(IsMarker(now[j]) /\ now[j].txn_id = t)
    BY <1>1, <1>3, <2>2 DEF IsLast, n
  <2> QED BY <1>1, <1>3, <2>1, <2>3 DEF IsLast
<1>4. ASSUME t \in Marked(now) PROVE t \in Marked(es)
  <2>1. PICK k : IsLast(now, t, k)
    BY <1>1, <1>4, MarkedHasLast
  <2>2. k \in 1..n /\ now[k] = es[k] /\ k \in DOMAIN es
    BY <1>1, <1>2, <2>1 DEF n
  <2> QED BY <2>1, <2>2 DEF IsLast, Marked
<1>5. ASSUME t \in Marked(es)
      PROVE  t \in Marked(now) /\ Verdict(now, t) = Verdict(es, t)
  <2>1. PICK k : IsLast(es, t, k)
    BY <1>5, MarkedHasLast
  <2>2. IsLast(now, t, k) /\ now[k] = es[k]
    BY <1>3, <2>1
  <2>3. Verdict(es, t) = (es[k].entry_type = COMMIT)
    BY <2>1, LastDecides, Zenon
  <2>4. t \in Marked(now) /\ Verdict(now, t) = (now[k].entry_type = COMMIT)
    BY <1>1, <2>2, LastDecides, Zenon
  <2> QED BY <2>2, <2>3, <2>4, Zenon
<1> QED BY <1>4, <1>5 DEF now

(* A marker decides for its transaction. *)
LEMMA AppendDecides ==
  ASSUME NEW es \in Seq(AllEntries), NEW e \in AllEntries, IsMarker(e)
  PROVE  /\ e.txn_id \in Marked(Append(es, e))
         /\ Verdict(Append(es, e), e.txn_id) = (e.entry_type = COMMIT)
<1> DEFINE now == Append(es, e)
           n == Len(es)
           t == e.txn_id
<1>1. now \in Seq(AllEntries) /\ Len(now) = n + 1 /\ n \in Nat /\ now[n + 1] = e
  OBVIOUS
<1> HIDE DEF now, n
<1>2. n + 1 \in 1..(n + 1) /\ \A j \in (n + 1 + 1)..(n + 1) : FALSE
  BY <1>1
<1>3. IsLast(now, t, n + 1)
  BY <1>1, <1>2 DEF IsLast
<1> HIDE DEF t
<1>4. t \in Marked(now) /\ Verdict(now, t) = (now[n + 1].entry_type = COMMIT)
  BY <1>1, <1>3, LastDecides, Zenon
<1>5. t \in Marked(now) /\ Verdict(now, t) = (e.entry_type = COMMIT)
  BY <1>1, <1>4, Zenon
<1> QED BY <1>5 DEF now, t

(* So a DATA entry leaves the map alone, and a marker sets one outcome.    *)
LEMMA OutcomesData ==
  ASSUME NEW es \in Seq(AllEntries), NEW e \in AllEntries, ~IsMarker(e)
  PROVE  Outcomes(Append(es, e)) = Outcomes(es)
<1> DEFINE now == Append(es, e)
<1>1. Marked(now) = Marked(es) /\ \A t \in Marked(es) : Verdict(now, t) = Verdict(es, t)
  BY AppendKeeps
<1>2. [t \in Marked(now) |-> Verdict(now, t)] = [t \in Marked(es) |-> Verdict(es, t)]
  <2> HIDE DEF now
  <2> QED BY <1>1
<1> QED BY <1>2, OutcomesAre

WithOutcome(map, t, b) == [x \in DOMAIN map \cup {t} |-> IF x = t THEN b ELSE map[x]]

LEMMA OutcomesMarker ==
  ASSUME NEW es \in Seq(AllEntries), NEW e \in AllEntries, IsMarker(e),
         NEW b, b = (e.entry_type = COMMIT)
  PROVE  Outcomes(Append(es, e)) = WithOutcome(Outcomes(es), e.txn_id, b)
<1> DEFINE now == Append(es, e)
           t == e.txn_id
<1>1. t \in Marked(now) /\ Verdict(now, t) = b
  BY AppendDecides, Zenon
<1>2. \A x : x # t => /\ x \in Marked(now) <=> x \in Marked(es)
                      /\ x \in Marked(es) => Verdict(now, x) = Verdict(es, x)
  BY AppendKeeps
<1>3. /\ Outcomes(now) = [x \in Marked(now) |-> Verdict(now, x)]
      /\ DOMAIN Outcomes(es) = Marked(es) /\ \A x \in Marked(es) : Outcomes(es)[x] = Verdict(es, x)
  BY OutcomesAre, Zenon
<1> HIDE DEF now, t
<1>4. Marked(now) = Marked(es) \cup {t}
  BY <1>1, <1>2
<1>5. \A x \in Marked(now) : Verdict(now, x) = IF x = t THEN b ELSE Outcomes(es)[x]
  BY ONLY <1>1, <1>2, <1>3, <1>4, Zenon
<1>6. Outcomes(now) = [x \in DOMAIN Outcomes(es) \cup {t} |-> IF x = t THEN b ELSE Outcomes(es)[x]]
  BY ONLY <1>3, <1>4, <1>5, Zenon
<1> QED BY <1>6, Zenon DEF now, t, WithOutcome
-----------------------------------------------------------------------------
(* f holds what the second pass has kept after each of the first m entries. *)
Passes(f, m, es, ts) ==
  f = [i \in 0..m |->
         IF i = 0 THEN <<>>
         ELSE IF es[i].entry_type = DATA /\ es[i].txn_id \in ts THEN Append(f[i - 1], es[i])
         ELSE f[i - 1]]

(* The pass can be made. *)
LEMMA PassesExist == ASSUME NEW es, NEW ts, NEW n \in Nat PROVE \E f : Passes(f, n, es, ts)
<1> DEFINE E(m) == \E f : Passes(f, m, es, ts)
           V == {m \in 0..n : ~E(m)}
           wanted(i) == es[i].entry_type = DATA /\ es[i].txn_id \in ts
<1> SUFFICES ASSUME V # {} PROVE FALSE
  <2> SUFFICES E(n)
    OBVIOUS
  <2> HIDE DEF E
  <2> QED OBVIOUS
<1>1. V \in SUBSET Nat
  OBVIOUS
<1>2. PICK m \in V : \A y \in V : <<y, m>> \notin OpToRel(<, Nat)
  <2> HIDE DEF V
  <2> QED BY <1>1, WFMin, NatLessThanWellFounded
<1>3. \A y \in V : ~(y < m)
  <2> HIDE DEF V
  <2> QED BY <1>1, <1>2 DEF OpToRel
<1>4. m \in 0..n /\ ~E(m)
  OBVIOUS
<1>5. m # 0
  <2> DEFINE f == [i \in 0..0 |-> <<>>]
  <2>1. Passes(f, 0, es, ts)
    BY DEF Passes
  <2>2. E(0)
    <3> HIDE DEF f
    <3> QED BY <2>1
  <2> QED BY <1>4, <2>2
<1>6. m - 1 \in 0..n /\ m - 1 < m /\ m \in Nat
  BY <1>4, <1>5
<1>7. E(m - 1)
  <2> HIDE DEF E
  <2> QED BY <1>3, <1>6
<1>8. PICK g : Passes(g, m - 1, es, ts)
  BY <1>7
<1> DEFINE new == IF wanted(m) THEN Append(g[m - 1], es[m]) ELSE g[m - 1]
           f == [i \in 0..m |-> IF i = m THEN new ELSE g[i]]
<1>9. \A i \in 0..(m - 1) :
        g[i] = IF i = 0 THEN <<>> ELSE IF wanted(i) THEN Append(g[i - 1], es[i]) ELSE g[i - 1]
  BY <1>8 DEF Passes
<1>10. \A i \in 0..m : f[i] = IF i = m THEN new ELSE g[i]
  OBVIOUS
<1>11. f = [i \in 0..m |-> f[i]]
  OBVIOUS
<1> HIDE DEF f, V, E, wanted
<1>12. ASSUME NEW i \in 0..m
       PROVE  f[i] = IF i = 0 THEN <<>> ELSE IF wanted(i) THEN Append(f[i - 1], es[i]) ELSE f[i - 1]
  <2>1. CASE i = m
    <3>1. m - 1 \in 0..m /\ m - 1 # m
      BY <1>6
    <3> QED BY <1>5, <1>10, <2>1, <3>1
  <2>2. CASE i # m
    <3>1. i \in 0..(m - 1) /\ (i # 0 => i - 1 \in 0..m /\ i - 1 # m)
      BY <1>6, <2>2
    <3> QED BY <1>9, <1>10, <2>2, <3>1
  <2> QED BY <2>1, <2>2
<1>13. Passes(f, m, es, ts)
  BY <1>11, <1>12 DEF Passes, wanted
<1> QED BY <1>4, <1>13 DEF E

(* DataOf is what is kept at the end. *)
LEMMA DataOfIsPass ==
  ASSUME NEW es, NEW ts, Len(es) \in Nat
  PROVE  \E f : Passes(f, Len(es), es, ts) /\ DataOf(es, ts) = f[Len(es)]
<1> DEFINE kept == CHOOSE f : Passes(f, Len(es), es, ts)
<1>1. Passes(kept, Len(es), es, ts)
  BY PassesExist
<1>2. DataOf(es, ts) = kept[Len(es)]
  BY DEF DataOf, Passes
<1> QED BY <1>1, <1>2

(* r holds exactly the DATA entries of ts among the first m of es. *)
Keeps(r, m, es, ts) ==
  /\ r \in Seq(AllEntries)
  /\ \A x : (\E j \in 1..Len(r) : r[j] = x)
            <=> x.entry_type = DATA /\ x.txn_id \in ts /\ \E j \in 1..m : es[j] = x

(* So DataOf loses none and invents none. *)
LEMMA DataOfExact ==
  ASSUME NEW es \in Seq(AllEntries), NEW ts
  PROVE  Keeps(DataOf(es, ts), Len(es), es, ts)
<1> DEFINE n == Len(es)
<1>1. n \in Nat /\ n \in 0..n
  OBVIOUS
<1>2. PICK f : Passes(f, n, es, ts) /\ DataOf(es, ts) = f[n]
  BY <1>1, DataOfIsPass
<1> DEFINE P(m) == Keeps(f[m], m, es, ts)
           V == {m \in 0..n : ~P(m)}
<1>3. V = {}
  <2> SUFFICES ASSUME V # {} PROVE FALSE
    OBVIOUS
  <2>1. V \in SUBSET Nat
    BY <1>1
  <2>2. PICK m \in V : \A y \in V : <<y, m>> \notin OpToRel(<, Nat)
    <3> HIDE DEF V
    <3> QED BY <2>1, WFMin, NatLessThanWellFounded
  <2>3. \A y \in V : ~(y < m)
    <3> HIDE DEF V
    <3> QED BY <2>1, <2>2 DEF OpToRel
  <2>4. m \in 0..n /\ ~P(m)
    OBVIOUS
  <2>5. P(0)
    <3> DEFINE empty == <<>>
    <3>1. f[0] = empty
      BY <1>1, <1>2 DEF Passes
    <3>2. empty \in Seq(AllEntries) /\ Len(empty) = 0
      BY EmptySeq
    <3> HIDE DEF empty
    <3>3. \A j \in 1..0 : FALSE
      OBVIOUS
    <3>4. Keeps(empty, 0, es, ts)
      BY <3>2, <3>3 DEF Keeps
    <3> QED BY <3>1, <3>4
  <2>6. m # 0
    BY <2>4, <2>5
  <2>7. m - 1 \in 0..n /\ m - 1 < m /\ m \in 1..n /\ m \in Nat
    <3> HIDE DEF n, P, V
    <3> QED BY <1>1, <2>4, <2>6
  <2>8. P(m - 1)
    <3> HIDE DEF P
    <3> QED BY <2>3, <2>7
  <2> DEFINE r == f[m - 1]
             e == es[m]
             w == e.entry_type = DATA /\ e.txn_id \in ts
             q == f[m]
  <2>9. Keeps(r, m - 1, es, ts) /\ e \in AllEntries
    BY <2>7, <2>8
  <2>10. q = IF w THEN Append(r, e) ELSE r
    BY <1>2, <2>4, <2>6 DEF Passes
  <2>11. \A j : j \in 1..m <=> j \in 1..(m - 1) \/ j = m
    BY <2>7
  <2>12. es[m] = e
    OBVIOUS
  <2> HIDE DEF r, e, q, n, V, P
  <2>13. CASE ~w
    <3>1. q = r
      BY <2>10, <2>13
    <3>2. Keeps(r, m, es, ts)
      <4>1. \A x : /\ x.entry_type = DATA /\ x.txn_id \in ts
                   => ((\E j \in 1..m : es[j] = x) <=> \E j \in 1..(m - 1) : es[j] = x)
        BY <2>11, <2>12, <2>13
      <4> QED BY <2>9, <4>1 DEF Keeps
    <3> QED BY <2>4, <3>1, <3>2 DEF q, P
  <2>14. CASE w
    <3>1. q = Append(r, e)
      BY <2>10, <2>14
    <3>2. r \in Seq(AllEntries) /\ Len(r) \in Nat
      BY <2>9 DEF Keeps
    <3>3. /\ q \in Seq(AllEntries) /\ Len(q) = Len(r) + 1 /\ q[Len(r) + 1] = e
          /\ \A j \in 1..Len(r) : q[j] = r[j]
      BY <2>9, <3>1, <3>2
    <3>4. \A j : j \in 1..Len(q) <=> j \in 1..Len(r) \/ j = Len(r) + 1
      BY <3>2, <3>3
    <3>5. \A x : (\E j \in 1..Len(q) : q[j] = x) <=> (\E j \in 1..Len(r) : r[j] = x) \/ x = e
      BY <3>3, <3>4
    <3>6. \A x : (\E j \in 1..m : es[j] = x) <=> (\E j \in 1..(m - 1) : es[j] = x) \/ x = e
      BY <2>11, <2>12
    <3>7. Keeps(q, m, es, ts)
      BY <2>9, <2>14, <3>3, <3>5, <3>6 DEF Keeps
    <3> QED BY <2>4, <3>7 DEF q, P
  <2> QED BY <2>13, <2>14
<1>4. P(n)
  <2> HIDE DEF P
  <2> QED BY <1>1, <1>3
<1> QED BY <1>2, <1>4

-----------------------------------------------------------------------------
(* The inductive invariant: the file is laid out as the log, unless        *)
(* something was appended behind a torn entry; and a process that has      *)
(* recovered holds the outcomes of the log.                                *)
Filed == /\ wal \in Seq(Bytes) /\ log \in Seq(AllEntries)
         /\ tail \in {"whole", "torn", "buried"}
         /\ tail # "buried" => Layout(wal, log, tail)

Informed == recovered /\ tail # "buried" => committed_txns = Outcomes(log)

(* An append of a whole entry. *)
LEMMA AppendFiled == ASSUME Filed, NEW e \in AllEntries, AppendEntry(e) PROVE Filed'
<1>1. /\ wal' = wal \o encode_entry(e) /\ log' = Append(log, e)
      /\ tail' = IF tail = "whole" THEN "whole" ELSE "buried"
  BY DEF AppendEntry
<1>2. encode_entry(e) \in Seq(Bytes)
  BY EncodeShape
<1>3. wal' \in Seq(Bytes) /\ log' \in Seq(AllEntries)
  BY <1>1, <1>2, Concat DEF Filed, Joined
<1>4. CASE tail = "whole"
  <2>1. Layout(wal', log', "whole")
    BY <1>1, <1>4, LayoutAppend DEF Filed
  <2> QED BY <1>1, <1>3, <1>4, <2>1 DEF Filed
<1>5. CASE tail # "whole"
  BY <1>1, <1>3, <1>5 DEF Filed
<1> QED BY <1>4, <1>5

(* A crash inside an append, at any byte. *)
LEMMA CrashFiled ==
  ASSUME Filed, NEW e \in AllEntries, NEW n \in 0..Len(encode_entry(e)), CrashInAppend(e, n)
  PROVE  Filed'
<1> DEFINE b == encode_entry(e)
           part == SubSeq(b, 1, n)
<1>1. b \in Seq(Bytes) /\ Len(b) \in Nat /\ Len(b) = 12 + Len(e.data) /\ Len(e.data) \in Nat
  <2>1. b \in Seq(Bytes) /\ Len(b) = 12 + Len(e.data)
    BY EncodeShape
  <2>2. Len(e.data) \in Words
    BY EntryType
  <2> HIDE DEF b
  <2> QED BY <2>1, <2>2, WordNumbers
<1>2. /\ wal' = wal \o part
      /\ log' = IF n = Len(b) THEN Append(log, e) ELSE log
      /\ tail' = CASE n = 0 -> tail
                   [] n > 0 /\ tail # "whole" -> "buried"
                   [] n > 0 /\ tail = "whole" -> IF n = Len(b) THEN "whole" ELSE "torn"
  BY DEF CrashInAppend
<1>3. part \in Seq(Bytes)
  <2>0. n \in 0..Len(b)
    OBVIOUS
  <2> HIDE DEF b
  <2>1. \A i \in 1..n : b[i] \in Bytes
    BY <1>1, <2>0
  <2>2. 1 \in Int /\ n \in Int
    BY <1>1 DEF b
  <2> QED BY <2>1, <2>2, SubSeqProperties
<1>4. wal' \in Seq(Bytes) /\ log' \in Seq(AllEntries)
  <2>1. wal' \in Seq(Bytes)
    <3> HIDE DEF part
    <3> QED BY <1>2, <1>3, Concat DEF Filed, Joined
  <2>2. log' = log \/ log' = Append(log, e)
    BY <1>2
  <2> QED BY <2>1, <2>2 DEF Filed
<1>5. n \in Nat /\ n <= Len(b) /\ Len(b) # 0
  <2>1. \A u \in Nat : 12 + u # 0
    OBVIOUS
  <2> QED BY <1>1, <2>1
<1> HIDE DEF b
<1>6. CASE n = 0
  <2>1. part = <<>>
    BY <1>6, SubSeqEmpty
  <2>2. wal' = wal
    BY <1>2, <2>1, ConcatEmptySeq DEF Filed
  <2>3. log' = log /\ tail' = tail
    BY <1>2, <1>5, <1>6
  <2> QED BY <2>2, <2>3 DEF Filed
<1>7. CASE n # 0 /\ tail # "whole"
  <2>1. tail' = "buried"
    BY <1>2, <1>5, <1>7
  <2> QED BY <1>4, <2>1 DEF Filed
<1>8. CASE n # 0 /\ tail = "whole" /\ n = Len(b)
  <2>1. part = b
    BY <1>1, <1>8, SubSeqFull
  <2>2. tail' = "whole" /\ log' = Append(log, e) /\ wal' = wal \o b
    BY <1>2, <1>5, <1>8, <2>1
  <2>3. Layout(wal', log', "whole")
    BY <1>8, <2>2, LayoutAppend DEF Filed, b
  <2> QED BY <1>4, <2>2, <2>3 DEF Filed
<1>9. CASE n # 0 /\ tail = "whole" /\ n # Len(b)
  <2>1. tail' = "torn" /\ log' = log /\ wal' = wal \o part /\ 0 < n /\ n < Len(b)
    BY <1>1, <1>2, <1>5, <1>9
  <2>2. Layout(wal', log', "torn")
    BY <1>5, <1>9, <2>1, LayoutTears DEF Filed, b
  <2> QED BY <1>4, <2>1, <2>2 DEF Filed
<1> QED BY <1>6, <1>7, <1>8, <1>9

(* The entries the three calls append. *)
LEMMA CallEntries ==
  /\ \A t \in WalTxns, p \in Payloads : Entry(t, DATA, p) \in AllEntries /\ ~IsMarker(Entry(t, DATA, p))
  /\ \A t \in WalTxns, m \in {COMMIT, ABORT} :
       LET e == Entry(t, m, <<>>) IN
         e \in AllEntries /\ IsMarker(e) /\ e.txn_id = t /\ e.entry_type = m
<1>1. \A t \in WalTxns, p \in Payloads : Entry(t, DATA, p) \in AllEntries
  BY DEF AllEntries
<1>2. \A t, p : ~IsMarker(Entry(t, DATA, p))
  BY DEF IsMarker, Entry, DATA, COMMIT, ABORT
<1>3. \A t \in WalTxns, m \in {COMMIT, ABORT} : Entry(t, m, <<>>) \in AllEntries
  BY DEF AllEntries
<1>4. \A t, d : \A m \in {COMMIT, ABORT} :
        LET e == Entry(t, m, d) IN IsMarker(e) /\ e.txn_id = t /\ e.entry_type = m
  BY DEF IsMarker, Entry
<1> QED BY <1>1, <1>2, <1>3, <1>4, Zenon

LEMMA FiledNext == Filed /\ [WalNext]_walVars => Filed'
<1> SUFFICES ASSUME Filed, [WalNext]_walVars PROVE Filed'
  OBVIOUS
<1>1. ASSUME NEW t \in WalTxns, NEW p \in Payloads, write_data(t, p) PROVE Filed'
  BY <1>1, CallEntries, AppendFiled DEF write_data
<1>2. ASSUME NEW t \in WalTxns, write_commit(t) PROVE Filed'
  <2> DEFINE e == Entry(t, COMMIT, <<>>)
  <2>1. e \in AllEntries /\ AppendEntry(e)
    BY <1>2, CallEntries DEF write_commit
  <2> HIDE DEF e
  <2> QED BY <2>1, AppendFiled
<1>3. ASSUME NEW t \in WalTxns, write_abort(t) PROVE Filed'
  <2> DEFINE e == Entry(t, ABORT, <<>>)
  <2>1. e \in AllEntries /\ AppendEntry(e)
    BY <1>3, CallEntries DEF write_abort
  <2> HIDE DEF e
  <2> QED BY <2>1, AppendFiled
<1>4. CASE UNCHANGED <<wal, log, tail>>
  BY <1>4 DEF Filed
<1>5. recover \/ Restart \/ UNCHANGED walVars => UNCHANGED <<wal, log, tail>>
  BY Zenon DEF recover, Restart, walVars
<1>6. ASSUME NEW e \in AllEntries, NEW n \in 0..Len(encode_entry(e)), CrashInAppend(e, n) PROVE Filed'
  BY <1>6, CrashFiled
<1> QED BY <1>1, <1>2, <1>3, <1>4, <1>5, <1>6 DEF WalNext

(* The initial state. *)
LEMMA FiledInit == WalInit => Filed
<1> SUFFICES ASSUME WalInit PROVE Filed
  OBVIOUS
<1> DEFINE empty == <<>>
<1>1. wal = empty /\ log = empty /\ tail = "whole"
  BY DEF WalInit
<1>2. empty \in Seq(Bytes) /\ empty \in Seq(AllEntries) /\ Len(empty) = 0
  BY EmptySeq
<1> HIDE DEF empty
<1> QED BY <1>1, <1>2, LayoutEmpty DEF Filed
-----------------------------------------------------------------------------
(* While nothing is buried, recover() works on the log. *)
LEMMA ReadsLog ==
  ASSUME Filed, tail # "buried"
  PROVE  /\ Decoded(wal) = log
         /\ Recover(wal) = DataOf(log, {t \in WalTxns : CommittedIn(log, t)})
<1>1. Decoded(wal) = log
  BY LayoutDecodes DEF Filed
<1>2. {t \in DOMAIN Outcomes(log) : Outcomes(log)[t]} = {t \in WalTxns : CommittedIn(log, t)}
  BY CommittedSet DEF Filed
<1>3. Recover(wal) = DataOf(log, {t \in DOMAIN Outcomes(log) : Outcomes(log)[t]})
  BY <1>1, Zenon DEF Recover, RecoveredFrom
<1> QED BY <1>1, <1>2, <1>3, Zenon

(* RecoverExact: for every history of appends, crashes at any byte,        *)
(* restarts and recoveries, recover() returns exactly the committed data   *)
(* of the entries that reached the file whole, in order, as long as        *)
(* nothing was appended behind a torn entry.                               *)
THEOREM RecoveryIsExact == WalSpec => []RecoverExact
<1>1. Filed => RecoverExact
  BY ReadsLog DEF RecoverExact
<1> QED BY FiledInit, FiledNext, <1>1, PTL DEF WalSpec

(* A marker that is appended, and its outcome in the map. *)
LEMMA MarkerInformed ==
  ASSUME Filed, Informed, NEW e \in AllEntries, IsMarker(e), AppendEntry(e),
         NEW b, b = (e.entry_type = COMMIT), SetOutcome(e.txn_id, b)
  PROVE  Informed'
<1>1. up' = up /\ recovered' = recovered /\ log' = Append(log, e)
  BY Zenon DEF AppendEntry
<1>2. tail' # "buried" => tail # "buried"
  BY DEF AppendEntry
<1>3. committed_txns' = WithOutcome(committed_txns, e.txn_id, b)
  BY Zenon DEF SetOutcome, WithOutcome
<1>4. Outcomes(Append(log, e)) = WithOutcome(Outcomes(log), e.txn_id, b)
  <2>1. log \in Seq(AllEntries)
    BY DEF Filed
  <2> QED BY <2>1, OutcomesMarker, Zenon
<1> QED BY <1>1, <1>2, <1>3, <1>4, Zenon DEF Informed

LEMMA InformedNext == Filed /\ Informed /\ [WalNext]_walVars => Informed'
<1> SUFFICES ASSUME Filed, Informed, [WalNext]_walVars PROVE Informed'
  OBVIOUS
<1>1. ASSUME NEW t \in WalTxns, NEW p \in Payloads, write_data(t, p) PROVE Informed'
  <2> DEFINE e == Entry(t, DATA, p)
  <2>1. e \in AllEntries /\ ~IsMarker(e)
    BY CallEntries
  <2> HIDE DEF e
  <2>2. AppendEntry(e) /\ committed_txns' = committed_txns
    BY <1>1, Zenon DEF write_data, e
  <2>3. up' = up /\ recovered' = recovered /\ log' = Append(log, e)
    BY <2>2, Zenon DEF AppendEntry
  <2>4. tail' # "buried" => tail # "buried"
    BY <2>2 DEF AppendEntry
  <2>5. Outcomes(Append(log, e)) = Outcomes(log)
    BY <2>1, OutcomesData DEF Filed
  <2> QED BY <2>2, <2>3, <2>4, <2>5, Zenon DEF Informed
<1>2. ASSUME NEW t \in WalTxns, write_commit(t) PROVE Informed'
  <2> DEFINE e == Entry(t, COMMIT, <<>>)
  <2>1. e \in AllEntries /\ IsMarker(e) /\ e.txn_id = t /\ e.entry_type = COMMIT
    BY CallEntries, Zenon
  <2>2. AppendEntry(e) /\ SetOutcome(t, TRUE)
    BY <1>2, Zenon DEF write_commit
  <2> HIDE DEF e
  <2>3. TRUE = (e.entry_type = COMMIT)
    BY <2>1, Zenon
  <2> QED BY <2>1, <2>2, <2>3, MarkerInformed, Zenon
<1>3. ASSUME NEW t \in WalTxns, write_abort(t) PROVE Informed'
  <2> DEFINE e == Entry(t, ABORT, <<>>)
  <2>1. e \in AllEntries /\ IsMarker(e) /\ e.txn_id = t /\ e.entry_type = ABORT
    BY CallEntries, Zenon
  <2>2. AppendEntry(e) /\ SetOutcome(t, FALSE)
    BY <1>3, Zenon DEF write_abort
  <2> HIDE DEF e
  <2>3. FALSE = (e.entry_type = COMMIT)
    <3>1. e.entry_type # COMMIT
      BY <2>1 DEF COMMIT, ABORT
    <3> QED BY <3>1, Zenon
  <2> QED BY <2>1, <2>2, <2>3, MarkerInformed, Zenon
<1>4. CASE recover
  <2>1. log' = log /\ tail' = tail /\ committed_txns' = Outcomes(Decoded(wal))
    BY <1>4, Zenon DEF recover
  <2>2. tail # "buried" => Decoded(wal) = log
    BY ReadsLog
  <2> QED BY <2>1, <2>2, Zenon DEF Informed
<1>5. ASSUME NEW e, NEW n, CrashInAppend(e, n) PROVE Informed'
  <2>1. ~recovered'
    BY <1>5, Zenon DEF CrashInAppend
  <2> QED BY <2>1, Zenon DEF Informed
<1>6. CASE Restart \/ UNCHANGED walVars
  BY <1>6, Zenon DEF Restart, Informed, walVars
<1> QED BY <1>1, <1>2, <1>3, <1>4, <1>5, <1>6 DEF WalNext
(* MemoryAgreesWithFile: the map that write_commit and write_abort keep is *)
(* the one a recovery would compute, from the first recovery of a process  *)
(* on, whatever it appends.                                                *)
THEOREM MemoryIsRight == WalSpec => []MemoryAgreesWithFile
<1>1. WalInit => Informed
  BY Zenon DEF WalInit, Informed
<1>2. Filed /\ Informed => MemoryAgreesWithFile
  BY ReadsLog, Zenon DEF Informed, MemoryAgreesWithFile
<1> QED BY FiledInit, FiledNext, InformedNext, <1>1, <1>2, PTL DEF WalSpec

-----------------------------------------------------------------------------
(* What a step does to the log. *)
LEMMA LogStep ==
  ASSUME [WalNext]_walVars
  PROVE  /\ log' = log \/ \E e \in AllEntries : log' = Append(log, e)
         /\ tail' # "buried" => tail # "buried"
<1>1. ASSUME NEW e \in AllEntries, AppendEntry(e)
      PROVE  log' = Append(log, e) /\ (tail' # "buried" => tail # "buried")
  BY <1>1 DEF AppendEntry
<1>2. ASSUME NEW t \in WalTxns, \/ \E p \in Payloads : write_data(t, p)
                                \/ write_commit(t)
                                \/ write_abort(t)
      PROVE  \E e \in AllEntries : AppendEntry(e)
  BY <1>2, CallEntries, Zenon DEF write_data, write_commit, write_abort
<1>3. ASSUME NEW e \in AllEntries, NEW n \in 0..Len(encode_entry(e)), CrashInAppend(e, n)
      PROVE  /\ log' = log \/ log' = Append(log, e)
             /\ tail' # "buried" => tail # "buried"
  <2>1. log' = log \/ log' = Append(log, e)
    BY <1>3 DEF CrashInAppend
  <2>2. n \in Nat
    <3>1. encode_entry(e) \in Seq(Bytes)
      BY EncodeShape
    <3>2. Len(encode_entry(e)) \in Nat
      BY <3>1
    <3> QED BY <3>2
  <2>3. ASSUME tail = "buried" PROVE tail' = "buried"
    <3>1. CASE n = 0
      BY <1>3, <2>3, <3>1 DEF CrashInAppend
    <3>2. CASE n # 0
      BY <1>3, <2>2, <2>3, <3>2 DEF CrashInAppend
    <3> QED BY <3>1, <3>2
  <2> QED BY <2>1, <2>3
<1>4. recover \/ Restart \/ UNCHANGED walVars => log' = log /\ tail' = tail
  BY Zenon DEF recover, Restart, walVars
<1> QED BY <1>1, <1>2, <1>3, <1>4, Zenon DEF WalNext

(* A commit is not undone by the next entry, unless that is its abort. *)
LEMMA StaysCommitted ==
  ASSUME NEW es \in Seq(AllEntries), NEW e, NEW t, CommittedIn(es, t), e # Entry(t, ABORT, <<>>)
  PROVE  CommittedIn(Append(es, e), t)
<1> DEFINE empty == <<>>
           n == Len(es)
           now == Append(es, e)
<1>1. DOMAIN es = 1..n /\ n \in Nat
  OBVIOUS
<1>2. /\ DOMAIN now = 1..(n + 1) /\ Len(now) = n + 1 /\ now[n + 1] = e
      /\ \A i \in 1..n : now[i] = es[i]
  <2> DEFINE S == AllEntries \cup {e}
  <2>1. es \in Seq(S) /\ e \in S
    BY SeqMonotonic
  <2> HIDE DEF S
  <2> QED BY <2>1
<1>3. PICK i \in 1..n : /\ es[i] = Entry(t, COMMIT, empty)
                        /\ \A j \in (i + 1)..n : es[j] # Entry(t, ABORT, empty)
  BY <1>1 DEF CommittedIn
<1> HIDE DEF empty, now, n
<1>4. i \in 1..(n + 1) /\ \A j \in (i + 1)..(n + 1) : j = n + 1 \/ (j \in (i + 1)..n /\ j \in 1..n)
  BY <1>1
<1>5. \A j \in (i + 1)..(n + 1) : now[j] # Entry(t, ABORT, empty)
  BY <1>2, <1>3, <1>4 DEF empty
<1>6. now[i] = Entry(t, COMMIT, empty)
  BY <1>2, <1>3
<1> QED BY <1>2, <1>4, <1>5, <1>6 DEF CommittedIn, empty, now

(* NothingLost: what was recoverable before a step is recoverable after    *)
(* it, a crash at any byte of a write included, unless the step is the     *)
(* abort of its transaction.                                               *)
THEOREM NothingIsLost == WalSpec => NothingLost
<1>1. Filed /\ [WalNext]_walVars => NoLossStep
  <2> SUFFICES ASSUME Filed, [WalNext]_walVars, tail' # "buried", NEW i \in DOMAIN Recover(wal),
                      ~Aborted(Recover(wal)[i].txn_id)
               PROVE  \E j \in DOMAIN Recover(wal') : Recover(wal')[j] = Recover(wal)[i]
    BY DEF NoLossStep
  <2>1. Filed' /\ tail # "buried"
    BY FiledNext, LogStep
  <2> DEFINE C == {t \in WalTxns : CommittedIn(log, t)}
             D == {t \in WalTxns : CommittedIn(log', t)}
             old == Recover(wal)
             new == Recover(wal')
             x == old[i]
  <2>2. log \in Seq(AllEntries) /\ log' \in Seq(AllEntries)
    BY <2>1 DEF Filed
  <2>3. old = DataOf(log, C)
    BY <2>1, ReadsLog
  <2>4. new = DataOf(log', D)
    <3>1. (Filed /\ tail # "buried" => Recover(wal) = DataOf(log, {t \in WalTxns : CommittedIn(log, t)}))'
      BY ReadsLog, PTL
    <3> QED BY <2>1, <3>1 DEF D
  <2> HIDE DEF old, new, C, D
  <2>5. Keeps(old, Len(log), log, C) /\ Keeps(new, Len(log'), log', D)
    BY <2>2, <2>3, <2>4, DataOfExact
  <2>6. i \in 1..Len(old)
    <3>1. DOMAIN old = 1..Len(old)
      BY <2>5 DEF Keeps
    <3> QED BY <3>1 DEF old
  <2>7. x.entry_type = DATA /\ x.txn_id \in C /\ \E j \in 1..Len(log) : log[j] = x
    BY <2>5, <2>6 DEF Keeps
  <2> DEFINE t == x.txn_id
  <2>8. t \in WalTxns /\ CommittedIn(log, t) /\ ~Aborted(t)
    BY <2>7 DEF C, old
  <2>9. (\E j \in 1..Len(log') : log'[j] = x) /\ CommittedIn(log', t)
    <3> HIDE DEF x, t
    <3>1. CASE log' = log
      BY <2>7, <2>8, <3>1
    <3>2. ASSUME NEW e \in AllEntries, log' = Append(log, e)
          PROVE  (\E j \in 1..Len(log') : log'[j] = x) /\ CommittedIn(log', t)
      <4>1. /\ Len(log) \in Nat /\ Len(log') = Len(log) + 1 /\ log'[Len(log) + 1] = e
            /\ \A j \in 1..Len(log) : log'[j] = log[j]
        BY <2>2, <3>2
      <4>2. \A j \in 1..Len(log) : j \in 1..Len(log')
        BY <4>1
      <4>3. Last(log') = e /\ Len(log') > Len(log)
        BY <4>1 DEF Last
      <4>4. e # Entry(t, ABORT, <<>>)
        BY <2>8, <4>3 DEF Aborted
      <4>5. CommittedIn(log', t)
        BY <2>2, <2>8, <3>2, <4>4, StaysCommitted
      <4> QED BY <2>7, <4>1, <4>2, <4>5
    <3> QED BY <3>1, <3>2, LogStep
  <2>10. t \in D
    BY <2>8, <2>9 DEF D
  <2>11. \E j \in 1..Len(new) : new[j] = x
    <3> HIDE DEF x
    <3> QED BY <2>5, <2>7, <2>9, <2>10 DEF Keeps
  <2>12. DOMAIN new = 1..Len(new)
    BY <2>5 DEF Keeps
  <2> QED BY <2>11, <2>12 DEF new, old
<1> QED BY FiledInit, FiledNext, <1>1, PTL DEF WalSpec, NothingLost
-----------------------------------------------------------------------------
(* The variables that are not in the file. *)
Typed == /\ up \in BOOLEAN /\ recovered \in BOOLEAN /\ acked \subseteq WalTxns
         /\ committed_txns \in [DOMAIN committed_txns -> BOOLEAN]

(* A map of outcomes stays one. *)
LEMMA OutcomeMaps ==
  /\ \A es : Outcomes(es) \in [DOMAIN Outcomes(es) -> BOOLEAN]
  /\ \A map, t : \A b \in BOOLEAN :
       map \in [DOMAIN map -> BOOLEAN] =>
         WithOutcome(map, t, b) \in [DOMAIN WithOutcome(map, t, b) -> BOOLEAN]
<1>1. \A es, t : Verdict(es, t) \in BOOLEAN
  BY Zenon DEF Verdict
<1>2. \A es : Outcomes(es) \in [DOMAIN Outcomes(es) -> BOOLEAN]
  BY <1>1, OutcomesAre
<1>3. ASSUME NEW map, NEW t, NEW b \in BOOLEAN, map \in [DOMAIN map -> BOOLEAN]
      PROVE  WithOutcome(map, t, b) \in [DOMAIN WithOutcome(map, t, b) -> BOOLEAN]
  BY <1>3 DEF WithOutcome
<1> QED BY <1>2, <1>3

(* WalTypeOK is an invariant. *)
THEOREM TypeCorrect == WalSpec => []WalTypeOK
<1>1. WalInit => Typed
  <2> SUFFICES ASSUME WalInit PROVE Typed
    OBVIOUS
  <2> DEFINE empty == <<>>
  <2>1. committed_txns = empty /\ acked = {} /\ DOMAIN empty = {}
    BY DEF WalInit
  <2>2. up \in BOOLEAN /\ recovered \in BOOLEAN
    BY Zenon DEF WalInit
  <2>3. empty \in [DOMAIN empty -> BOOLEAN]
    OBVIOUS
  <2> HIDE DEF empty
  <2> QED BY <2>1, <2>2, <2>3 DEF Typed
<1>2. Typed /\ [WalNext]_walVars => Typed'
  <2> SUFFICES ASSUME Typed, [WalNext]_walVars PROVE Typed'
    OBVIOUS
  <2>1. ASSUME NEW e, AppendEntry(e) PROVE up' = up /\ recovered' = recovered
    BY <2>1, Zenon DEF AppendEntry
  <2>2. ASSUME NEW t \in WalTxns, NEW b \in BOOLEAN, SetOutcome(t, b)
        PROVE  committed_txns' \in [DOMAIN committed_txns' -> BOOLEAN]
    <3>1. committed_txns' = WithOutcome(committed_txns, t, b)
      BY <2>2, Zenon DEF SetOutcome, WithOutcome
    <3> QED BY <3>1, OutcomeMaps, Zenon DEF Typed
  <2>3. ASSUME NEW t \in WalTxns, NEW p \in Payloads, write_data(t, p) PROVE Typed'
    BY <2>1, <2>3, Zenon DEF write_data, Typed
  <2>4. ASSUME NEW t \in WalTxns, write_commit(t) PROVE Typed'
    <3>1. up' = up /\ recovered' = recovered /\ acked' = acked \cup {t} /\ SetOutcome(t, TRUE)
      BY <2>1, <2>4, Zenon DEF write_commit
    <3>2. committed_txns' \in [DOMAIN committed_txns' -> BOOLEAN]
      BY <2>2, <3>1, Zenon
    <3>3. acked' \subseteq WalTxns
      BY <3>1 DEF Typed
    <3> QED BY <3>1, <3>2, <3>3, Zenon DEF Typed
  <2>5. ASSUME NEW t \in WalTxns, write_abort(t) PROVE Typed'
    <3>1. up' = up /\ recovered' = recovered /\ acked' = acked \ {t} /\ SetOutcome(t, FALSE)
      BY <2>1, <2>5, Zenon DEF write_abort
    <3>2. committed_txns' \in [DOMAIN committed_txns' -> BOOLEAN]
      BY <2>2, <3>1, Zenon
    <3>3. acked' \subseteq WalTxns
      BY <3>1 DEF Typed
    <3> QED BY <3>1, <3>2, <3>3, Zenon DEF Typed
  <2>6. CASE recover
    <3>1. up' = up /\ recovered' = TRUE /\ acked' = acked /\ committed_txns' = Outcomes(Decoded(wal))
      BY <2>6, Zenon DEF recover
    <3> QED BY <3>1, OutcomeMaps, Zenon DEF Typed
  <2>7. ASSUME NEW e, NEW n, CrashInAppend(e, n) PROVE Typed'
    <3> DEFINE empty == <<>>
    <3>1. up' \in BOOLEAN /\ recovered' \in BOOLEAN
      BY <2>7, Zenon DEF CrashInAppend
    <3>2. committed_txns' = empty
      BY <2>7, Zenon DEF CrashInAppend
    <3>3. empty \in [DOMAIN empty -> BOOLEAN]
      OBVIOUS
    <3> HIDE DEF empty
    <3>4. acked' \subseteq WalTxns
      BY <2>7 DEF CrashInAppend, Typed
    <3> QED BY <3>1, <3>2, <3>3, <3>4 DEF Typed
  <2>8. CASE Restart
    <3>1. up' \in BOOLEAN /\ UNCHANGED <<recovered, acked, committed_txns>>
      BY <2>8, Zenon DEF Restart
    <3> QED BY <3>1, Zenon DEF Typed
  <2>9. CASE UNCHANGED walVars
    BY <2>9, Zenon DEF walVars, Typed
  <2> QED BY <2>3, <2>4, <2>5, <2>6, <2>7, <2>8, <2>9 DEF WalNext
<1>3. Filed /\ Typed => WalTypeOK
  BY Zenon DEF Filed, Typed, WalTypeOK, Bytes
<1> QED BY FiledInit, FiledNext, <1>1, <1>2, <1>3, PTL DEF WalSpec

-----------------------------------------------------------------------------
(* The r elements of f behind the first lo. *)
LEMMA Cut ==
  ASSUME NEW f \in Seq(Bytes), NEW lo \in Nat, NEW r \in Nat, lo + r <= Len(f)
  PROVE  LET c == SubSeq(f, lo + 1, lo + r) IN
           c \in Seq(Bytes) /\ Len(c) = r /\ \A i \in 1..r : c[i] = f[lo + i]
<1> DEFINE a == lo + 1
           b == lo + r
           c == SubSeq(f, a, b)
<1>1. /\ a \in Int /\ b \in Int /\ b - a + 1 = r /\ (IF a <= b THEN b - a + 1 ELSE 0) = r
      /\ (\A i \in 1..r : a + i - 1 = lo + i) /\ \A i \in a..b : i \in 1..Len(f)
  OBVIOUS
<1>2. \A i \in a..b : f[i] \in Bytes
  BY <1>1
<1> HIDE DEF a, b
<1>3. /\ c \in Seq(Bytes) /\ Len(c) = (IF a <= b THEN b - a + 1 ELSE 0)
      /\ \A i \in 1..(b - a + 1) : c[i] = f[a + i - 1]
  BY <1>1, <1>2, SubSeqProperties
<1> HIDE DEF c
<1>4. c \in Seq(Bytes) /\ Len(c) = r /\ \A i \in 1..r : c[i] = f[lo + i]
  BY <1>1, <1>3
<1> QED BY <1>4 DEF a, b, c

-----------------------------------------------------------------------------
(* THE READERS OF LOGS WITH A COMMIT FLAG.                                  *)
(* Induction from the last position of a file to the first: S is the set of *)
(* the positions for which the claim holds.                                 *)
LEMMA Backward ==
  ASSUME NEW n \in Nat, NEW S,
         \A p \in 0..n : (\A q \in (p + 1)..n : q \in S) => p \in S
  PROVE  \A p \in 0..n : p \in S
<1> DEFINE V == {m \in 0..n : n - m \notin S}
<1>1. V = {}
  <2> SUFFICES ASSUME V # {} PROVE FALSE
    OBVIOUS
  <2>1. V \in SUBSET Nat
    OBVIOUS
  <2>2. PICK m \in V : \A y \in V : <<y, m>> \notin OpToRel(<, Nat)
    <3> HIDE DEF V
    <3> QED BY <2>1, WFMin, NatLessThanWellFounded
  <2>3. \A y \in V : ~(y < m)
    <3> HIDE DEF V
    <3> QED BY <2>1, <2>2 DEF OpToRel
  <2>4. m \in 0..n /\ n - m \notin S
    OBVIOUS
  <2>5. \A q \in (n - m + 1)..n : n - q \in 0..n /\ n - q < m /\ n - (n - q) = q
    BY <2>4
  <2>6. \A q \in (n - m + 1)..n : q \in S
    BY <2>3, <2>5
  <2>7. n - m \in 0..n
    BY <2>4
  <2> QED BY <2>4, <2>6, <2>7
<1> SUFFICES ASSUME NEW p \in 0..n PROVE p \in S
  OBVIOUS
<1>2. n - p \in 0..n /\ n - (n - p) = p
  OBVIOUS
<1> QED BY <1>1, <1>2

(* What a reader may find in an entry. *)
AnyEntry == [txn_id : Nat, is_committed : Nat, data : Seq(Bytes)]

(* The steps the three loops have in common. *)
TooLong(f, pos) == DataLen(f, pos) > MAX_ENTRY_SIZE
GoesOn(f, pos) == /\ Remaining(f, pos) >= 12
                  /\ TooLong(f, pos) \/ Remaining(f, pos) >= 12 + DataLen(f, pos)
To(f, pos) == IF TooLong(f, pos) THEN pos + 12 ELSE pos + 12 + DataLen(f, pos)

LEMMA WordRead ==
  ASSUME NEW f \in Seq(Bytes), NEW pos \in Nat, pos + 4 <= Len(f)
  PROVE  ReadWord(f, pos) \in Nat
<1>1. Len(f) \in Nat
  OBVIOUS
<1>2. pos + 1 \in 1..Len(f) /\ pos + 2 \in 1..Len(f) /\ pos + 3 \in 1..Len(f) /\ pos + 4 \in 1..Len(f)
  BY <1>1
<1>3. \A i \in 1..Len(f) : f[i] \in Bytes
  OBVIOUS
<1>4. f[pos + 1] \in Nat /\ f[pos + 2] \in Nat /\ f[pos + 3] \in Nat /\ f[pos + 4] \in Nat
  BY <1>2, <1>3, ByteNumbers
<1> DEFINE byte(i) == f[pos + i]
           r == ReadWord(f, pos)
<1>5. r = Value(byte(1), byte(2), byte(3), byte(4))
  BY SMT DEF ReadWord, Value
<1>6. byte(1) \in Nat /\ byte(2) \in Nat /\ byte(3) \in Nat /\ byte(4) \in Nat
  BY <1>4
<1> HIDE DEF byte, r
<1>7. r \in Nat
  BY <1>5, <1>6, ValueIsNat
<1> QED BY <1>7 DEF r

LEMMA StepForward ==
  ASSUME NEW f \in Seq(Bytes), NEW pos \in 0..Len(f), GoesOn(f, pos)
  PROVE  /\ DataLen(f, pos) \in Nat /\ To(f, pos) \in (pos + 1)..Len(f)
         /\ To(f, pos) \in 0..Len(f)
         /\ ~TooLong(f, pos) => EntryAt(f, pos) \in AnyEntry
<1> DEFINE L == Len(f)
           r == DataLen(f, pos)
<1>1. L \in Nat /\ pos \in Nat /\ L - pos >= 12
  BY DEF GoesOn, Remaining
<1>2. /\ pos + 4 \in Nat /\ pos + 8 \in Nat /\ pos + 4 <= Len(f) /\ pos + 4 + 4 <= Len(f) /\ pos + 8 + 4 <= Len(f)
  BY <1>1
<1>3. ReadWord(f, pos) \in Nat /\ ReadWord(f, pos + 4) \in Nat /\ r \in Nat
  BY <1>1, <1>2, WordRead DEF DataLen
<1>4. TooLong(f, pos) \/ L - pos >= 12 + r
  BY DEF GoesOn, Remaining
<1>5. To(f, pos) \in (pos + 1)..L /\ To(f, pos) \in 0..L
  <2>1. CASE TooLong(f, pos)
    BY <1>1, <2>1 DEF To
  <2>2. CASE ~TooLong(f, pos)
    <3>1. To(f, pos) = pos + 12 + r
      BY <2>2 DEF To
    <3> HIDE DEF r
    <3> QED BY <1>1, <1>3, <1>4, <2>2, <3>1
  <2> QED BY <2>1, <2>2
<1>6. ASSUME ~TooLong(f, pos) PROVE SubSeq(f, pos + 13, pos + 12 + r) \in Seq(Bytes)
  <2> DEFINE lo == pos + 13
             hi == pos + 12 + r
  <2>1. lo \in Int /\ hi \in Int /\ \A i \in lo..hi : i \in 1..L
    <3> HIDE DEF r
    <3> QED BY <1>1, <1>3, <1>4, <1>6
  <2>2. \A i \in lo..hi : f[i] \in Bytes
    BY <2>1
  <2> HIDE DEF lo, hi
  <2>3. SubSeq(f, lo, hi) \in Seq(Bytes)
    BY <2>1, <2>2, SubSeqProperties
  <2> QED BY <2>3 DEF lo, hi
<1>7. ~TooLong(f, pos) => EntryAt(f, pos) \in AnyEntry
  BY <1>3, <1>6 DEF EntryAt, LogEntry, AnyEntry
<1> QED BY <1>3, <1>5, <1>7

(* A loop of the three, as a function of the position: rd.base is its       *)
(* result when that many bytes are left and it stops, rd.over what a bad    *)
(* header does to the result behind it, rd.good what an entry does.         *)
Reads(rd, V) == /\ rd.base \in [Nat -> V] /\ rd.over \in [V -> V]
                /\ rd.good \in [AnyEntry \X V -> V]

Body(g, f, rd, pos) ==
  IF GoesOn(f, pos)
    THEN IF TooLong(f, pos) THEN rd.over[g[To(f, pos)]] ELSE rd.good[<<EntryAt(f, pos), g[To(f, pos)]>>]
    ELSE rd.base[Len(f) - pos]

Loop(g, f, rd, V) == /\ g \in [0..Len(f) -> V]
                     /\ \A pos \in 0..Len(f) : g[pos] = Body(g, f, rd, pos)

(* Its result, from the start of the file. *)
Run(f, rd, V) == (CHOOSE g : Loop(g, f, rd, V))[0]

LEMMA BodyTyped ==
  ASSUME NEW rd, NEW V, Reads(rd, V), NEW f \in Seq(Bytes), NEW pos \in 0..Len(f), NEW g,
         GoesOn(f, pos) => g[To(f, pos)] \in V
  PROVE  Body(g, f, rd, pos) \in V
<1>1. CASE GoesOn(f, pos)
  <2>1. ~TooLong(f, pos) => EntryAt(f, pos) \in AnyEntry
    BY <1>1, StepForward
  <2>2. g[To(f, pos)] \in V
    BY <1>1
  <2> QED BY <1>1, <2>1, <2>2 DEF Body, Reads
<1>2. CASE ~GoesOn(f, pos)
  <2>1. Len(f) - pos \in Nat
    OBVIOUS
  <2> QED BY <1>2, <2>1 DEF Body, Reads
<1> QED BY <1>1, <1>2

(* The loop can be run on every file. *)
LEMMA LoopExists ==
  ASSUME NEW rd, NEW V, Reads(rd, V), NEW f \in Seq(Bytes)
  PROVE  \E g : Loop(g, f, rd, V)
<1> DEFINE n == Len(f)
           Part(g, p) == /\ g \in [p..n -> V]
                         /\ \A pos \in p..n : g[pos] = Body(g, f, rd, pos)
           S == {p \in 0..n : \E g : Part(g, p)}
<1>1. n \in Nat
  OBVIOUS
<1>2. ASSUME NEW p \in 0..n, \A q \in (p + 1)..n : q \in S PROVE p \in S
  <2>1. PICK g : g \in [(p + 1)..n -> V] /\ \A pos \in (p + 1)..n : g[pos] = Body(g, f, rd, pos)
    <3>1. CASE p = n
      <4> DEFINE none == [x \in {} |-> x]
      <4>1. (p + 1)..n = {}
        BY <1>1, <3>1
      <4>2. none \in [(p + 1)..n -> V] /\ \A pos \in (p + 1)..n : none[pos] = Body(none, f, rd, pos)
        BY <4>1
      <4> HIDE DEF none
      <4> QED BY <4>2
    <3>2. CASE p # n
      <4>1. p + 1 \in (p + 1)..n
        BY <1>1, <3>2
      <4>2. p + 1 \in S
        BY <1>2, <4>1
      <4> QED BY <4>2
    <3> QED BY <3>1, <3>2
  <2> DEFINE h == [pos \in p..n |-> IF pos = p THEN Body(g, f, rd, p) ELSE g[pos]]
  <2>2. \A pos \in p..n : /\ pos \in 0..n
                          /\ GoesOn(f, pos) => To(f, pos) \in (p + 1)..n /\ To(f, pos) \in p..n /\ To(f, pos) # p
    <3> SUFFICES ASSUME NEW pos \in p..n
                 PROVE  /\ pos \in 0..n
                        /\ GoesOn(f, pos) => To(f, pos) \in (p + 1)..n /\ To(f, pos) \in p..n /\ To(f, pos) # p
      OBVIOUS
    <3>1. pos \in 0..n
      BY <1>1
    <3>2. GoesOn(f, pos) => To(f, pos) \in (pos + 1)..n
      BY <3>1, StepForward
    <3> DEFINE x == To(f, pos)
    <3> HIDE DEF x
    <3>3. x \in (pos + 1)..n => x \in (p + 1)..n /\ x \in p..n /\ x # p
      BY <1>1
    <3> QED BY <3>1, <3>2, <3>3 DEF x
  <2>3. \A pos \in p..n : pos # p => pos \in (p + 1)..n
    BY <1>1
  <2>4. p \in p..n
    BY <1>1
  <2>5. Body(g, f, rd, p) \in V
    BY <2>1, <2>2, <2>4, BodyTyped
  <2>6. \A pos \in p..n : h[pos] = IF pos = p THEN Body(g, f, rd, p) ELSE g[pos]
    OBVIOUS
  <2>7. h \in [p..n -> V]
    BY <2>1, <2>3, <2>5
  <2> HIDE DEF h
  <2>8. ASSUME NEW pos \in p..n PROVE h[pos] = Body(h, f, rd, pos)
    <3>1. GoesOn(f, pos) => h[To(f, pos)] = g[To(f, pos)]
      BY <2>2, <2>6
    <3>2. Body(h, f, rd, pos) = Body(g, f, rd, pos)
      BY <3>1 DEF Body
    <3> QED BY <2>1, <2>3, <2>6, <3>2
  <2>9. Part(h, p)
    BY <2>7, <2>8
  <2> HIDE DEF Part
  <2> QED BY <2>9
<1>3. \A p \in 0..n : p \in S
  <2> HIDE DEF S, n
  <2> QED BY <1>1, <1>2, Backward
<1>4. 0 \in S
  BY <1>1, <1>3
<1>5. PICK g : Part(g, 0)
  BY <1>4
<1> QED BY <1>5 DEF Loop

(* What stands behind other bytes is read as it is read on its own. *)
LEMMA ReadBehind ==
  ASSUME NEW pre \in Seq(Bytes), NEW f \in Seq(Bytes), NEW pos \in 0..Len(f)
  PROVE  LET all == pre \o f
             at == Len(pre) + pos
         IN  /\ Len(all) - at = Len(f) - pos /\ at \in 0..Len(all)
             /\ GoesOn(all, at) <=> GoesOn(f, pos)
             /\ GoesOn(f, pos) => /\ TooLong(all, at) <=> TooLong(f, pos)
                                  /\ To(all, at) = Len(pre) + To(f, pos)
                                  /\ ~TooLong(f, pos) => EntryAt(all, at) = EntryAt(f, pos)
<1> DEFINE all == pre \o f
           k == Len(pre)
           at == k + pos
           n == Len(f)
<1>1. k \in Nat /\ n \in Nat /\ pos \in Nat
  OBVIOUS
<1>2. Joined(all, pre, f)
  BY Concat
<1> HIDE DEF all
<1>3. Len(all) = k + n /\ \A i \in 1..n : all[k + i] = f[i]
  BY <1>2 DEF Joined
<1> HIDE DEF k, n
<1>4. Len(all) - at = n - pos /\ at \in 0..Len(all) /\ Remaining(all, at) = n - pos /\ Remaining(f, pos) = n - pos
  BY <1>1, <1>3 DEF Remaining, n
<1>5. ASSUME NEW i \in Nat, pos + i + 4 <= n PROVE ReadWord(all, at + i) = ReadWord(f, pos + i)
  <2>1. ASSUME NEW j \in 1..4 PROVE all[at + i + j] = f[pos + i + j]
    <3>1. pos + i + j \in 1..n /\ at + i + j = k + (pos + i + j)
      BY <1>1, <1>5
    <3> HIDE DEF at
    <3> QED BY <1>3, <3>1
  <2>2. 1 \in 1..4 /\ 2 \in 1..4 /\ 3 \in 1..4 /\ 4 \in 1..4
    OBVIOUS
  <2>3. /\ all[at + i + 1] = f[pos + i + 1] /\ all[at + i + 2] = f[pos + i + 2]
        /\ all[at + i + 3] = f[pos + i + 3] /\ all[at + i + 4] = f[pos + i + 4]
    BY <2>1, <2>2
  <2> HIDE DEF at
  <2> QED BY <2>3 DEF ReadWord
<1>6. ASSUME n - pos >= 12
      PROVE  /\ DataLen(all, at) = DataLen(f, pos) /\ ReadWord(all, at) = ReadWord(f, pos)
             /\ ReadWord(all, at + 4) = ReadWord(f, pos + 4)
  <2>1. pos + 8 + 4 <= n /\ pos + 4 + 4 <= n /\ pos + 0 + 4 <= n /\ at + 0 = at /\ pos + 0 = pos
    BY <1>1, <1>6
  <2>2. ReadWord(all, at + 0) = ReadWord(f, pos + 0) /\ ReadWord(all, at + 4) = ReadWord(f, pos + 4)
        /\ ReadWord(all, at + 8) = ReadWord(f, pos + 8)
    BY <1>5, <2>1
  <2> QED BY <2>1, <2>2 DEF DataLen
<1>7. n - pos >= 12 => (TooLong(all, at) <=> TooLong(f, pos))
  BY <1>6 DEF TooLong
<1>8. GoesOn(all, at) <=> GoesOn(f, pos)
  BY <1>4, <1>6, <1>7 DEF GoesOn
<1>9. ASSUME GoesOn(f, pos)
      PROVE  To(all, at) = k + To(f, pos) /\ (~TooLong(f, pos) => EntryAt(all, at) = EntryAt(f, pos))
  <2>1. n - pos >= 12
    BY <1>4, <1>9 DEF GoesOn
  <2>2. DataLen(f, pos) \in Nat /\ (TooLong(f, pos) \/ n - pos >= 12 + DataLen(f, pos))
    BY <1>4, <1>9, StepForward DEF GoesOn
  <2> DEFINE r == DataLen(f, pos)
  <2>3. DataLen(all, at) = r /\ r \in Nat
    BY <1>6, <2>1, <2>2
  <2> HIDE DEF r
  <2>4. at + 12 = k + (pos + 12) /\ at + 12 + r = k + (pos + 12 + r)
    BY <1>1, <2>3
  <2>5. To(all, at) = k + To(f, pos)
    BY <1>7, <2>1, <2>3, <2>4 DEF To, r
  <2>6. ASSUME n - pos >= 12 + r PROVE SubSeq(all, at + 13, at + 12 + r) = SubSeq(f, pos + 13, pos + 12 + r)
    <3> DEFINE x == at + 12
               y == pos + 12
               a == SubSeq(all, x + 1, x + r)
               b == SubSeq(f, y + 1, y + r)
    <3>1. /\ x \in Nat /\ at + 13 = x + 1 /\ at + 12 + r = x + r /\ x + r <= Len(all)
          /\ y \in Nat /\ pos + 13 = y + 1 /\ pos + 12 + r = y + r /\ y + r <= n
          /\ \A i \in 1..r : x + i = k + (y + i) /\ y + i \in 1..n
      BY <1>1, <1>3, <2>3, <2>6
    <3>2. all \in Seq(Bytes) /\ Len(f) = n
      BY <1>2 DEF Joined, n
    <3> HIDE DEF x, y, at
    <3>3. a \in Seq(Bytes) /\ Len(a) = r /\ \A i \in 1..r : a[i] = all[x + i]
      BY <2>3, <3>1, <3>2, Cut
    <3>4. b \in Seq(Bytes) /\ Len(b) = r /\ \A i \in 1..r : b[i] = f[y + i]
      <4>1. y \in Nat /\ r \in Nat /\ y + r <= Len(f)
        BY <2>3, <3>1, <3>2
      <4> QED BY ONLY f \in Seq(Bytes), <4>1, Cut DEF b
    <3> HIDE DEF a, b
    <3>5. ASSUME NEW i \in 1..r PROVE a[i] = b[i]
      <4>1. a[i] = all[x + i] /\ b[i] = f[y + i] /\ x + i = k + (y + i) /\ y + i \in 1..n
        BY <3>1, <3>3, <3>4
      <4>2. all[k + (y + i)] = f[y + i]
        BY <1>3, <4>1
      <4> QED BY <4>1, <4>2
    <3>6. a = b
      BY <3>3, <3>4, <3>5, SeqEqual
    <3> QED BY <3>1, <3>6 DEF a, b
  <2>7. ~TooLong(f, pos) => SubSeq(all, at + 13, at + 12 + r) = SubSeq(f, pos + 13, pos + 12 + r)
    BY <2>2, <2>6 DEF r
  <2> QED BY <1>6, <2>1, <2>3, <2>5, <2>7 DEF EntryAt, r
<1> QED BY <1>4, <1>7, <1>8, <1>9 DEF all, k, n, GoesOn
(* A loop gives the same results behind other bytes. *)
Follows(g, pre, h, f) == \A pos \in 0..Len(f) : g[Len(pre) + pos] = h[pos]

LEMMA LoopBehind ==
  ASSUME NEW rd, NEW V, NEW pre \in Seq(Bytes), NEW f \in Seq(Bytes),
         NEW all, all = pre \o f, NEW g, Loop(g, all, rd, V), NEW h, Loop(h, f, rd, V)
  PROVE  Follows(g, pre, h, f)
<1> DEFINE k == Len(pre)
           n == Len(f)
           S == {pos \in 0..n : g[k + pos] = h[pos]}
<1>1. n \in Nat
  OBVIOUS
<1>2. ASSUME NEW pos \in 0..n, \A q \in (pos + 1)..n : q \in S PROVE pos \in S
  <2>1. /\ Len(all) - (k + pos) = n - pos /\ k + pos \in 0..Len(all)
        /\ GoesOn(all, k + pos) <=> GoesOn(f, pos)
        /\ GoesOn(f, pos) => /\ TooLong(all, k + pos) <=> TooLong(f, pos)
                             /\ To(all, k + pos) = k + To(f, pos)
                             /\ ~TooLong(f, pos) => EntryAt(all, k + pos) = EntryAt(f, pos)
    BY ReadBehind
  <2>2. g[k + pos] = Body(g, all, rd, k + pos) /\ h[pos] = Body(h, f, rd, pos)
    BY <2>1 DEF Loop
  <2>3. GoesOn(f, pos) => g[k + To(f, pos)] = h[To(f, pos)]
    BY <1>2, StepForward
  <2> HIDE DEF k, n
  <2>4. Body(g, all, rd, k + pos) = Body(h, f, rd, pos)
    <3>1. CASE GoesOn(f, pos)
      BY <2>1, <2>3, <3>1 DEF Body
    <3>2. CASE ~GoesOn(f, pos)
      BY <2>1, <3>2 DEF Body, n
    <3> QED BY <3>1, <3>2
  <2> QED BY <2>2, <2>4
<1>3. \A pos \in 0..n : pos \in S
  <2> HIDE DEF S, n
  <2> QED BY <1>1, <1>2, Backward
<1> QED BY <1>3 DEF Follows

LEMMA RunIsLoop ==
  ASSUME NEW rd, NEW V, Reads(rd, V), NEW f \in Seq(Bytes)
  PROVE  \E g : Loop(g, f, rd, V) /\ Run(f, rd, V) = g[0]
<1> DEFINE g == CHOOSE x : Loop(x, f, rd, V)
<1>1. Loop(g, f, rd, V)
  BY LoopExists
<1>2. Run(f, rd, V) = g[0]
  BY DEF Run
<1> QED BY <1>1, <1>2

LEMMA RunTyped ==
  ASSUME NEW rd, NEW V, Reads(rd, V), NEW f \in Seq(Bytes)
  PROVE  Run(f, rd, V) \in V
<1>1. PICK g : Loop(g, f, rd, V) /\ Run(f, rd, V) = g[0]
  BY RunIsLoop
<1>2. 0 \in 0..Len(f)
  OBVIOUS
<1> QED BY <1>1, <1>2 DEF Loop

(* A loop that stops at once. *)
LEMMA RunStops ==
  ASSUME NEW rd, NEW V, Reads(rd, V), NEW f \in Seq(Bytes), ~GoesOn(f, 0)
  PROVE  Run(f, rd, V) = rd.base[Len(f)]
<1>1. PICK g : Loop(g, f, rd, V) /\ Run(f, rd, V) = g[0]
  BY RunIsLoop
<1>2. 0 \in 0..Len(f) /\ Len(f) - 0 = Len(f)
  OBVIOUS
<1> QED BY <1>1, <1>2 DEF Loop, Body

(* A loop whose first step passes the first bytes. *)
LEMMA RunPasses ==
  ASSUME NEW rd, NEW V, Reads(rd, V), NEW pre \in Seq(Bytes), NEW f \in Seq(Bytes),
         GoesOn(pre \o f, 0), To(pre \o f, 0) = Len(pre)
  PROVE  Run(pre \o f, rd, V) = IF TooLong(pre \o f, 0) THEN rd.over[Run(f, rd, V)]
                                  ELSE rd.good[<<EntryAt(pre \o f, 0), Run(f, rd, V)>>]
<1> DEFINE all == pre \o f
<1>1. all \in Seq(Bytes)
  OBVIOUS
<1>2. PICK g : Loop(g, all, rd, V) /\ Run(all, rd, V) = g[0]
  BY <1>1, RunIsLoop
<1>3. PICK h : Loop(h, f, rd, V) /\ Run(f, rd, V) = h[0]
  BY RunIsLoop
<1>4. 0 \in 0..Len(all) /\ 0 \in 0..Len(f) /\ Len(pre) + 0 = Len(pre)
  BY <1>1
<1>5. g[Len(pre)] = h[0]
  <2>1. Loop(g, all, rd, V) /\ Loop(h, f, rd, V) /\ all = pre \o f
    BY <1>2, <1>3
  <2> HIDE DEF all
  <2>2. Follows(g, pre, h, f)
    BY <2>1, LoopBehind
  <2>3. g[Len(pre) + 0] = h[0]
    BY <1>4, <2>2 DEF Follows
  <2> QED BY <1>4, <2>3
<1>6. g[0] = Body(g, all, rd, 0)
  BY <1>2, <1>4 DEF Loop
<1> QED BY <1>2, <1>3, <1>5, <1>6 DEF Body

-----------------------------------------------------------------------------
(* A header at the start of a file is read back. *)
Begins(f, t, flag, len) == \A j \in 1..12 : f[j] = Header(t, flag, len)[j]
Found(f, t, flag, len) == ReadWord(f, 0) = t /\ ReadWord(f, 0 + 4) = flag /\ ReadWord(f, 0 + 8) = len

LEMMA HeaderFound ==
  ASSUME NEW t \in Words, NEW flag \in Words, NEW len \in Words, NEW f, Begins(f, t, flag, len)
  PROVE  Found(f, t, flag, len)
<1> DEFINE b == Header(t, flag, len)
<1>1. Holds(b, t, flag, len)
  BY HeaderShape
<1> HIDE DEF b
<1>2. /\ f[1] = b[1] /\ f[2] = b[2] /\ f[3] = b[3] /\ f[4] = b[4]
      /\ f[5] = b[5] /\ f[6] = b[6] /\ f[7] = b[7] /\ f[8] = b[8]
      /\ f[9] = b[9] /\ f[10] = b[10] /\ f[11] = b[11] /\ f[12] = b[12]
  BY DEF b, Begins
<1>3. /\ ReadWord(f, 0) = Value(f[1], f[2], f[3], f[4])
      /\ ReadWord(f, 0 + 4) = Value(f[5], f[6], f[7], f[8])
      /\ ReadWord(f, 0 + 8) = Value(f[9], f[10], f[11], f[12])
  BY SMT DEF ReadWord, Value
<1> QED BY ONLY <1>1, <1>2, <1>3 DEF Found, Holds

(* What is known of the entries written whole. *)
LEMMA LogEntryType ==
  ASSUME NEW e \in LogEntries
  PROVE  /\ e = LogEntry(e.txn_id, e.is_committed, e.data)
         /\ e.txn_id \in Words /\ e.is_committed \in Words /\ e.data \in Seq(Bytes)
         /\ Len(e.data) \in Words /\ Len(e.data) \in Nat /\ Len(e.data) <= MAX_ENTRY_SIZE
         /\ e \in AnyEntry
<1>1. PICK t \in LogTxns, flag \in {0, 1}, d \in LogData : e = LogEntry(t, flag, d)
  BY DEF LogEntries
<1>2. t \in Words /\ flag \in Words
  BY SMT, LogAssumption DEF Words, MaxInt, MaxWord
<1>3. d \in Seq(Bytes) /\ Len(d) <= MAX_ENTRY_SIZE /\ Len(d) \in Nat
  BY SMT, LogAssumption, LenProperties DEF Bytes
<1>4. MAX_ENTRY_SIZE \in Nat /\ MAX_ENTRY_SIZE <= MaxWord
  BY SMT, LogAssumption
<1>5. Len(d) \in Words
  <2> DEFINE n == Len(d)
  <2>1. n \in Nat /\ n <= MAX_ENTRY_SIZE
    BY <1>3
  <2> HIDE DEF n
  <2>2. n \in Words
    BY SMT, <1>4, <2>1 DEF Words, MaxInt, MaxWord
  <2> QED BY <2>2 DEF n
<1>6. t \in Nat /\ flag \in Nat
  BY <1>2, WordNumbers
<1> QED BY <1>1, <1>2, <1>3, <1>5, <1>6 DEF LogEntry, AnyEntry

(* The bytes of an entry. *)
LEMMA EncodedShape ==
  ASSUME NEW e \in LogEntries
  PROVE  LET b == Encoded(e) IN
           /\ b \in Seq(Bytes) /\ Len(b) = 12 + Len(e.data)
           /\ \A j \in 1..12 : b[j] = Header(e.txn_id, e.is_committed, Len(e.data))[j]
           /\ \A j \in 1..Len(e.data) : b[12 + j] = e.data[j]
<1> DEFINE h == Header(e.txn_id, e.is_committed, Len(e.data))
           b == h \o e.data
<1>1. h \in Seq(Bytes) /\ Len(h) = 12 /\ e.data \in Seq(Bytes)
  BY LogEntryType, HeaderShape
<1>2. Encoded(e) = b
  BY DEF Encoded
<1> HIDE DEF h
<1>3. Joined(b, h, e.data)
  BY <1>1, Concat
<1> HIDE DEF b
<1>4. /\ b \in Seq(Bytes) /\ Len(b) = 12 + Len(e.data)
      /\ (\A j \in 1..12 : b[j] = h[j]) /\ \A j \in 1..Len(e.data) : b[12 + j] = e.data[j]
  BY <1>1, <1>3 DEF Joined
<1> QED BY <1>2, <1>4 DEF h
(* Every loop takes a whole entry for what it is. *)
LEMMA EntryFirst ==
  ASSUME NEW e \in LogEntries, NEW f \in Seq(Bytes)
  PROVE  LET all == Encoded(e) \o f IN
           /\ GoesOn(all, 0) /\ ~TooLong(all, 0) /\ To(all, 0) = Len(Encoded(e))
           /\ EntryAt(all, 0) = e
<1> DEFINE pre == Encoded(e)
           all == pre \o f
           d == e.data
           r == Len(d)
<1>1. /\ pre \in Seq(Bytes) /\ Len(pre) = 12 + r
      /\ (\A j \in 1..12 : pre[j] = Header(e.txn_id, e.is_committed, r)[j])
      /\ \A j \in 1..r : pre[12 + j] = d[j]
  BY EncodedShape
<1>2. /\ e = LogEntry(e.txn_id, e.is_committed, d) /\ e.txn_id \in Words /\ e.is_committed \in Words
      /\ d \in Seq(Bytes) /\ r \in Words /\ r \in Nat /\ r <= MAX_ENTRY_SIZE
  BY LogEntryType
<1>3. MAX_ENTRY_SIZE \in Nat /\ Len(f) \in Nat
  BY SMT, LogAssumption
<1> HIDE DEF pre
<1>4. Joined(all, pre, f)
  BY <1>1, Concat
<1> HIDE DEF all, r
<1>5. all \in Seq(Bytes) /\ Len(all) = 12 + r + Len(f) /\ \A j \in 1..(12 + r) : all[j] = pre[j]
  BY <1>1, <1>2, <1>4 DEF Joined
<1>6. ReadWord(all, 0) = e.txn_id /\ ReadWord(all, 0 + 4) = e.is_committed /\ ReadWord(all, 0 + 8) = r
  <2>1. \A j \in 1..12 : j \in 1..(12 + r)
    BY <1>2
  <2>2. Begins(all, e.txn_id, e.is_committed, r)
    BY <1>1, <1>5, <2>1 DEF Begins
  <2>3. Found(all, e.txn_id, e.is_committed, r)
    BY <1>2, <2>2, HeaderFound
  <2> QED BY <2>3 DEF Found
<1>7. DataLen(all, 0) = r /\ Remaining(all, 0) = 12 + r + Len(f)
  BY <1>2, <1>3, <1>5, <1>6 DEF DataLen, Remaining
<1>8. ~TooLong(all, 0)
  BY <1>2, <1>3, <1>7 DEF TooLong
<1>9. GoesOn(all, 0)
  BY <1>2, <1>3, <1>7 DEF GoesOn
<1>10. To(all, 0) = Len(pre)
  BY <1>1, <1>2, <1>7, <1>8 DEF To
<1>11. SubSeq(all, 12 + 1, 12 + r) = d
  <2> DEFINE c == SubSeq(all, 12 + 1, 12 + r)
  <2>1. 12 \in Nat /\ 12 + r <= Len(all)
    BY <1>2, <1>3, <1>5
  <2>2. c \in Seq(Bytes) /\ Len(c) = r /\ \A i \in 1..r : c[i] = all[12 + i]
    BY <1>2, <1>5, <2>1, Cut
  <2> HIDE DEF c
  <2>3. \A i \in 1..r : 12 + i \in 1..(12 + r)
    BY <1>2
  <2>4. \A i \in 1..r : c[i] = d[i]
    BY <1>1, <1>5, <2>2, <2>3
  <2>5. c = d
    BY <1>2, <2>2, <2>4, SeqEqual DEF r
  <2> QED BY <2>5 DEF c
<1>12. 0 + 13 = 12 + 1 /\ 0 + 12 + r = 12 + r
  BY <1>2
<1>13. EntryAt(all, 0) = e
  BY <1>2, <1>6, <1>7, <1>11, <1>12 DEF EntryAt
<1> QED BY <1>8, <1>9, <1>10, <1>13 DEF all, pre

(* Every loop steps over a header with a bad length. *)
LEMMA BadFirst ==
  ASSUME NEW t \in LogTxns, NEW flag \in {0, 1}, NEW len \in BadLengths, NEW f \in Seq(Bytes)
  PROVE  LET pre == Header(t, flag, len)
             all == pre \o f IN
           pre \in Seq(Bytes) /\ GoesOn(all, 0) /\ TooLong(all, 0) /\ To(all, 0) = Len(pre)
<1> DEFINE pre == Header(t, flag, len)
           all == pre \o f
<1>1. t \in Words /\ flag \in Words /\ len \in Words /\ len \in Nat /\ len > MAX_ENTRY_SIZE
  BY SMT, LogAssumption DEF Words, MaxInt, MaxWord
<1>2. pre \in Seq(Bytes) /\ Len(pre) = 12
  BY <1>1, HeaderShape
<1> HIDE DEF pre
<1>3. Joined(all, pre, f)
  BY <1>2, Concat
<1> HIDE DEF all
<1>4. all \in Seq(Bytes) /\ Len(all) = 12 + Len(f) /\ \A j \in 1..12 : all[j] = pre[j]
  BY <1>2, <1>3 DEF Joined
<1>5. ReadWord(all, 0 + 8) = len
  <2>1. Begins(all, t, flag, len)
    BY <1>4 DEF pre, Begins
  <2>2. Found(all, t, flag, len)
    BY <1>1, <2>1, HeaderFound
  <2> QED BY <2>2 DEF Found
<1>6. DataLen(all, 0) = len /\ Remaining(all, 0) = 12 + Len(f) /\ Len(f) \in Nat
  BY <1>4, <1>5 DEF DataLen, Remaining
<1>7. TooLong(all, 0)
  BY <1>1, <1>6 DEF TooLong
<1>8. GoesOn(all, 0)
  BY <1>6, <1>7 DEF GoesOn
<1>9. To(all, 0) = Len(pre)
  BY <1>2, <1>7 DEF To
<1> QED BY <1>2, <1>7, <1>8, <1>9 DEF all, pre

(* Every loop stops at a piece of an entry. *)
LEMMA PieceStops ==
  ASSUME NEW e \in LogEntries, NEW n \in 1..(Len(Encoded(e)) - 1)
  PROVE  LET f == SubSeq(Encoded(e), 1, n) IN f \in Seq(Bytes) /\ Len(f) = n /\ ~GoesOn(f, 0)
<1> DEFINE b == Encoded(e)
           f == SubSeq(b, 0 + 1, 0 + n)
           r == Len(e.data)
<1>1. /\ b \in Seq(Bytes) /\ Len(b) = 12 + r
      /\ \A j \in 1..12 : b[j] = Header(e.txn_id, e.is_committed, r)[j]
  BY EncodedShape
<1>2. /\ e.txn_id \in Words /\ e.is_committed \in Words
      /\ r \in Words /\ r \in Nat /\ r <= MAX_ENTRY_SIZE
  BY LogEntryType
<1>3. MAX_ENTRY_SIZE \in Nat
  BY SMT, LogAssumption
<1> HIDE DEF r
<1>4. n \in Nat /\ 0 \in Nat /\ 0 + n <= Len(b) /\ n < 12 + r /\ 0 + 1 = 1 /\ 0 + n = n /\ \A i \in 1..n : 0 + i = i
  BY <1>1, <1>2
<1> HIDE DEF b
<1>5. f \in Seq(Bytes) /\ Len(f) = n /\ \A i \in 1..n : f[i] = b[0 + i]
  BY <1>1, <1>4, Cut
<1> HIDE DEF f
<1>6. CASE n < 12
  <2>1. ~(Remaining(f, 0) >= 12)
    BY <1>4, <1>5, <1>6 DEF Remaining
  <2>2. ~GoesOn(f, 0)
    BY <2>1 DEF GoesOn
  <2> QED BY <1>4, <1>5, <2>2 DEF f, b
<1>7. CASE ~(n < 12)
  <2>1. \A j \in 1..12 : j \in 1..n
    BY <1>4, <1>7
  <2>2. Begins(f, e.txn_id, e.is_committed, r)
    BY <1>1, <1>4, <1>5, <2>1 DEF Begins
  <2>3. DataLen(f, 0) = r
    <3>1. Found(f, e.txn_id, e.is_committed, r)
      BY <1>2, <2>2, HeaderFound
    <3> QED BY <3>1 DEF DataLen, Found
  <2>4. ~TooLong(f, 0) /\ ~(Remaining(f, 0) >= 12 + DataLen(f, 0))
    BY <1>2, <1>3, <1>4, <1>5, <2>3 DEF TooLong, Remaining
  <2>5. ~GoesOn(f, 0)
    BY <2>4 DEF GoesOn
  <2> QED BY <1>4, <1>5, <2>5 DEF f, b
<1> QED BY <1>6, <1>7

(* So an entry, a bad header and a piece have the same effect on each loop. *)
LEMMA RunSteps ==
  ASSUME NEW rd, NEW V, Reads(rd, V)
  PROVE  /\ \A e \in LogEntries, f \in Seq(Bytes) :
              Run(Encoded(e) \o f, rd, V) = rd.good[<<e, Run(f, rd, V)>>]
         /\ \A t \in LogTxns, flag \in {0, 1}, len \in BadLengths, f \in Seq(Bytes) :
              Run(Header(t, flag, len) \o f, rd, V) = rd.over[Run(f, rd, V)]
         /\ \A e \in LogEntries : \A n \in 1..(Len(Encoded(e)) - 1) :
              Run(SubSeq(Encoded(e), 1, n), rd, V) = rd.base[n]
<1>1. ASSUME NEW e \in LogEntries, NEW f \in Seq(Bytes)
      PROVE  Run(Encoded(e) \o f, rd, V) = rd.good[<<e, Run(f, rd, V)>>]
  <2> DEFINE pre == Encoded(e)
  <2>1. pre \in Seq(Bytes)
    BY EncodedShape
  <2>2. /\ GoesOn(pre \o f, 0) /\ ~TooLong(pre \o f, 0) /\ To(pre \o f, 0) = Len(pre)
        /\ EntryAt(pre \o f, 0) = e
    BY EntryFirst
  <2> HIDE DEF pre
  <2>3. Run(pre \o f, rd, V) = IF TooLong(pre \o f, 0) THEN rd.over[Run(f, rd, V)]
                                 ELSE rd.good[<<EntryAt(pre \o f, 0), Run(f, rd, V)>>]
    BY <2>1, <2>2, RunPasses
  <2> QED BY <2>2, <2>3 DEF pre
<1>2. ASSUME NEW t \in LogTxns, NEW flag \in {0, 1}, NEW len \in BadLengths, NEW f \in Seq(Bytes)
      PROVE  Run(Header(t, flag, len) \o f, rd, V) = rd.over[Run(f, rd, V)]
  <2> DEFINE pre == Header(t, flag, len)
  <2>1. pre \in Seq(Bytes) /\ GoesOn(pre \o f, 0) /\ TooLong(pre \o f, 0) /\ To(pre \o f, 0) = Len(pre)
    BY BadFirst
  <2> HIDE DEF pre
  <2>2. Run(pre \o f, rd, V) = IF TooLong(pre \o f, 0) THEN rd.over[Run(f, rd, V)]
                                 ELSE rd.good[<<EntryAt(pre \o f, 0), Run(f, rd, V)>>]
    BY <2>1, RunPasses
  <2> QED BY <2>1, <2>2 DEF pre
<1>3. ASSUME NEW e \in LogEntries, NEW n \in 1..(Len(Encoded(e)) - 1)
      PROVE  Run(SubSeq(Encoded(e), 1, n), rd, V) = rd.base[n]
  <2> DEFINE f == SubSeq(Encoded(e), 1, n)
  <2>1. f \in Seq(Bytes) /\ Len(f) = n /\ ~GoesOn(f, 0)
    BY PieceStops
  <2> HIDE DEF f
  <2>2. Run(f, rd, V) = rd.base[Len(f)]
    BY <2>1, RunStops
  <2> QED BY <2>1, <2>2 DEF f
<1> QED BY <1>1, <1>2, <1>3

LEMMA RunEmpty ==
  ASSUME NEW rd, NEW V, Reads(rd, V), NEW f \in Seq(Bytes), Len(f) = 0
  PROVE  Run(f, rd, V) = rd.base[0]
<1>1. ~GoesOn(f, 0)
  BY DEF GoesOn, Remaining
<1> QED BY <1>1, RunStops
-----------------------------------------------------------------------------
(* parse_wal_hardened is such a loop. *)
Parsed == [entries : Seq(AnyEntry), skipped : Nat]
Parsing == [base |-> [r \in Nat |-> [entries |-> <<>>, skipped |-> IF r < 4 THEN 0 ELSE 1]],
            over |-> [v \in Parsed |-> [v EXCEPT !.skipped = @ + 1]],
            good |-> [x \in AnyEntry \X Parsed |-> [x[2] EXCEPT !.entries = <<x[1]>> \o @]]]

ParseBody(h, f, pos) ==
  IF Remaining(f, pos) < 4 THEN [entries |-> <<>>, skipped |-> 0]
  ELSE IF Remaining(f, pos) < 12 THEN [entries |-> <<>>, skipped |-> 1]
  ELSE IF DataLen(f, pos) > MAX_ENTRY_SIZE
    THEN [h[pos + 12] EXCEPT !.skipped = @ + 1]
  ELSE IF Remaining(f, pos) < 12 + DataLen(f, pos) THEN [entries |-> <<>>, skipped |-> 1]
  ELSE LET rest == h[pos + 12 + DataLen(f, pos)]
       IN  [rest EXCEPT !.entries = <<EntryAt(f, pos)>> \o @]

LEMMA ParsingReads ==
  /\ Reads(Parsing, Parsed)
  /\ \A r \in Nat : Parsing.base[r] = [entries |-> <<>>, skipped |-> IF r < 4 THEN 0 ELSE 1]
  /\ \A v \in Parsed : Parsing.over[v] = [v EXCEPT !.skipped = @ + 1]
  /\ \A e \in AnyEntry, v \in Parsed : Parsing.good[<<e, v>>] = [v EXCEPT !.entries = <<e>> \o @]
<1> DEFINE empty == <<>>
           base == [r \in Nat |-> [entries |-> empty, skipped |-> IF r < 4 THEN 0 ELSE 1]]
           over == [v \in Parsed |-> [v EXCEPT !.skipped = @ + 1]]
           good == [x \in AnyEntry \X Parsed |-> [x[2] EXCEPT !.entries = <<x[1]>> \o @]]
<1>1. empty \in Seq(AnyEntry)
  BY EmptySeq
<1>2. Parsing = [base |-> base, over |-> over, good |-> good]
  BY DEF Parsing
<1>3. Parsing.base = base /\ Parsing.over = over /\ Parsing.good = good
  <2> HIDE DEF base, over, good
  <2> QED BY <1>2
<1>4. base \in [Nat -> Parsed] /\ \A r \in Nat : base[r] = [entries |-> empty, skipped |-> IF r < 4 THEN 0 ELSE 1]
  <2> HIDE DEF empty
  <2> QED BY <1>1 DEF Parsed
<1>5. over \in [Parsed -> Parsed] /\ \A v \in Parsed : over[v] = [v EXCEPT !.skipped = @ + 1]
  BY DEF Parsed
<1>6. ASSUME NEW e \in AnyEntry, NEW v \in Parsed PROVE [v EXCEPT !.entries = <<e>> \o @] \in Parsed
  <2>1. v.entries \in Seq(AnyEntry) /\ v.skipped \in Nat
    BY DEF Parsed
  <2>2. <<e>> \o v.entries \in Seq(AnyEntry)
    BY <2>1
  <2> DEFINE s == <<e>> \o v.entries
  <2>3. s \in Seq(AnyEntry)
    BY <2>2
  <2> HIDE DEF s
  <2>4. [v EXCEPT !.entries = s] \in Parsed
    BY <2>3 DEF Parsed
  <2> QED BY <2>4 DEF s
<1>7. \A x \in AnyEntry \X Parsed : [x[2] EXCEPT !.entries = <<x[1]>> \o @] \in Parsed
  BY <1>6
<1>8. /\ good \in [AnyEntry \X Parsed -> Parsed]
      /\ \A e \in AnyEntry, v \in Parsed : good[<<e, v>>] = [v EXCEPT !.entries = <<e>> \o @]
  BY <1>7
<1> HIDE DEF base, over, good
<1> QED BY <1>3, <1>4, <1>5, <1>8 DEF Reads

LEMMA ParseIsRun == ASSUME NEW f \in Seq(Bytes) PROVE parse_wal_hardened(f) = Run(f, Parsing, Parsed)
<1> DEFINE n == Len(f)
<1>1. PICK g : Loop(g, f, Parsing, Parsed) /\ Run(f, Parsing, Parsed) = g[0]
  BY ParsingReads, RunIsLoop
<1>2. n \in Nat /\ g \in [0..n -> Parsed] /\ \A pos \in 0..n : g[pos] = Body(g, f, Parsing, pos)
  BY <1>1 DEF Loop
<1>3. ASSUME NEW h, NEW pos \in 0..n, GoesOn(f, pos) => h[To(f, pos)] = g[To(f, pos)]
      PROVE  ParseBody(h, f, pos) = g[pos]
  <2>1. g[pos] = Body(g, f, Parsing, pos)
    BY <1>2
  <2>2. Remaining(f, pos) \in Nat /\ Remaining(f, pos) = n - pos
    BY <1>2 DEF Remaining
  <2>3. CASE GoesOn(f, pos)
    <3>1. /\ DataLen(f, pos) \in Nat /\ To(f, pos) \in 0..n
          /\ ~TooLong(f, pos) => EntryAt(f, pos) \in AnyEntry
      BY <2>3, StepForward
    <3> DEFINE v == g[To(f, pos)]
    <3>2. v \in Parsed /\ h[To(f, pos)] = v
      BY <1>2, <1>3, <2>3, <3>1
    <3> HIDE DEF v
    <3>3. ~(Remaining(f, pos) < 4) /\ ~(Remaining(f, pos) < 12)
      BY <2>2, <2>3 DEF GoesOn
    <3>4. CASE TooLong(f, pos)
      <4>1. g[pos] = Parsing.over[v] /\ To(f, pos) = pos + 12
        BY <2>1, <2>3, <3>4 DEF Body, To, v
      <4>2. ParseBody(h, f, pos) = [h[pos + 12] EXCEPT !.skipped = @ + 1]
        BY <3>3, <3>4 DEF ParseBody, TooLong
      <4> QED BY <3>2, <4>1, <4>2, ParsingReads
    <3>5. CASE ~TooLong(f, pos)
      <4>1. g[pos] = Parsing.good[<<EntryAt(f, pos), v>>] /\ To(f, pos) = pos + 12 + DataLen(f, pos)
        BY <2>1, <2>3, <3>5 DEF Body, To, v
      <4>2. ~(DataLen(f, pos) > MAX_ENTRY_SIZE) /\ ~(Remaining(f, pos) < 12 + DataLen(f, pos))
        BY <2>2, <2>3, <3>1, <3>5 DEF TooLong, GoesOn
      <4>3. ParseBody(h, f, pos) = [v EXCEPT !.entries = <<EntryAt(f, pos)>> \o @]
        BY <3>2, <3>3, <4>1, <4>2 DEF ParseBody
      <4> QED BY <3>1, <3>2, <3>5, <4>1, <4>3, ParsingReads
    <3> QED BY <3>4, <3>5
  <2>4. CASE ~GoesOn(f, pos)
    <3> DEFINE r == Remaining(f, pos)
    <3>1. g[pos] = Parsing.base[r] /\ r \in Nat
      BY <2>1, <2>2, <2>4 DEF Body
    <3>2. ~(r < 12) => ~(DataLen(f, pos) > MAX_ENTRY_SIZE) /\ r < 12 + DataLen(f, pos)
      <4> SUFFICES ASSUME ~(r < 12) PROVE ~(DataLen(f, pos) > MAX_ENTRY_SIZE) /\ r < 12 + DataLen(f, pos)
        OBVIOUS
      <4>1. pos + 8 \in Nat /\ pos + 8 + 4 <= Len(f)
        BY <2>2
      <4>2. DataLen(f, pos) \in Nat
        BY <4>1, WordRead DEF DataLen
      <4> QED BY <2>2, <2>4, <4>2 DEF GoesOn, TooLong
    <3>3. ParseBody(h, f, pos) = [entries |-> <<>>, skipped |-> IF r < 4 THEN 0 ELSE 1]
      <4>1. CASE r < 12
        BY <2>2, <4>1 DEF ParseBody
      <4>2. CASE ~(r < 12)
        <5>1. ~(r < 4)
          BY <2>2, <4>2
        <5> QED BY <3>2, <4>2, <5>1 DEF ParseBody
      <4> QED BY <4>1, <4>2
    <3> HIDE DEF r
    <3> QED BY <3>1, <3>3, ParsingReads
  <2> QED BY <2>3, <2>4
<1>4. g = [pos \in 0..n |-> ParseBody(g, f, pos)]
  <2>1. \A pos \in 0..n : ParseBody(g, f, pos) = g[pos]
    BY <1>3
  <2> QED BY <1>2, <2>1
<1> DEFINE Eq(x) == x = [pos \in 0..n |-> ParseBody(x, f, pos)]
           h == CHOOSE x : Eq(x)
           S == {pos \in 0..n : h[pos] = g[pos]}
<1>5. Eq(h)
  BY <1>4
<1>6. parse_wal_hardened(f) = h[0]
  BY DEF parse_wal_hardened, ParseBody
<1> HIDE DEF h
<1>7. \A pos \in 0..n : h[pos] = ParseBody(h, f, pos)
  BY <1>5
<1>8. ASSUME NEW pos \in 0..n, \A q \in (pos + 1)..n : q \in S PROVE pos \in S
  <2>1. GoesOn(f, pos) => To(f, pos) \in (pos + 1)..n
    BY StepForward
  <2>2. GoesOn(f, pos) => h[To(f, pos)] = g[To(f, pos)]
    BY <1>8, <2>1
  <2> QED BY <1>3, <1>7, <2>2
<1>9. \A pos \in 0..n : pos \in S
  <2> HIDE DEF S, n
  <2> QED BY <1>2, <1>8, Backward
<1>10. 0 \in 0..n
  BY <1>2
<1> QED BY <1>1, <1>6, <1>9, <1>10

-----------------------------------------------------------------------------
(* So is the first phase of verify_transaction_integrity. *)
Scanned == [entries : Seq(AnyEntry), all_valid : BOOLEAN]
Scanning == [base |-> [r \in Nat |-> [entries |-> <<>>, all_valid |-> IF r < 12 THEN TRUE ELSE FALSE]],
             over |-> [v \in Scanned |-> v],
             good |-> [x \in AnyEntry \X Scanned |-> [x[2] EXCEPT !.entries = <<x[1]>> \o @]]]

ScanBody(h, f, pos) ==
  IF Remaining(f, pos) < 12 THEN [entries |-> <<>>, all_valid |-> TRUE]
  ELSE IF DataLen(f, pos) > MAX_ENTRY_SIZE THEN h[pos + 12]
  ELSE IF Remaining(f, pos) < 12 + DataLen(f, pos) THEN [entries |-> <<>>, all_valid |-> FALSE]
  ELSE LET rest == h[pos + 12 + DataLen(f, pos)]
       IN  [rest EXCEPT !.entries = <<EntryAt(f, pos)>> \o @]

LEMMA ScanningReads ==
  /\ Reads(Scanning, Scanned)
  /\ \A r \in Nat : Scanning.base[r] = [entries |-> <<>>, all_valid |-> IF r < 12 THEN TRUE ELSE FALSE]
  /\ \A v \in Scanned : Scanning.over[v] = v
  /\ \A e \in AnyEntry, v \in Scanned : Scanning.good[<<e, v>>] = [v EXCEPT !.entries = <<e>> \o @]
<1> DEFINE empty == <<>>
           base == [r \in Nat |-> [entries |-> empty, all_valid |-> IF r < 12 THEN TRUE ELSE FALSE]]
           over == [v \in Scanned |-> v]
           good == [x \in AnyEntry \X Scanned |-> [x[2] EXCEPT !.entries = <<x[1]>> \o @]]
<1>1. empty \in Seq(AnyEntry)
  BY EmptySeq
<1>2. Scanning = [base |-> base, over |-> over, good |-> good]
  BY DEF Scanning
<1>3. Scanning.base = base /\ Scanning.over = over /\ Scanning.good = good
  <2> HIDE DEF base, over, good
  <2> QED BY <1>2
<1>4. base \in [Nat -> Scanned] /\ \A r \in Nat : base[r] = [entries |-> empty, all_valid |-> IF r < 12 THEN TRUE ELSE FALSE]
  <2> HIDE DEF empty
  <2>1. \A r \in Nat : (IF r < 12 THEN TRUE ELSE FALSE) \in BOOLEAN
    OBVIOUS
  <2> QED BY <1>1, <2>1 DEF Scanned
<1>5. over \in [Scanned -> Scanned] /\ \A v \in Scanned : over[v] = v
  OBVIOUS
<1>6. ASSUME NEW e \in AnyEntry, NEW v \in Scanned PROVE [v EXCEPT !.entries = <<e>> \o @] \in Scanned
  <2>1. v.entries \in Seq(AnyEntry)
    BY DEF Scanned
  <2>2. <<e>> \o v.entries \in Seq(AnyEntry)
    BY <2>1
  <2> DEFINE s == <<e>> \o v.entries
  <2>3. s \in Seq(AnyEntry)
    BY <2>2
  <2> HIDE DEF s
  <2>4. [v EXCEPT !.entries = s] \in Scanned
    BY <2>3 DEF Scanned
  <2> QED BY <2>4 DEF s
<1>7. \A x \in AnyEntry \X Scanned : [x[2] EXCEPT !.entries = <<x[1]>> \o @] \in Scanned
  BY <1>6
<1>8. /\ good \in [AnyEntry \X Scanned -> Scanned]
      /\ \A e \in AnyEntry, v \in Scanned : good[<<e, v>>] = [v EXCEPT !.entries = <<e>> \o @]
  BY <1>7
<1> HIDE DEF base, over, good
<1> QED BY <1>3, <1>4, <1>5, <1>8 DEF Reads

LEMMA ScanIsRun == ASSUME NEW f \in Seq(Bytes) PROVE IntegrityScan(f) = Run(f, Scanning, Scanned)
<1> DEFINE n == Len(f)
<1>1. PICK g : Loop(g, f, Scanning, Scanned) /\ Run(f, Scanning, Scanned) = g[0]
  BY ScanningReads, RunIsLoop
<1>2. n \in Nat /\ g \in [0..n -> Scanned] /\ \A pos \in 0..n : g[pos] = Body(g, f, Scanning, pos)
  BY <1>1 DEF Loop
<1>3. ASSUME NEW h, NEW pos \in 0..n, GoesOn(f, pos) => h[To(f, pos)] = g[To(f, pos)]
      PROVE  ScanBody(h, f, pos) = g[pos]
  <2>1. g[pos] = Body(g, f, Scanning, pos)
    BY <1>2
  <2>2. Remaining(f, pos) \in Nat /\ Remaining(f, pos) = n - pos
    BY <1>2 DEF Remaining
  <2>3. CASE GoesOn(f, pos)
    <3>1. /\ DataLen(f, pos) \in Nat /\ To(f, pos) \in 0..n
          /\ ~TooLong(f, pos) => EntryAt(f, pos) \in AnyEntry
      BY <2>3, StepForward
    <3> DEFINE v == g[To(f, pos)]
    <3>2. v \in Scanned /\ h[To(f, pos)] = v
      BY <1>2, <1>3, <2>3, <3>1
    <3> HIDE DEF v
    <3>3. ~(Remaining(f, pos) < 4) /\ ~(Remaining(f, pos) < 12)
      BY <2>2, <2>3 DEF GoesOn
    <3>4. CASE TooLong(f, pos)
      <4>1. g[pos] = Scanning.over[v] /\ To(f, pos) = pos + 12
        BY <2>1, <2>3, <3>4 DEF Body, To, v
      <4>2. ScanBody(h, f, pos) = h[pos + 12]
        BY <3>3, <3>4 DEF ScanBody, TooLong
      <4> QED BY <3>2, <4>1, <4>2, ScanningReads
    <3>5. CASE ~TooLong(f, pos)
      <4>1. g[pos] = Scanning.good[<<EntryAt(f, pos), v>>] /\ To(f, pos) = pos + 12 + DataLen(f, pos)
        BY <2>1, <2>3, <3>5 DEF Body, To, v
      <4>2. ~(DataLen(f, pos) > MAX_ENTRY_SIZE) /\ ~(Remaining(f, pos) < 12 + DataLen(f, pos))
        BY <2>2, <2>3, <3>1, <3>5 DEF TooLong, GoesOn
      <4>3. ScanBody(h, f, pos) = [v EXCEPT !.entries = <<EntryAt(f, pos)>> \o @]
        BY <3>2, <3>3, <4>1, <4>2 DEF ScanBody
      <4> QED BY <3>1, <3>2, <3>5, <4>1, <4>3, ScanningReads
    <3> QED BY <3>4, <3>5
  <2>4. CASE ~GoesOn(f, pos)
    <3> DEFINE r == Remaining(f, pos)
    <3>1. g[pos] = Scanning.base[r] /\ r \in Nat
      BY <2>1, <2>2, <2>4 DEF Body
    <3>2. ~(r < 12) => ~(DataLen(f, pos) > MAX_ENTRY_SIZE) /\ r < 12 + DataLen(f, pos)
      <4> SUFFICES ASSUME ~(r < 12) PROVE ~(DataLen(f, pos) > MAX_ENTRY_SIZE) /\ r < 12 + DataLen(f, pos)
        OBVIOUS
      <4>1. pos + 8 \in Nat /\ pos + 8 + 4 <= Len(f)
        BY <2>2
      <4>2. DataLen(f, pos) \in Nat
        BY <4>1, WordRead DEF DataLen
      <4> QED BY <2>2, <2>4, <4>2 DEF GoesOn, TooLong
    <3>3. ScanBody(h, f, pos) = [entries |-> <<>>, all_valid |-> IF r < 12 THEN TRUE ELSE FALSE]
      <4>1. CASE r < 12
        BY <2>2, <4>1 DEF ScanBody
      <4>2. CASE ~(r < 12)
        <5>1. ~(r < 4)
          BY <2>2, <4>2
        <5> QED BY <3>2, <4>2, <5>1 DEF ScanBody
      <4> QED BY <4>1, <4>2
    <3> HIDE DEF r
    <3> QED BY <3>1, <3>3, ScanningReads
  <2> QED BY <2>3, <2>4
<1>4. g = [pos \in 0..n |-> ScanBody(g, f, pos)]
  <2>1. \A pos \in 0..n : ScanBody(g, f, pos) = g[pos]
    BY <1>3
  <2> QED BY <1>2, <2>1
<1> DEFINE Eq(x) == x = [pos \in 0..n |-> ScanBody(x, f, pos)]
           h == CHOOSE x : Eq(x)
           S == {pos \in 0..n : h[pos] = g[pos]}
<1>5. Eq(h)
  BY <1>4
<1>6. IntegrityScan(f) = h[0]
  BY DEF IntegrityScan, ScanBody
<1> HIDE DEF h
<1>7. \A pos \in 0..n : h[pos] = ScanBody(h, f, pos)
  BY <1>5
<1>8. ASSUME NEW pos \in 0..n, \A q \in (pos + 1)..n : q \in S PROVE pos \in S
  <2>1. GoesOn(f, pos) => To(f, pos) \in (pos + 1)..n
    BY StepForward
  <2>2. GoesOn(f, pos) => h[To(f, pos)] = g[To(f, pos)]
    BY <1>8, <2>1
  <2> QED BY <1>3, <1>7, <2>2
<1>9. \A pos \in 0..n : pos \in S
  <2> HIDE DEF S, n
  <2> QED BY <1>2, <1>8, Backward
<1>10. 0 \in 0..n
  BY <1>2
<1> QED BY <1>1, <1>6, <1>9, <1>10

-----------------------------------------------------------------------------
(* And recover_from_wal. *)
Counting == [base |-> [r \in Nat |-> 0], over |-> [v \in Nat |-> v],
             good |-> [x \in AnyEntry \X Nat |-> x[2] + (IF x[1].is_committed # 0 THEN 1 ELSE 0)]]

CountBody(h, f, pos) ==
  IF Remaining(f, pos) < 12 THEN 0
  ELSE IF DataLen(f, pos) > MAX_ENTRY_SIZE THEN h[pos + 12]
  ELSE IF Remaining(f, pos) < 12 + DataLen(f, pos) THEN 0
  ELSE h[pos + 12 + DataLen(f, pos)] + (IF EntryAt(f, pos).is_committed # 0 THEN 1 ELSE 0)

LEMMA CountingReads ==
  /\ Reads(Counting, Nat)
  /\ \A r \in Nat : Counting.base[r] = 0
  /\ \A v \in Nat : Counting.over[v] = v
  /\ \A e \in AnyEntry, v \in Nat : Counting.good[<<e, v>>] = v + (IF e.is_committed # 0 THEN 1 ELSE 0)
<1> DEFINE base == [r \in Nat |-> 0]
           over == [v \in Nat |-> v]
           good == [x \in AnyEntry \X Nat |-> x[2] + (IF x[1].is_committed # 0 THEN 1 ELSE 0)]
<1>1. Counting = [base |-> base, over |-> over, good |-> good]
  BY DEF Counting
<1>2. Counting.base = base /\ Counting.over = over /\ Counting.good = good
  <2> HIDE DEF base, over, good
  <2> QED BY <1>1
<1>3. base \in [Nat -> Nat] /\ over \in [Nat -> Nat]
  OBVIOUS
<1>4. /\ good \in [AnyEntry \X Nat -> Nat]
      /\ \A e \in AnyEntry, v \in Nat : good[<<e, v>>] = v + (IF e.is_committed # 0 THEN 1 ELSE 0)
  OBVIOUS
<1>5. (\A r \in Nat : base[r] = 0) /\ \A v \in Nat : over[v] = v
  OBVIOUS
<1> HIDE DEF base, over, good
<1> QED BY <1>2, <1>3, <1>4, <1>5 DEF Reads

LEMMA CountIsRun == ASSUME NEW f \in Seq(Bytes) PROVE recover_from_wal(f) = Run(f, Counting, Nat)
<1> DEFINE n == Len(f)
<1>1. PICK g : Loop(g, f, Counting, Nat) /\ Run(f, Counting, Nat) = g[0]
  BY CountingReads, RunIsLoop
<1>2. n \in Nat /\ g \in [0..n -> Nat] /\ \A pos \in 0..n : g[pos] = Body(g, f, Counting, pos)
  BY <1>1 DEF Loop
<1>3. ASSUME NEW h, NEW pos \in 0..n, GoesOn(f, pos) => h[To(f, pos)] = g[To(f, pos)]
      PROVE  CountBody(h, f, pos) = g[pos]
  <2>1. g[pos] = Body(g, f, Counting, pos)
    BY <1>2
  <2>2. Remaining(f, pos) \in Nat /\ Remaining(f, pos) = n - pos
    BY <1>2 DEF Remaining
  <2>3. CASE GoesOn(f, pos)
    <3>1. /\ DataLen(f, pos) \in Nat /\ To(f, pos) \in 0..n
          /\ ~TooLong(f, pos) => EntryAt(f, pos) \in AnyEntry
      BY <2>3, StepForward
    <3> DEFINE v == g[To(f, pos)]
    <3>2. v \in Nat /\ h[To(f, pos)] = v
      BY <1>2, <1>3, <2>3, <3>1
    <3> HIDE DEF v
    <3>3. ~(Remaining(f, pos) < 4) /\ ~(Remaining(f, pos) < 12)
      BY <2>2, <2>3 DEF GoesOn
    <3>4. CASE TooLong(f, pos)
      <4>1. g[pos] = Counting.over[v] /\ To(f, pos) = pos + 12
        BY <2>1, <2>3, <3>4 DEF Body, To, v
      <4>2. CountBody(h, f, pos) = h[pos + 12]
        BY <3>3, <3>4 DEF CountBody, TooLong
      <4> QED BY <3>2, <4>1, <4>2, CountingReads
    <3>5. CASE ~TooLong(f, pos)
      <4>1. g[pos] = Counting.good[<<EntryAt(f, pos), v>>] /\ To(f, pos) = pos + 12 + DataLen(f, pos)
        BY <2>1, <2>3, <3>5 DEF Body, To, v
      <4>2. ~(DataLen(f, pos) > MAX_ENTRY_SIZE) /\ ~(Remaining(f, pos) < 12 + DataLen(f, pos))
        BY <2>2, <2>3, <3>1, <3>5 DEF TooLong, GoesOn
      <4>3. CountBody(h, f, pos) = v + (IF EntryAt(f, pos).is_committed # 0 THEN 1 ELSE 0)
        BY <3>2, <3>3, <4>1, <4>2 DEF CountBody
      <4> QED BY <3>1, <3>2, <3>5, <4>1, <4>3, CountingReads
    <3> QED BY <3>4, <3>5
  <2>4. CASE ~GoesOn(f, pos)
    <3> DEFINE r == Remaining(f, pos)
    <3>1. g[pos] = Counting.base[r] /\ r \in Nat
      BY <2>1, <2>2, <2>4 DEF Body
    <3>2. ~(r < 12) => ~(DataLen(f, pos) > MAX_ENTRY_SIZE) /\ r < 12 + DataLen(f, pos)
      <4> SUFFICES ASSUME ~(r < 12) PROVE ~(DataLen(f, pos) > MAX_ENTRY_SIZE) /\ r < 12 + DataLen(f, pos)
        OBVIOUS
      <4>1. pos + 8 \in Nat /\ pos + 8 + 4 <= Len(f)
        BY <2>2
      <4>2. DataLen(f, pos) \in Nat
        BY <4>1, WordRead DEF DataLen
      <4> QED BY <2>2, <2>4, <4>2 DEF GoesOn, TooLong
    <3>3. CountBody(h, f, pos) = 0
      <4>1. CASE r < 12
        BY <2>2, <4>1 DEF CountBody
      <4>2. CASE ~(r < 12)
        <5>1. ~(r < 4)
          BY <2>2, <4>2
        <5> QED BY <3>2, <4>2, <5>1 DEF CountBody
      <4> QED BY <4>1, <4>2
    <3> HIDE DEF r
    <3> QED BY <3>1, <3>3, CountingReads
  <2> QED BY <2>3, <2>4
<1>4. g = [pos \in 0..n |-> CountBody(g, f, pos)]
  <2>1. \A pos \in 0..n : CountBody(g, f, pos) = g[pos]
    BY <1>3
  <2> QED BY <1>2, <2>1
<1> DEFINE Eq(x) == x = [pos \in 0..n |-> CountBody(x, f, pos)]
           h == CHOOSE x : Eq(x)
           S == {pos \in 0..n : h[pos] = g[pos]}
<1>5. Eq(h)
  BY <1>4
<1>6. recover_from_wal(f) = h[0]
  BY DEF recover_from_wal, CountBody
<1> HIDE DEF h
<1>7. \A pos \in 0..n : h[pos] = CountBody(h, f, pos)
  BY <1>5
<1>8. ASSUME NEW pos \in 0..n, \A q \in (pos + 1)..n : q \in S PROVE pos \in S
  <2>1. GoesOn(f, pos) => To(f, pos) \in (pos + 1)..n
    BY StepForward
  <2>2. GoesOn(f, pos) => h[To(f, pos)] = g[To(f, pos)]
    BY <1>8, <2>1
  <2> QED BY <1>3, <1>7, <2>2
<1>9. \A pos \in 0..n : pos \in S
  <2> HIDE DEF S, n
  <2> QED BY <1>2, <1>8, Backward
<1>10. 0 \in 0..n
  BY <1>2
<1> QED BY <1>1, <1>6, <1>9, <1>10
-----------------------------------------------------------------------------
(* How many entries of es carry the commit flag. *)
Flagged(es) == {i \in DOMAIN es : es[i].is_committed # 0}

LEMMA FlaggedFinite ==
  ASSUME NEW es \in Seq(LogEntries)
  PROVE  IsFiniteSet(Flagged(es)) /\ Cardinality(Flagged(es)) \in Nat
<1>1. IsFiniteSet(1..Len(es))
  BY FS_Interval
<1>2. Flagged(es) \subseteq 1..Len(es)
  BY DEF Flagged
<1>3. IsFiniteSet(Flagged(es))
  BY <1>1, <1>2, FS_Subset
<1> QED BY <1>3, FS_CardinalityType

LEMMA FlaggedAppend ==
  ASSUME NEW es \in Seq(LogEntries), NEW e \in LogEntries
  PROVE  Cardinality(Flagged(Append(es, e))) = Cardinality(Flagged(es)) + (IF e.is_committed # 0 THEN 1 ELSE 0)
<1> DEFINE now == Append(es, e)
           n == Len(es)
<1>1. n \in Nat /\ DOMAIN es = 1..n /\ DOMAIN now = 1..(n + 1) /\ now[n + 1] = e /\ \A i \in 1..n : now[i] = es[i]
  OBVIOUS
<1> HIDE DEF now, n
<1>2. n + 1 \notin Flagged(es)
  BY <1>1 DEF Flagged
<1>3. CASE e.is_committed # 0
  <2>1. Flagged(now) = Flagged(es) \cup {n + 1}
    BY <1>1, <1>3 DEF Flagged
  <2>2. Cardinality(Flagged(es) \cup {n + 1}) = Cardinality(Flagged(es)) + 1
    BY <1>2, FlaggedFinite, FS_AddElement
  <2> QED BY <1>3, <2>1, <2>2 DEF now
<1>4. CASE ~(e.is_committed # 0)
  <2>1. Flagged(now) = Flagged(es)
    BY <1>1, <1>4 DEF Flagged
  <2>2. Cardinality(Flagged(es)) + 0 = Cardinality(Flagged(es))
    BY FlaggedFinite
  <2> QED BY <1>4, <2>1, <2>2 DEF now
<1> QED BY <1>3, <1>4

(* What the three readers find in f: es, with the given numbers. *)
Find(f, es, skipped, valid) ==
  /\ parse_wal_hardened(f) = [entries |-> es, skipped |-> skipped]
  /\ IntegrityScan(f) = [entries |-> es, all_valid |-> valid]
  /\ recover_from_wal(f) = Cardinality(Flagged(es))

(* f holds the entries es and b bad headers, and whatever follows it is     *)
(* read as if it stood alone.                                               *)
Precedes(f, es, b, g) ==
  /\ parse_wal_hardened(f \o g) = [entries |-> es \o parse_wal_hardened(g).entries,
                                   skipped |-> b + parse_wal_hardened(g).skipped]
  /\ IntegrityScan(f \o g) = [entries |-> es \o IntegrityScan(g).entries,
                              all_valid |-> IntegrityScan(g).all_valid]
  /\ recover_from_wal(f \o g) = Cardinality(Flagged(es)) + recover_from_wal(g)

LEMMA ReadersRead == Reads(Parsing, Parsed) /\ Reads(Scanning, Scanned) /\ Reads(Counting, Nat)
  BY ParsingReads, ScanningReads, CountingReads

LEMMA ReadersTyped ==
  ASSUME NEW f \in Seq(Bytes)
  PROVE  parse_wal_hardened(f) \in Parsed /\ IntegrityScan(f) \in Scanned /\ recover_from_wal(f) \in Nat
  BY ParseIsRun, ScanIsRun, CountIsRun, ReadersRead, RunTyped

(* An entry in front of g. *)
LEMMA EntryEffect ==
  ASSUME NEW e \in LogEntries, NEW g \in Seq(Bytes)
  PROVE  /\ parse_wal_hardened(Encoded(e) \o g) = [entries |-> <<e>> \o parse_wal_hardened(g).entries,
                                                   skipped |-> parse_wal_hardened(g).skipped]
         /\ IntegrityScan(Encoded(e) \o g) = [entries |-> <<e>> \o IntegrityScan(g).entries,
                                              all_valid |-> IntegrityScan(g).all_valid]
         /\ recover_from_wal(Encoded(e) \o g) = recover_from_wal(g) + (IF e.is_committed # 0 THEN 1 ELSE 0)
<1> DEFINE f == Encoded(e) \o g
<1>1. f \in Seq(Bytes) /\ e \in AnyEntry
  <2>1. Encoded(e) \in Seq(Bytes)
    BY EncodedShape
  <2> QED BY <2>1, LogEntryType
<1>2. parse_wal_hardened(g) \in Parsed /\ IntegrityScan(g) \in Scanned /\ recover_from_wal(g) \in Nat
  BY ReadersTyped
<1>3. parse_wal_hardened(f) = Parsing.good[<<e, parse_wal_hardened(g)>>]
  <2>1. parse_wal_hardened(f) = Run(f, Parsing, Parsed) /\ parse_wal_hardened(g) = Run(g, Parsing, Parsed)
    BY <1>1, ParseIsRun
  <2>2. Run(Encoded(e) \o g, Parsing, Parsed) = Parsing.good[<<e, Run(g, Parsing, Parsed)>>]
    BY ReadersRead, RunSteps
  <2> QED BY <2>1, <2>2
<1>4. IntegrityScan(f) = Scanning.good[<<e, IntegrityScan(g)>>]
  <2>1. IntegrityScan(f) = Run(f, Scanning, Scanned) /\ IntegrityScan(g) = Run(g, Scanning, Scanned)
    BY <1>1, ScanIsRun
  <2>2. Run(Encoded(e) \o g, Scanning, Scanned) = Scanning.good[<<e, Run(g, Scanning, Scanned)>>]
    BY ReadersRead, RunSteps
  <2> QED BY <2>1, <2>2
<1>5. recover_from_wal(f) = Counting.good[<<e, recover_from_wal(g)>>]
  <2>1. recover_from_wal(f) = Run(f, Counting, Nat) /\ recover_from_wal(g) = Run(g, Counting, Nat)
    BY <1>1, CountIsRun
  <2>2. Run(Encoded(e) \o g, Counting, Nat) = Counting.good[<<e, Run(g, Counting, Nat)>>]
    BY ReadersRead, RunSteps
  <2> QED BY <2>1, <2>2
<1> HIDE DEF f
<1>6. \A v \in Parsed : \A s : [v EXCEPT !.entries = s] = [entries |-> s, skipped |-> v.skipped]
  BY DEF Parsed
<1>7. \A v \in Scanned : \A s : [v EXCEPT !.entries = s] = [entries |-> s, all_valid |-> v.all_valid]
  BY DEF Scanned
<1>8. parse_wal_hardened(f) = [entries |-> <<e>> \o parse_wal_hardened(g).entries,
                               skipped |-> parse_wal_hardened(g).skipped]
  <2> DEFINE v == parse_wal_hardened(g)
  <2>1. v \in Parsed /\ parse_wal_hardened(f) = Parsing.good[<<e, v>>]
    BY <1>2, <1>3
  <2> HIDE DEF v
  <2>2. Parsing.good[<<e, v>>] = [v EXCEPT !.entries = <<e>> \o @]
    BY <1>1, <2>1, ParsingReads
  <2>3. [v EXCEPT !.entries = <<e>> \o @] = [entries |-> <<e>> \o v.entries, skipped |-> v.skipped]
    BY <1>6, <2>1
  <2>4. parse_wal_hardened(f) = [entries |-> <<e>> \o v.entries, skipped |-> v.skipped]
    BY <2>1, <2>2, <2>3
  <2> QED BY <2>4 DEF v
<1>9. IntegrityScan(f) = [entries |-> <<e>> \o IntegrityScan(g).entries, all_valid |-> IntegrityScan(g).all_valid]
  <2> DEFINE v == IntegrityScan(g)
  <2>1. v \in Scanned /\ IntegrityScan(f) = Scanning.good[<<e, v>>]
    BY <1>2, <1>4
  <2> HIDE DEF v
  <2>2. Scanning.good[<<e, v>>] = [v EXCEPT !.entries = <<e>> \o @]
    BY <1>1, <2>1, ScanningReads
  <2>3. [v EXCEPT !.entries = <<e>> \o @] = [entries |-> <<e>> \o v.entries, all_valid |-> v.all_valid]
    BY <1>7, <2>1
  <2>4. IntegrityScan(f) = [entries |-> <<e>> \o v.entries, all_valid |-> v.all_valid]
    BY <2>1, <2>2, <2>3
  <2> QED BY <2>4 DEF v
<1>10. recover_from_wal(f) = recover_from_wal(g) + (IF e.is_committed # 0 THEN 1 ELSE 0)
  BY <1>1, <1>2, <1>5, CountingReads
<1> QED BY <1>8, <1>9, <1>10 DEF f

(* A bad header in front of g. *)
LEMMA BadEffect ==
  ASSUME NEW t \in LogTxns, NEW flag \in {0, 1}, NEW len \in BadLengths, NEW g \in Seq(Bytes)
  PROVE  LET f == Header(t, flag, len) \o g IN
         /\ parse_wal_hardened(f) = [entries |-> parse_wal_hardened(g).entries,
                                     skipped |-> parse_wal_hardened(g).skipped + 1]
         /\ IntegrityScan(f) = IntegrityScan(g)
         /\ recover_from_wal(f) = recover_from_wal(g)
<1> DEFINE f == Header(t, flag, len) \o g
<1>1. f \in Seq(Bytes)
  <2>1. Header(t, flag, len) \in Seq(Bytes)
    BY BadFirst
  <2> QED BY <2>1
<1>2. parse_wal_hardened(g) \in Parsed /\ IntegrityScan(g) \in Scanned /\ recover_from_wal(g) \in Nat
  BY ReadersTyped
<1>3. parse_wal_hardened(f) = Parsing.over[parse_wal_hardened(g)]
  <2>1. parse_wal_hardened(f) = Run(f, Parsing, Parsed) /\ parse_wal_hardened(g) = Run(g, Parsing, Parsed)
    BY <1>1, ParseIsRun
  <2>2. Run(Header(t, flag, len) \o g, Parsing, Parsed) = Parsing.over[Run(g, Parsing, Parsed)]
    BY ReadersRead, RunSteps
  <2> QED BY <2>1, <2>2
<1>4. IntegrityScan(f) = Scanning.over[IntegrityScan(g)]
  <2>1. IntegrityScan(f) = Run(f, Scanning, Scanned) /\ IntegrityScan(g) = Run(g, Scanning, Scanned)
    BY <1>1, ScanIsRun
  <2>2. Run(Header(t, flag, len) \o g, Scanning, Scanned) = Scanning.over[Run(g, Scanning, Scanned)]
    BY ReadersRead, RunSteps
  <2> QED BY <2>1, <2>2
<1>5. recover_from_wal(f) = Counting.over[recover_from_wal(g)]
  <2>1. recover_from_wal(f) = Run(f, Counting, Nat) /\ recover_from_wal(g) = Run(g, Counting, Nat)
    BY <1>1, CountIsRun
  <2>2. Run(Header(t, flag, len) \o g, Counting, Nat) = Counting.over[Run(g, Counting, Nat)]
    BY ReadersRead, RunSteps
  <2> QED BY <2>1, <2>2
<1> HIDE DEF f
<1>6. \A v \in Parsed : [v EXCEPT !.skipped = @ + 1] = [entries |-> v.entries, skipped |-> v.skipped + 1]
  BY DEF Parsed
<1>7. parse_wal_hardened(f) = [entries |-> parse_wal_hardened(g).entries,
                               skipped |-> parse_wal_hardened(g).skipped + 1]
  BY <1>2, <1>3, <1>6, ParsingReads
<1>8. IntegrityScan(f) = IntegrityScan(g) /\ recover_from_wal(f) = recover_from_wal(g)
  BY <1>2, <1>4, <1>5, ScanningReads, CountingReads
<1> QED BY <1>7, <1>8 DEF f

(* Nothing, or a piece of an entry. *)
LEMMA PieceEffect ==
  ASSUME NEW e \in LogEntries, NEW n \in 1..(Len(Encoded(e)) - 1)
  PROVE  LET f == SubSeq(Encoded(e), 1, n) IN
         /\ parse_wal_hardened(f) = [entries |-> <<>>, skipped |-> IF n < 4 THEN 0 ELSE 1]
         /\ IntegrityScan(f) = [entries |-> <<>>, all_valid |-> IF n < 12 THEN TRUE ELSE FALSE]
         /\ recover_from_wal(f) = 0
<1> DEFINE f == SubSeq(Encoded(e), 1, n)
<1>1. f \in Seq(Bytes) /\ n \in Nat
  BY PieceStops
<1>2. /\ parse_wal_hardened(f) = Parsing.base[n] /\ IntegrityScan(f) = Scanning.base[n]
      /\ recover_from_wal(f) = Counting.base[n]
  <2>1. parse_wal_hardened(f) = Parsing.base[n]
    <3>1. parse_wal_hardened(f) = Run(f, Parsing, Parsed)
      BY <1>1, ParseIsRun
    <3>2. Run(SubSeq(Encoded(e), 1, n), Parsing, Parsed) = Parsing.base[n]
      BY ReadersRead, RunSteps
    <3> QED BY <3>1, <3>2
  <2>2. IntegrityScan(f) = Scanning.base[n]
    <3>1. IntegrityScan(f) = Run(f, Scanning, Scanned)
      BY <1>1, ScanIsRun
    <3>2. Run(SubSeq(Encoded(e), 1, n), Scanning, Scanned) = Scanning.base[n]
      BY ReadersRead, RunSteps
    <3> QED BY <3>1, <3>2
  <2>3. recover_from_wal(f) = Counting.base[n]
    <3>1. recover_from_wal(f) = Run(f, Counting, Nat)
      BY <1>1, CountIsRun
    <3>2. Run(SubSeq(Encoded(e), 1, n), Counting, Nat) = Counting.base[n]
      BY ReadersRead, RunSteps
    <3> QED BY <3>1, <3>2
  <2> QED BY <2>1, <2>2, <2>3
<1> QED BY <1>1, <1>2, ParsingReads, ScanningReads, CountingReads

LEMMA EmptyEffect ==
  ASSUME NEW f \in Seq(Bytes), Len(f) = 0
  PROVE  /\ parse_wal_hardened(f) = [entries |-> <<>>, skipped |-> 0]
         /\ IntegrityScan(f) = [entries |-> <<>>, all_valid |-> TRUE]
         /\ recover_from_wal(f) = 0
<1>1. /\ parse_wal_hardened(f) = Parsing.base[0] /\ IntegrityScan(f) = Scanning.base[0]
      /\ recover_from_wal(f) = Counting.base[0]
  <2>1. parse_wal_hardened(f) = Parsing.base[0]
    <3>1. parse_wal_hardened(f) = Run(f, Parsing, Parsed)
      BY ParseIsRun
    <3>2. Run(f, Parsing, Parsed) = Parsing.base[0]
      BY ReadersRead, RunEmpty
    <3> QED BY <3>1, <3>2
  <2>2. IntegrityScan(f) = Scanning.base[0]
    <3>1. IntegrityScan(f) = Run(f, Scanning, Scanned)
      BY ScanIsRun
    <3>2. Run(f, Scanning, Scanned) = Scanning.base[0]
      BY ReadersRead, RunEmpty
    <3> QED BY <3>1, <3>2
  <2>3. recover_from_wal(f) = Counting.base[0]
    <3>1. recover_from_wal(f) = Run(f, Counting, Nat)
      BY CountIsRun
    <3>2. Run(f, Counting, Nat) = Counting.base[0]
      BY ReadersRead, RunEmpty
    <3> QED BY <3>1, <3>2
  <2> QED BY <2>1, <2>2, <2>3
<1>2. 0 \in Nat /\ 0 < 4 /\ 0 < 12
  OBVIOUS
<1> QED BY <1>1, <1>2, ParsingReads, ScanningReads, CountingReads
-----------------------------------------------------------------------------
LEMMA Regroup ==
  ASSUME NEW a \in Seq(AnyEntry), NEW b \in Seq(AnyEntry), NEW c \in Seq(AnyEntry)
  PROVE  (a \o b) \o c = a \o (b \o c)
  BY ConcatAssociative

(* One entry more. *)
LEMMA PrecedesEntry ==
  ASSUME NEW f \in Seq(Bytes), NEW es \in Seq(LogEntries), NEW b \in Nat, NEW e \in LogEntries,
         NEW g \in Seq(Bytes), Precedes(f, es, b, Encoded(e) \o g)
  PROVE  Precedes(f \o Encoded(e), Append(es, e), b, g)
<1> DEFINE c == Encoded(e)
           p == parse_wal_hardened(g)
           s == IntegrityScan(g)
           one == <<e>>
           more == Append(es, e)
<1>1. c \in Seq(Bytes) /\ es \in Seq(AnyEntry) /\ one \in Seq(AnyEntry) /\ e \in AnyEntry
  <2>1. LogEntries \subseteq AnyEntry
    BY LogEntryType
  <2> QED BY <2>1, EncodedShape
<1>2. p.entries \in Seq(AnyEntry) /\ s.entries \in Seq(AnyEntry) /\ recover_from_wal(g) \in Nat
  BY ReadersTyped DEF Parsed, Scanned
<1>3. (f \o c) \o g = f \o (c \o g)
  BY <1>1, ConcatAssociative
<1>4. more = es \o one
  BY <1>1, AppendIsConcat
<1>5. /\ parse_wal_hardened(c \o g) = [entries |-> one \o p.entries, skipped |-> p.skipped]
      /\ IntegrityScan(c \o g) = [entries |-> one \o s.entries, all_valid |-> s.all_valid]
      /\ recover_from_wal(c \o g) = recover_from_wal(g) + (IF e.is_committed # 0 THEN 1 ELSE 0)
  BY EntryEffect
<1>6. es \o (one \o p.entries) = more \o p.entries /\ es \o (one \o s.entries) = more \o s.entries
  <2>1. (es \o one) \o p.entries = es \o (one \o p.entries) /\ (es \o one) \o s.entries = es \o (one \o s.entries)
    <3> DEFINE x == p.entries
               y == s.entries
    <3>1. x \in Seq(AnyEntry) /\ y \in Seq(AnyEntry)
      BY <1>2
    <3> HIDE DEF x, y, one
    <3>2. (es \o one) \o x = es \o (one \o x)
      BY <1>1, <3>1, Regroup
    <3>3. (es \o one) \o y = es \o (one \o y)
      BY <1>1, <3>1, Regroup
    <3> QED BY <3>2, <3>3 DEF x, y
  <2> QED BY <1>4, <2>1
<1>7. Cardinality(Flagged(more)) = Cardinality(Flagged(es)) + (IF e.is_committed # 0 THEN 1 ELSE 0)
  BY FlaggedAppend
<1>8. /\ parse_wal_hardened(f \o (c \o g)) = [entries |-> es \o parse_wal_hardened(c \o g).entries,
                                              skipped |-> b + parse_wal_hardened(c \o g).skipped]
      /\ IntegrityScan(f \o (c \o g)) = [entries |-> es \o IntegrityScan(c \o g).entries,
                                         all_valid |-> IntegrityScan(c \o g).all_valid]
      /\ recover_from_wal(f \o (c \o g)) = Cardinality(Flagged(es)) + recover_from_wal(c \o g)
  BY DEF Precedes
<1> DEFINE fc == f \o c
           cg == c \o g
           all == f \o cg
           front == one \o p.entries
           front2 == one \o s.entries
<1>9. /\ parse_wal_hardened(all) = [entries |-> es \o front, skipped |-> b + p.skipped]
      /\ IntegrityScan(all) = [entries |-> es \o front2, all_valid |-> s.all_valid]
  <2> HIDE DEF p, s, front, front2, cg
  <2>1. parse_wal_hardened(cg).entries = front /\ parse_wal_hardened(cg).skipped = p.skipped
    BY <1>5 DEF cg, front, front2
  <2>2. IntegrityScan(cg).entries = front2 /\ IntegrityScan(cg).all_valid = s.all_valid
    BY <1>5 DEF cg, front, front2
  <2>3. /\ parse_wal_hardened(all) = [entries |-> es \o parse_wal_hardened(cg).entries,
                                      skipped |-> b + parse_wal_hardened(cg).skipped]
        /\ IntegrityScan(all) = [entries |-> es \o IntegrityScan(cg).entries,
                                 all_valid |-> IntegrityScan(cg).all_valid]
    BY <1>8 DEF cg
  <2> QED BY <2>1, <2>2, <2>3
<1>10. recover_from_wal(all) = Cardinality(Flagged(more)) + recover_from_wal(g)
  <2> DEFINE k == Cardinality(Flagged(es))
             x == IF e.is_committed # 0 THEN 1 ELSE 0
             y == recover_from_wal(g)
  <2>1. recover_from_wal(all) = k + (y + x)
    BY <1>5, <1>8
  <2>2. k \in Nat /\ x \in Nat /\ y \in Nat
    BY <1>2, FlaggedFinite
  <2>3. Cardinality(Flagged(more)) = k + x
    BY <1>7
  <2> HIDE DEF k, x, y, more, all
  <2>4. k + (y + x) = k + x + y
    BY <2>2
  <2> QED BY <2>1, <2>3, <2>4 DEF y
<1>11. /\ parse_wal_hardened(all) = [entries |-> more \o p.entries, skipped |-> b + p.skipped]
       /\ IntegrityScan(all) = [entries |-> more \o s.entries, all_valid |-> s.all_valid]
  <2>1. es \o front = more \o p.entries /\ es \o front2 = more \o s.entries
    BY <1>6
  <2> HIDE DEF all, front, front2, more, p, s
  <2> QED BY <1>9, <2>1
<1>12. fc \o g = all
  BY <1>3
<1> HIDE DEF all, more, fc
<1>13. Precedes(fc, more, b, g)
  BY <1>10, <1>11, <1>12 DEF Precedes
<1> QED BY <1>13 DEF fc, more

(* One bad header more. *)
LEMMA PrecedesBad ==
  ASSUME NEW f \in Seq(Bytes), NEW es \in Seq(LogEntries), NEW b \in Nat,
         NEW t \in LogTxns, NEW flag \in {0, 1}, NEW len \in BadLengths,
         NEW g \in Seq(Bytes), Precedes(f, es, b, Header(t, flag, len) \o g)
  PROVE  Precedes(f \o Header(t, flag, len), es, b + 1, g)
<1> DEFINE c == Header(t, flag, len)
           p == parse_wal_hardened(g)
           s == IntegrityScan(g)
           cg == c \o g
           fc == f \o c
<1>1. c \in Seq(Bytes)
  BY BadFirst
<1>2. p.skipped \in Nat
  BY ReadersTyped DEF Parsed
<1>3. fc \o g = f \o cg
  BY <1>1, ConcatAssociative
<1>4. /\ parse_wal_hardened(cg) = [entries |-> p.entries, skipped |-> p.skipped + 1]
      /\ IntegrityScan(cg) = s /\ recover_from_wal(cg) = recover_from_wal(g)
  BY BadEffect
<1>5. Precedes(f, es, b, cg)
  OBVIOUS
<1> HIDE DEF c, cg, p, s, fc
<1>6. /\ parse_wal_hardened(f \o cg) = [entries |-> es \o parse_wal_hardened(cg).entries,
                                        skipped |-> b + parse_wal_hardened(cg).skipped]
      /\ IntegrityScan(f \o cg) = [entries |-> es \o s.entries, all_valid |-> s.all_valid]
      /\ recover_from_wal(f \o cg) = Cardinality(Flagged(es)) + recover_from_wal(g)
  BY <1>4, <1>5 DEF Precedes
<1>7. parse_wal_hardened(cg).entries = p.entries /\ parse_wal_hardened(cg).skipped = p.skipped + 1
  BY <1>4
<1>8. b + (p.skipped + 1) = b + 1 + p.skipped
  BY <1>2
<1>9. parse_wal_hardened(f \o cg) = [entries |-> es \o p.entries, skipped |-> b + 1 + p.skipped]
  BY <1>6, <1>7, <1>8
<1>10. Precedes(fc, es, b + 1, g)
  BY <1>3, <1>6, <1>9 DEF Precedes, p, s
<1> QED BY <1>10 DEF fc, c

(* Nothing more, or a piece of an entry. *)
LEMMA PrecedesEnd ==
  ASSUME NEW f \in Seq(Bytes), NEW es \in Seq(LogEntries), NEW b \in Nat,
         NEW g \in Seq(Bytes), Precedes(f, es, b, g), NEW k \in Nat, NEW ok \in BOOLEAN,
         parse_wal_hardened(g) = [entries |-> <<>>, skipped |-> k],
         IntegrityScan(g) = [entries |-> <<>>, all_valid |-> ok],
         recover_from_wal(g) = 0
  PROVE  Find(f \o g, es, b + k, ok)
<1> DEFINE empty == <<>>
           fg == f \o g
           n == Cardinality(Flagged(es))
<1>1. es \o empty = es
  BY ConcatEmptySeq
<1>2. n \in Nat
  BY FlaggedFinite
<1>3. n + 0 = n
  <2> HIDE DEF n
  <2> QED BY <1>2
<1>4. /\ parse_wal_hardened(g) = [entries |-> empty, skipped |-> k]
      /\ IntegrityScan(g) = [entries |-> empty, all_valid |-> ok]
  OBVIOUS
<1> HIDE DEF empty
<1>5. /\ parse_wal_hardened(g).entries = empty /\ parse_wal_hardened(g).skipped = k
      /\ IntegrityScan(g).entries = empty /\ IntegrityScan(g).all_valid = ok
  BY <1>4
<1>6. /\ parse_wal_hardened(fg) = [entries |-> es \o parse_wal_hardened(g).entries,
                                   skipped |-> b + parse_wal_hardened(g).skipped]
      /\ IntegrityScan(fg) = [entries |-> es \o IntegrityScan(g).entries,
                              all_valid |-> IntegrityScan(g).all_valid]
      /\ recover_from_wal(fg) = n + recover_from_wal(g)
  BY DEF Precedes
<1> HIDE DEF fg, n
<1>7. /\ parse_wal_hardened(fg) = [entries |-> es, skipped |-> b + k]
      /\ IntegrityScan(fg) = [entries |-> es, all_valid |-> ok]
      /\ recover_from_wal(fg) = n
  BY <1>1, <1>3, <1>5, <1>6
<1> QED BY <1>7 DEF Find, fg, n
-----------------------------------------------------------------------------
(* What the three readers find in the file: the inductive invariant.        *)
LogInv ==
  /\ file \in Seq(Bytes) /\ whole \in Seq(LogEntries) /\ bad \in Nat /\ torn \in Nat
  /\ exists \in BOOLEAN /\ (~exists => DOMAIN whole = {})
  /\ torn = 0 => \A g \in Seq(Bytes) : Precedes(file, whole, bad, g)
  /\ torn # 0 => Find(file, whole, bad + (IF torn < 4 THEN 0 ELSE 1), IF torn < 12 THEN TRUE ELSE FALSE)

LEMMA LogInitInv == LogInit => LogInv
<1> SUFFICES ASSUME LogInit PROVE LogInv
  OBVIOUS
<1> DEFINE empty == <<>>
<1>1. file = empty /\ whole = empty /\ bad = 0 /\ torn = 0 /\ exists \in BOOLEAN
  BY DEF LogInit
<1>2. empty \in Seq(Bytes) /\ empty \in Seq(LogEntries) /\ DOMAIN empty = {}
  BY EmptySeq
<1>3. Flagged(empty) = {}
  BY <1>2 DEF Flagged
<1>4. Cardinality(Flagged(empty)) = 0
  BY <1>3, FS_EmptySet
<1>5. ASSUME NEW g \in Seq(Bytes) PROVE Precedes(empty, empty, 0, g)
  <2> DEFINE p == parse_wal_hardened(g)
             s == IntegrityScan(g)
             x == p.entries
             y == s.entries
  <2>1. p \in Parsed /\ s \in Scanned /\ recover_from_wal(g) \in Nat
    BY ReadersTyped
  <2> HIDE DEF p, s
  <2>2. /\ p = [entries |-> x, skipped |-> p.skipped] /\ s = [entries |-> y, all_valid |-> s.all_valid]
        /\ x \in Seq(AnyEntry) /\ y \in Seq(AnyEntry) /\ p.skipped \in Nat
    BY <2>1 DEF Parsed, Scanned
  <2> HIDE DEF x, y
  <2>3. empty \o g = g /\ empty \o x = x /\ empty \o y = y
    BY <2>2, ConcatEmptySeq
  <2> HIDE DEF empty
  <2>4. 0 + p.skipped = p.skipped /\ 0 + recover_from_wal(g) = recover_from_wal(g)
    BY <2>1, <2>2
  <2>5. /\ parse_wal_hardened(empty \o g) = [entries |-> empty \o x, skipped |-> 0 + p.skipped]
        /\ IntegrityScan(empty \o g) = [entries |-> empty \o y, all_valid |-> s.all_valid]
        /\ recover_from_wal(empty \o g) = Cardinality(Flagged(empty)) + recover_from_wal(g)
    <3>1. parse_wal_hardened(g) = p /\ IntegrityScan(g) = s
      BY DEF p, s
    <3> QED BY <1>4, <2>2, <2>3, <2>4, <3>1
  <2> QED BY <2>5 DEF Precedes, p, s, x, y
<1> HIDE DEF empty
<1> QED BY <1>1, <1>2, <1>5 DEF LogInv

LEMMA LogNextInv == LogInv /\ [LogNext]_logVars => LogInv'
<1> SUFFICES ASSUME LogInv, [LogNext]_logVars PROVE LogInv'
  OBVIOUS
<1>0. file \in Seq(Bytes) /\ whole \in Seq(LogEntries) /\ bad \in Nat /\ torn \in Nat
  BY DEF LogInv
<1>1. ASSUME NEW e \in LogEntries, WriteEntry(e) PROVE LogInv'
  <2>1. /\ torn = 0 /\ file' = file \o Encoded(e) /\ whole' = Append(whole, e) /\ bad' = bad /\ torn' = torn
        /\ exists' = TRUE
    BY <1>1 DEF WriteEntry, MayWrite
  <2>2. Encoded(e) \in Seq(Bytes)
    BY EncodedShape
  <2>3. file' \in Seq(Bytes) /\ whole' \in Seq(LogEntries)
    BY <1>0, <2>1, <2>2
  <2>4. ASSUME NEW g \in Seq(Bytes) PROVE Precedes(file', whole', bad', g)
    <3>1. Encoded(e) \o g \in Seq(Bytes)
      BY <2>2
    <3>2. Precedes(file, whole, bad, Encoded(e) \o g)
      BY <2>1, <3>1 DEF LogInv
    <3>3. Precedes(file \o Encoded(e), Append(whole, e), bad, g)
      BY <1>0, <3>2, PrecedesEntry
    <3> QED BY <2>1, <3>3
  <2> QED BY <1>0, <2>1, <2>3, <2>4 DEF LogInv
<1>2. ASSUME NEW t \in LogTxns, NEW flag \in {0, 1}, NEW len \in BadLengths, WriteBadHeader(t, flag, len)
      PROVE  LogInv'
  <2> DEFINE c == Header(t, flag, len)
  <2>1. /\ torn = 0 /\ file' = file \o c /\ whole' = whole /\ bad' = bad + 1 /\ torn' = torn
        /\ exists' = TRUE
    BY <1>2 DEF WriteBadHeader, MayWrite
  <2>2. c \in Seq(Bytes)
    BY BadFirst, EmptySeq
  <2>3. file' \in Seq(Bytes) /\ bad' \in Nat
    BY <1>0, <2>1, <2>2
  <2>4. ASSUME NEW g \in Seq(Bytes) PROVE Precedes(file', whole', bad', g)
    <3>1. c \o g \in Seq(Bytes)
      BY <2>2
    <3>2. Precedes(file, whole, bad, c \o g)
      BY <2>1, <3>1 DEF LogInv
    <3>3. Precedes(file \o c, whole, bad + 1, g)
      BY <1>0, <3>2, PrecedesBad
    <3> QED BY <2>1, <3>3
  <2> QED BY <1>0, <2>1, <2>3, <2>4 DEF LogInv
<1>3. ASSUME NEW e \in LogEntries, NEW n \in 1..(Len(Encoded(e)) - 1), WritePiece(e, n) PROVE LogInv'
  <2> DEFINE c == SubSeq(Encoded(e), 1, n)
             k == IF n < 4 THEN 0 ELSE 1
             ok == IF n < 12 THEN TRUE ELSE FALSE
  <2>1. /\ torn = 0 /\ file' = file \o c /\ whole' = whole /\ bad' = bad /\ torn' = n
        /\ exists' = TRUE
    BY <1>3 DEF WritePiece, MayWrite
  <2>2. c \in Seq(Bytes) /\ n \in Nat /\ n # 0 /\ k \in Nat /\ ok \in BOOLEAN
    BY PieceStops
  <2>3. /\ parse_wal_hardened(c) = [entries |-> <<>>, skipped |-> k]
        /\ IntegrityScan(c) = [entries |-> <<>>, all_valid |-> ok]
        /\ recover_from_wal(c) = 0
    BY PieceEffect
  <2> HIDE DEF c
  <2>4. Precedes(file, whole, bad, c)
    BY <2>1, <2>2 DEF LogInv
  <2>5. Find(file \o c, whole, bad + k, ok)
    <3> HIDE DEF k, ok
    <3> QED BY <1>0, <2>2, <2>3, <2>4, PrecedesEnd
  <2>6. file' \in Seq(Bytes)
    BY <1>0, <2>1, <2>2
  <2>7. Find(file', whole', bad' + (IF torn' < 4 THEN 0 ELSE 1), IF torn' < 12 THEN TRUE ELSE FALSE)
    BY <2>1, <2>5
  <2> QED BY <1>0, <2>1, <2>2, <2>6, <2>7 DEF LogInv
<1>4. CASE UNCHANGED logVars
  BY <1>4 DEF LogInv, logVars
<1> QED BY <1>1, <1>2, <1>3, <1>4 DEF LogNext

LEMMA LogAlways == LogSpec => []LogInv
  BY LogInitInv, LogNextInv, PTL DEF LogSpec

(* In every state the readers find exactly what was written whole. *)
LEMMA ReadersFind ==
  ASSUME LogInv
  PROVE  Find(file, whole, bad + (IF torn < 4 THEN 0 ELSE 1), IF torn < 12 THEN TRUE ELSE FALSE)
<1>0. file \in Seq(Bytes) /\ whole \in Seq(LogEntries) /\ bad \in Nat /\ torn \in Nat
  BY DEF LogInv
<1>1. CASE torn # 0
  BY <1>1 DEF LogInv
<1>2. CASE torn = 0
  <2> DEFINE empty == <<>>
  <2>1. empty \in Seq(Bytes) /\ Len(empty) = 0
    BY EmptySeq
  <2>2. /\ parse_wal_hardened(empty) = [entries |-> <<>>, skipped |-> 0]
        /\ IntegrityScan(empty) = [entries |-> <<>>, all_valid |-> TRUE]
        /\ recover_from_wal(empty) = 0
    BY <2>1, EmptyEffect
  <2>3. file \o empty = file
    BY <1>0, ConcatEmptySeq
  <2> HIDE DEF empty
  <2>4. Precedes(file, whole, bad, empty)
    BY <1>2, <2>1 DEF LogInv
  <2>5. 0 \in Nat /\ TRUE \in BOOLEAN
    OBVIOUS
  <2>6. Find(file \o empty, whole, bad + 0, TRUE)
    BY <1>0, <2>1, <2>2, <2>4, <2>5, PrecedesEnd
  <2>7. (IF torn < 4 THEN 0 ELSE 1) = 0 /\ (IF torn < 12 THEN TRUE ELSE FALSE) = TRUE
    BY <1>2
  <2> QED BY <2>3, <2>6, <2>7
<1> QED BY <1>1, <1>2

(* HardenedRecoversAll: for any entries, bad headers and a piece of any     *)
(* length at the end, parse_wal_hardened returns the entries written whole, *)
(* in order, and skips exactly the rest.                                    *)
THEOREM ParserFindsAll == LogSpec => []HardenedRecoversAll
<1>1. LogInv => HardenedRecoversAll
  <2> SUFFICES ASSUME LogInv PROVE HardenedRecoversAll
    OBVIOUS
  <2>1. parse_wal_hardened(file) = [entries |-> whole, skipped |-> bad + (IF torn < 4 THEN 0 ELSE 1)]
    BY ReadersFind DEF Find
  <2>2. torn \in Nat
    BY DEF LogInv
  <2>3. (IF torn < 4 THEN 0 ELSE 1) = (IF torn >= 4 THEN 1 ELSE 0)
    BY <2>2
  <2> QED BY <2>1, <2>3 DEF HardenedRecoversAll
<1> QED BY <1>1, LogAlways, PTL
-----------------------------------------------------------------------------
(* The last entry of an id. *)
Ids(es) == {es[i].txn_id : i \in DOMAIN es}
LastOf(es, t, i) == /\ i \in DOMAIN es /\ es[i].txn_id = t
                    /\ \A j \in DOMAIN es : j > i => es[j].txn_id # t

LEMMA LastOfExists ==
  ASSUME NEW es \in Seq(LogEntries), NEW t \in Ids(es)
  PROVE  \E i : LastOf(es, t, i)
<1> DEFINE n == Len(es)
           S == {i \in 0..n : ~(i \in DOMAIN es /\ es[i].txn_id = t)}
<1>1. n \in Nat /\ DOMAIN es = 1..n
  OBVIOUS
<1> SUFFICES ASSUME ~\E i : LastOf(es, t, i) PROVE FALSE
  OBVIOUS
<1>2. ASSUME NEW p \in 0..n, \A q \in (p + 1)..n : q \in S PROVE p \in S
  <2> SUFFICES ASSUME p \in DOMAIN es, es[p].txn_id = t PROVE FALSE
    OBVIOUS
  <2>1. \A j \in DOMAIN es : j > p => j \in (p + 1)..n
    BY <1>1
  <2>2. \A j \in DOMAIN es : j > p => es[j].txn_id # t
    BY <1>2, <2>1
  <2>3. LastOf(es, t, p)
    BY <2>2 DEF LastOf
  <2> QED BY <2>3
<1>3. \A p \in 0..n : p \in S
  <2> HIDE DEF S, n
  <2> QED BY <1>1, <1>2, Backward
<1>4. PICK i \in DOMAIN es : es[i].txn_id = t
  BY DEF Ids
<1>5. i \in 0..n
  BY <1>1
<1> QED BY <1>3, <1>4, <1>5

(* Both ways to write down the last entry choose it. *)
LEMMA LastChosen ==
  ASSUME NEW es \in Seq(LogEntries), NEW t \in Ids(es)
  PROVE  (CHOOSE i \in DOMAIN es : es[i].txn_id = t /\ \A j \in (i + 1)..Len(es) : es[j].txn_id # t)
           = (CHOOSE i \in DOMAIN es : es[i].txn_id = t /\ \A j \in DOMAIN es : j > i => es[j].txn_id # t)
<1> DEFINE n == Len(es)
           P(i) == es[i].txn_id = t /\ \A j \in (i + 1)..n : es[j].txn_id # t
           Q(i) == es[i].txn_id = t /\ \A j \in DOMAIN es : j > i => es[j].txn_id # t
           a == CHOOSE i \in DOMAIN es : P(i)
           b == CHOOSE i \in DOMAIN es : Q(i)
<1>1. n \in Nat /\ DOMAIN es = 1..n
  OBVIOUS
<1>2. ASSUME NEW i \in DOMAIN es PROVE P(i) <=> Q(i)
  <2>1. i \in 1..n
    BY <1>1
  <2>2. \A j : j \in (i + 1)..n <=> (j \in DOMAIN es /\ j > i)
    BY <1>1, <2>1
  <2> QED BY <2>2
<1>3. PICK m : LastOf(es, t, m)
  BY LastOfExists
<1>4. m \in DOMAIN es /\ Q(m)
  BY <1>3 DEF LastOf
<1>5. m \in DOMAIN es /\ P(m)
  BY <1>2, <1>4
<1>6. a \in DOMAIN es /\ P(a)
  <2> HIDE DEF P
  <2> QED BY <1>5
<1>7. b \in DOMAIN es /\ Q(b)
  <2> HIDE DEF Q
  <2> QED BY <1>4
<1>8. Q(a)
  BY <1>2, <1>6
<1> HIDE DEF a, b
<1>9. ~(b > a) /\ ~(a > b)
  BY <1>6, <1>7, <1>8
<1>10. a \in Nat /\ b \in Nat
  BY <1>1, <1>6, <1>7
<1>11. a = b
  BY <1>9, <1>10
<1> QED BY <1>11 DEF a, b, P, Q

LEMMA IdsFinite ==
  ASSUME NEW es \in Seq(LogEntries) PROVE IsFiniteSet(DOMAIN es) /\ IsFiniteSet(Ids(es))
<1>1. DOMAIN es = 1..Len(es) /\ Len(es) \in Nat
  OBVIOUS
<1>2. IsFiniteSet(DOMAIN es)
  BY <1>1, FS_Interval
<1>3. IsFiniteSet(Ids(es))
  <2> DEFINE F == [i \in DOMAIN es |-> es[i].txn_id]
  <2>1. F \in Surjection(DOMAIN es, Ids(es))
    BY DEF Ids, Surjection
  <2> HIDE DEF F
  <2> QED BY <1>2, <2>1, FS_Surjection
<1> QED BY <1>2, <1>3

(* ReadersAgree: for any such file the three readers agree on the entries,  *)
(* and the integrity check's verdict is what those entries say, or that     *)
(* there is no file to open.                                                *)
THEOREM ReadersFindTheSame == LogSpec => []ReadersAgree
<1>1. LogInv => ReadersAgree
  <2> SUFFICES ASSUME LogInv PROVE ReadersAgree
    OBVIOUS
  <2> DEFINE es == parse_wal_hardened(file).entries
             m == TxnMap(es)
             valid == IF torn < 12 THEN TRUE ELSE FALSE
             com == {t \in DOMAIN m : m[t].is_committed # 0}
             unc == {t \in DOMAIN m : m[t].is_committed = 0}
             wri == {i \in DOMAIN es : es[i].data # <<>>}
             ids == {es[i].txn_id : i \in DOMAIN es}
             last(t) == CHOOSE i \in DOMAIN es : es[i].txn_id = t /\ \A j \in DOMAIN es : j > i => es[j].txn_id # t
             report == Report(file)
             full == verify_transaction_integrity(exists, file)
  <2>0. /\ es = whole
        /\ IntegrityScan(file) = [entries |-> whole, all_valid |-> valid]
        /\ recover_from_wal(file) = Cardinality(Flagged(whole))
    BY ReadersFind DEF Find
  <2> HIDE DEF es
  <2>1. es \in Seq(LogEntries) /\ torn \in Nat
    BY <2>0 DEF LogInv
  <2>2. /\ IntegrityScan(file) = [entries |-> es, all_valid |-> valid]
        /\ recover_from_wal(file) = Cardinality(Flagged(es))
    BY <2>0
  <2>3. /\ DOMAIN m = ids /\ ids = Ids(es)
        /\ \A t \in ids : m[t] = es[CHOOSE i \in DOMAIN es : es[i].txn_id = t /\ \A j \in (i + 1)..Len(es) : es[j].txn_id # t]
    BY DEF TxnMap, Ids
  <2>4. \A t \in ids : m[t] = es[last(t)]
    BY <2>1, <2>3, LastChosen
  <2>5. /\ report.total_txns = Cardinality(DOMAIN m) /\ report.all_valid = valid
        /\ report.acid_properties_hold =
             (/\ Cardinality(wri) > 0 /\ Cardinality(com) > 0
              /\ Cardinality(DOMAIN m) = Cardinality(com) + Cardinality(unc))
    <3>1. IntegrityScan(file).entries = es /\ IntegrityScan(file).all_valid = valid
      BY <2>2
    <3> QED BY <3>1 DEF Report
  <2>6. IsFiniteSet(DOMAIN m) /\ IsFiniteSet(DOMAIN es)
    BY <2>1, <2>3, IdsFinite
  <2>7. IsFiniteSet(com) /\ IsFiniteSet(unc) /\ IsFiniteSet(wri)
    BY <2>6, FS_Subset
  <2>8. /\ Cardinality(com) \in Nat /\ Cardinality(unc) \in Nat /\ Cardinality(wri) \in Nat
        /\ (Cardinality(com) = 0 <=> com = {}) /\ (Cardinality(wri) = 0 <=> wri = {})
    BY <2>7, FS_CardinalityType, FS_EmptySet
  <2>9. Cardinality(DOMAIN m) = Cardinality(com) + Cardinality(unc)
    <3>1. com \cup unc = DOMAIN m /\ com \cap unc = {}
      OBVIOUS
    <3> HIDE DEF com, unc, m
    <3>2. Cardinality(com \cup unc) = Cardinality(com) + Cardinality(unc) - Cardinality(com \cap unc)
      BY <2>7, FS_Union
    <3>3. Cardinality({}) = 0
      BY FS_EmptySet
    <3> DEFINE x == Cardinality(com)
               y == Cardinality(unc)
    <3>4. Cardinality(DOMAIN m) = x + y - 0
      BY <3>1, <3>2, <3>3
    <3>5. x \in Nat /\ y \in Nat
      BY <2>8
    <3> HIDE DEF x, y
    <3>6. x + y - 0 = x + y
      BY <3>5
    <3>7. Cardinality(DOMAIN m) = x + y
      BY <3>4, <3>6
    <3> QED BY <3>7 DEF x, y
  <2>10. Cardinality(com) > 0 <=> \E t \in ids : es[last(t)].is_committed # 0
    <3>1. com # {} <=> \E t \in ids : es[last(t)].is_committed # 0
      <4>1. \A t \in ids : m[t].is_committed = es[last(t)].is_committed
        BY <2>4
      <4>2. DOMAIN m = ids
        BY <2>3
      <4> HIDE DEF m, ids, last
      <4> QED BY <4>1, <4>2, Zenon
    <3> HIDE DEF com, ids, last
    <3> QED BY <2>8, <3>1
  <2>11. Cardinality(wri) > 0 <=> \E i \in DOMAIN es : es[i].data # <<>>
    <3>1. wri # {} <=> \E i \in DOMAIN es : es[i].data # <<>>
      OBVIOUS
    <3> HIDE DEF wri
    <3> QED BY <2>8, <3>1
  <2>12. report.acid_properties_hold <=> /\ \E i \in DOMAIN es : es[i].data # <<>>
                                         /\ \E t \in ids : es[last(t)].is_committed # 0
    BY <2>5, <2>9, <2>10, <2>11, Zenon
  <2>13. valid = (torn < 12)
    <3> DEFINE c == torn < 12
    <3>1. c \in BOOLEAN
      OBVIOUS
    <3> HIDE DEF c
    <3>2. (IF c THEN TRUE ELSE FALSE) = c
      BY <3>1, Zenon
    <3> QED BY <3>2 DEF c
  <2>14. recover_from_wal(file) = Cardinality({i \in DOMAIN es : es[i].is_committed # 0})
    BY <2>2 DEF Flagged
  <2>15. report.total_txns = Cardinality(ids)
    BY <2>3, <2>5
  <2>16. report.all_valid = (torn < 12)
    BY <2>5, <2>13, Zenon
  <2> HIDE DEF report
  <2>17. CASE exists
    <3>1. full = report
      BY <2>17 DEF verify_transaction_integrity, report
    <3> HIDE DEF full
    <3>2. /\ full.total_txns = Cardinality(ids)
          /\ full.all_valid <=> exists /\ torn < 12
          /\ full.acid_properties_hold <=> /\ \E i \in DOMAIN es : es[i].data # <<>>
                                           /\ \E t \in ids : es[last(t)].is_committed # 0
      BY <2>12, <2>15, <2>16, <2>17, <3>1, Zenon
    <3> QED BY <2>14, <3>2, Zenon DEF ReadersAgree, es, full
  <2>18. CASE ~exists
    <3>1. full = NotOpened
      BY <2>18 DEF verify_transaction_integrity
    <3>2. full.total_txns = 0 /\ full.all_valid = FALSE
      BY <3>1 DEF NotOpened
    <3>3. ids = {}
      BY <2>0, <2>18 DEF LogInv
    <3>4. full.total_txns = Cardinality(ids)
      BY <3>2, <3>3, FS_EmptySet
    <3> HIDE DEF full
    <3>5. full.all_valid <=> exists /\ torn < 12
      BY <2>18, <3>2
    <3> QED BY <2>14, <2>18, <3>4, <3>5, Zenon DEF ReadersAgree, es, full
  <2> QED BY <2>17, <2>18
<1> QED BY <1>1, LogAlways, PTL
=============================================================================
