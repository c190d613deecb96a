----------------------------- MODULE StoragePage -----------------------------
(***************************************************************************)
(* StoragePage of src/src/storage_complete.cpp: header, slot directory and *)
(* payload in one array of bytes, with a checksum over everything but its  *)
(* own field.  serialize hands out an image of the page, a storage medium  *)
(* may change one byte of it, and deserialize takes it back.  The areas    *)
(* are constants so that a small page has the code's layout.               *)
(***************************************************************************)
EXTENDS Integers, Sequences, FiniteSets

CONSTANTS HEADER_SIZE,    \* 256 in the code
          MaxSlots,       \* 256 in the code
          PAYLOAD_SIZE,   \* 5888 in the code
          RowBytes,       \* the rows inserted, as sequences of bytes
          BadBytes        \* what a damaged byte may become

ASSUME LayoutAssumption == /\ HEADER_SIZE \in Nat /\ HEADER_SIZE >= 16
                           /\ MaxSlots \in Nat /\ MaxSlots <= 65535
                           /\ PAYLOAD_SIZE \in Nat /\ PAYLOAD_SIZE <= 65535
                           /\ \A r \in RowBytes : r \in Seq(0..255) /\ Len(r) < 65536
                           /\ BadBytes \subseteq 0..255

VARIABLES data,       \* the page
          image,      \* what serialize returned last, NoImage before
          damage,     \* NoDamage, or the byte of the image that changed
          verdict,    \* of the last deserialize: "none", "short" (not a page), "good" or "bad"
          accepted,   \* history: the rows in the page
          saved       \* history: the rows in the image

pageVars == <<data, image, damage, verdict, accepted, saved>>

NoImage == <<>>
NoDamage == [at |-> -1, was |-> 0]
PAYLOAD_START == HEADER_SIZE + 8 * MaxSlots
PAGE_BYTES == PAYLOAD_START + PAYLOAD_SIZE
ChecksumField == 12..15

-----------------------------------------------------------------------------
Write(d, off, bytes) ==
  [i \in DOMAIN d |-> IF i \in off..(off + Len(bytes) - 1) THEN bytes[i - off + 1] ELSE d[i]]

Int16(n) == <<n % 256, n \div 256>>
Read16(d, off) == d[off] + 256 * d[off + 1]

num_slots(d) == Read16(d, 8)
free_offset(d) == Read16(d, 10)

(* The constructor: page number 0, type 1, no slots, nothing stored. *)
NewPage == Write([i \in 0..(PAGE_BYTES - 1) |-> 0], 4, <<1>>)

(* A 32-bit word is the set of its bits that are 1. *)
Bits(byte) == {b \in 0..7 : (byte \div 2^b) % 2 = 1}
ShiftLeft(word) == {b + 1 : b \in word \ {31}}
Xor(v, w) == (v \ w) \cup (w \ v)
ByteOf(word, k) ==
  LET bit(b) == IF 8 * k + b \in word THEN 2^b ELSE 0
  IN  bit(0) + bit(1) + bit(2) + bit(3) + bit(4) + bit(5) + bit(6) + bit(7)
WordBytes(word) == <<ByteOf(word, 0), ByteOf(word, 1), ByteOf(word, 2), ByteOf(word, 3)>>

(* A sum shifted by a byte for every byte, which drops all but the last 4. *)
Accumulate_ByteShift(sum, byte) == Xor({b + 8 : b \in sum \cap 0..23}, Bits(byte))

Accumulate(sum, byte) == Xor(ShiftLeft(sum), Bits(byte))

compute_checksum(d) ==
  LET sum[n \in 0..PAGE_BYTES] ==        \* after the first n bytes
        IF n = 0 THEN {}
        ELSE IF n - 1 \in ChecksumField THEN sum[n - 1]
        ELSE Accumulate(sum[n - 1], d[n - 1])
  IN  sum[PAGE_BYTES]

Accepts(d, row) == num_slots(d) < MaxSlots /\ free_offset(d) + Len(row) <= PAYLOAD_SIZE

(* An insert that records where the row ends. *)
insert_EndOffset(d, row) ==
  LET n == num_slots(d)
      off == free_offset(d)
      slotted == Write(d, HEADER_SIZE + 8 * n, Int16(off + Len(row)) \o <<0, 0>> \o Int16(Len(row)) \o <<0, 0>>)
      stored == Write(slotted, PAYLOAD_START + off, row)
  IN  Write(stored, 8, Int16(n + 1) \o Int16(off + Len(row)))

(* insert_row: a slot, the bytes, and the header. *)
insert(d, row) ==
  LET n == num_slots(d)
      off == free_offset(d)
      slotted == Write(d, HEADER_SIZE + 8 * n, Int16(off) \o <<0, 0>> \o Int16(Len(row)) \o <<0, 0>>)
      stored == Write(slotted, PAYLOAD_START + off, row)
  IN  Write(stored, 8, Int16(n + 1) \o Int16(off + Len(row)))

(* read_row of a slot that exists. *)
read(d, slot) ==
  LET off == Read16(d, HEADER_SIZE + 8 * slot)
      len == Read16(d, HEADER_SIZE + 8 * slot + 4)
  IN  [k \in 1..len |-> d[PAYLOAD_START + off + k - 1]]

serialized(d) == Write(d, 12, WordBytes(compute_checksum(d)))

(* The field holds the sum of the rest.  deserialize compares the same two, *)
(* the field as it was read.                                                *)
verify(d) == [k \in 1..4 |-> d[11 + k]] = WordBytes(compute_checksum(d))

-----------------------------------------------------------------------------
PageInit == /\ data = NewPage /\ image = NoImage /\ damage = NoDamage /\ verdict = "none"
            /\ accepted = <<>> /\ saved = <<>>

(* What was read from a damaged image is not used further. *)
Usable == verdict \in {"none", "short"} \/ damage = NoDamage

InsertRow(row) ==
  /\ Usable
  /\ IF Accepts(data, row)
       THEN data' = insert(data, row) /\ accepted' = Append(accepted, row)
       ELSE UNCHANGED <<data, accepted>>
  /\ UNCHANGED <<image, damage, verdict, saved>>

serialize == /\ Usable
             /\ data' = serialized(data)
             /\ image' = serialized(data)
             /\ saved' = accepted
             /\ damage' = NoDamage
             /\ UNCHANGED <<verdict, accepted>>

(* The medium changes one byte of the image. *)
Damage(i, byte) == /\ image # NoImage /\ damage = NoDamage /\ image[i] # byte
                   /\ damage' = [at |-> i, was |-> image[i]]
                   /\ image' = [image EXCEPT ![i] = byte]
                   /\ verdict' = "none"
                   /\ UNCHANGED <<data, accepted, saved>>

(* deserialize of the first bytes of the image, or of more than a page: only *)
(* a whole page is taken over, whatever its verdict, and its field cleared.  *)
deserialize(size) ==
  /\ image # NoImage /\ Usable
  /\ IF size # PAGE_BYTES
       THEN verdict' = "short" /\ UNCHANGED <<data, accepted>>
       ELSE /\ verdict' = IF verify(image) THEN "good" ELSE "bad"
            /\ data' = Write(image, 12, <<0, 0, 0, 0>>)
            /\ accepted' = saved
  /\ UNCHANGED <<image, damage, saved>>

PageNext == \/ \E row \in RowBytes : InsertRow(row)
            \/ serialize
            \/ \E i \in 0..(PAGE_BYTES - 1), byte \in BadBytes : Damage(i, byte)
            \/ \E size \in 0..(PAGE_BYTES + 1) : deserialize(size)

PageSpec == PageInit /\ [][PageNext]_pageVars

-----------------------------------------------------------------------------
(* Every row insert_row accepted reads back byte for byte, from the page    *)
(* and from its image, whatever was inserted behind it, written out and     *)
(* read in since: rows, slots and header never overwrite one another.  A    *)
(* page that was read in and not changed is written out as the same image,  *)
(* though deserialize leaves its checksum field cleared.                    *)
RowsReadBack ==
  /\ Usable => /\ num_slots(data) = Len(accepted)
               /\ \A k \in DOMAIN accepted : read(data, k - 1) = accepted[k]
  /\ image # NoImage /\ damage = NoDamage => \A k \in DOMAIN saved : read(image, k - 1) = saved[k]
  /\ Usable /\ image # NoImage /\ damage = NoDamage /\ accepted = saved => serialized(data) = image

(* How often the sum is shifted after byte i went in. *)
ShiftsBehind(i) == Cardinality(((i + 1)..(PAGE_BYTES - 1)) \ ChecksumField)

(* deserialize accepts an image nobody touched, and of a damaged one it     *)
(* notices what the 32-bit sum has not shifted out: a change in the field   *)
(* of the sum, or of a bit that the bytes behind it move up fewer than 32   *)
(* places, so every change in the last 25 bytes of the page.                *)
DamageNoticed ==
  verdict \in {"good", "bad"} =>
    /\ damage = NoDamage => verdict = "good"
    /\ \/ damage.at \in ChecksumField
       \/ /\ damage # NoDamage
          /\ \E b \in Xor(Bits(damage.was), Bits(image[damage.at])) : b + ShiftsBehind(damage.at) < 32
       => verdict = "bad"

(* "Checksum verification detects corruption" (docs/ARCHITECTURE_GUIDE.md): *)
(* an image with a changed byte is not accepted.  It does not hold: sum is  *)
(* shifted once a byte and has 32 bits, so a change in front of the last 32 *)
(* bytes, outside the field, leaves it as it was.                           *)
CorruptionDetected == verdict \in {"good", "bad"} /\ damage # NoDamage => verdict = "bad"
=============================================================================
