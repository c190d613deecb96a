------------------------------ MODULE SqlValue ------------------------------
(***************************************************************************)
(* struct Value of src/include/query_executor_engine.h and                 *)
(* QueryExecutor::convert_to_type: what a value is, how it prints, how it  *)
(* converts and how ORDER BY compares it.                                  *)
(*                                                                         *)
(* A value has a type, a number (numerator and denominator in lowest       *)
(* terms, so that doubles are exact) and a text; the field its type does   *)
(* not use is blank.  Throw stands for an exception.                       *)
(***************************************************************************)
EXTENDS Integers, Sequences, SequencesExt, FiniteSetsExt, TLC

CONSTANTS Numerals,   \* the numbers whose texts occur in the statements
          Collation   \* the texts that occur, in the order of std::string::compare

ASSUME ValueAssumption == Numerals \subseteq Int /\ Collation \in Seq(STRING)

Typed(type, num, text) == [type |-> type, num |-> num, text |-> text]

Reduced(q) == LET d == Max({k \in 1..q[2] : q[1] % k = 0 /\ q[2] % k = 0})
              IN  <<q[1] \div d, q[2] \div d>>

Null == Typed("NULL_VAL", <<0, 1>>, "")
Int64(n) == Typed("INT_VAL", <<n, 1>>, "")
Double(q) == Typed("DOUBLE_VAL", Reduced(q), "")
String(s) == Typed("STRING_VAL", <<0, 1>>, s)
Bool(b) == Typed("BOOL_VAL", IF b THEN <<1, 1>> ELSE <<0, 1>>, "")
Throw == Typed("throw", <<0, 1>>, "")

ValueTypes == {"NULL_VAL", "INT_VAL", "DOUBLE_VAL", "STRING_VAL", "BOOL_VAL"}

(* A value, as opposed to an exception: its number has a positive          *)
(* denominator.                                                            *)
IsValue(v) == /\ v = Typed(v.type, v.num, v.text)
              /\ v.type \in ValueTypes
              /\ v.num \in Int \X (Nat \ {0})

is_null(v) == v.type = "NULL_VAL"

Numeric(v) == v.type \in {"INT_VAL", "DOUBLE_VAL"}

(* A whole double prints as an integer; else the fraction stands for its   *)
(* six decimals.                                                           *)
to_string(v) ==
  CASE v.type = "NULL_VAL" -> "NULL"
    [] Numeric(v) -> IF v.num[2] = 1 THEN ToString(v.num[1]) ELSE ToString(v.num)
    [] v.type = "STRING_VAL" -> v.text
    [] v.type = "BOOL_VAL" -> IF v.num[1] = 1 THEN "true" ELSE "false"

(* std::stoll and std::stod, on the texts that occur. *)
Parsed(s) == {n \in Numerals : ToString(n) = s}

Truncated(q) == IF q[1] >= 0 THEN q[1] \div q[2] ELSE -((-q[1]) \div q[2])

convert_to_type(v, target) ==
  CASE is_null(v) -> Null
    [] target \in {"INT", "BIGINT"} /\ v.type = "DOUBLE_VAL" -> Int64(Truncated(v.num))
    [] target \in {"INT", "BIGINT"} /\ v.type = "STRING_VAL" ->
         IF Parsed(v.text) = {} THEN Throw ELSE Int64(CHOOSE n \in Parsed(v.text) : TRUE)
    [] target \in {"DOUBLE", "FLOAT"} /\ v.type = "INT_VAL" -> Double(v.num)
    [] target \in {"DOUBLE", "FLOAT"} /\ v.type = "STRING_VAL" ->
         IF Parsed(v.text) = {} THEN Throw ELSE Double(<<CHOOSE n \in Parsed(v.text) : TRUE, 1>>)
    [] target \in {"VARCHAR", "TEXT", "CHAR"} -> String(to_string(v))
    [] target = "BOOLEAN" /\ v.type = "INT_VAL" -> Bool(v.num[1] # 0)
    [] target = "BOOLEAN" /\ v.type = "STRING_VAL" -> Bool(v.text \in {"true", "1", "TRUE", "YES"})
    [] OTHER -> v

Less(a, b) == a[1] * b[2] < b[1] * a[2]

(* cmp < 0 in execute_select: only two integers, two doubles or two texts  *)
(* are told apart.                                                         *)
Below(v, w) ==
  /\ v.type = w.type
  /\ \/ Numeric(v) /\ Less(v.num, w.num)
     \/ v.type = "STRING_VAL" /\ SelectInSeq(Collation, LAMBDA s : s = v.text)
                               < SelectInSeq(Collation, LAMBDA s : s = w.text)
=============================================================================
