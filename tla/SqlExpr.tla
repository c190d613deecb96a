------------------------------- MODULE SqlExpr -------------------------------
(***************************************************************************)
(* QueryExecutor::evaluate_expression and evaluate_where_clause of         *)
(* src/src/query_executor_engine.cpp: what a syntax tree makes of a row.   *)
(* An exception is the value Throw, or the outcome "throw" of a condition. *)
(***************************************************************************)
EXTENDS SqlValue

(* Syntax: kind is "literal" (token, text), "id" (name), "unary" (op,      *)
(* operand) or "binary" (op, left, right).                                 *)
Literal(token, text) == [kind |-> "literal", token |-> token, text |-> text]
Identifier(name) == [kind |-> "id", name |-> name]
UnaryOp(op, e) == [kind |-> "unary", op |-> op, operand |-> e]
BinaryOp(op, l, r) == [kind |-> "binary", op |-> op, left |-> l, right |-> r]

(* The four operators on two values that are not NULL.  A text or a truth  *)
(* value throws bad_any_cast.  Two integers stay integers, except in a     *)
(* division, which rejects the divisor 0.                                  *)
Arithmetic(op, l, r) ==
  LET a == l.num  b == r.num
      sum(sign) == <<a[1] * b[2] + sign * b[1] * a[2], a[2] * b[2]>>
      typed(q) == IF l.type = "INT_VAL" /\ r.type = "INT_VAL" THEN Int64(q[1]) ELSE Double(q)
  IN  CASE ~Numeric(l) \/ ~Numeric(r) -> Throw
        [] op = "PLUS" -> typed(sum(1))
        [] op = "MINUS" -> typed(sum(-1))
        [] op = "MULTIPLY" -> typed(<<a[1] * b[1], a[2] * b[2]>>)
        [] op = "DIVIDE" -> IF b[1] = 0 THEN Throw
                            ELSE IF b[1] > 0 THEN Double(<<a[1] * b[2], a[2] * b[1]>>)
                            ELSE Double(<<-a[1] * b[2], -a[2] * b[1]>>)
        [] OTHER -> Throw

(* A number literal stays a text: only NULL is told apart. *)
RECURSIVE evaluate_expression(_, _)
evaluate_expression(e, row) ==
  CASE e.kind = "literal" -> IF e.token = "NULL_KEYWORD" THEN Null ELSE String(e.text)
    [] e.kind = "id" -> IF e.name \in DOMAIN row THEN row[e.name] ELSE Throw
    [] e.kind = "unary" ->
         LET v == evaluate_expression(e.operand, row)
         IN  IF e.op # "MINUS" \/ v = Throw THEN v
             ELSE IF ~Numeric(v) THEN Throw
             ELSE [v EXCEPT !.num = <<-@[1], @[2]>>]
    [] e.kind = "binary" ->
         LET l == evaluate_expression(e.left, row)
             r == evaluate_expression(e.right, row)
         IN  IF Throw \in {l, r} THEN Throw
             ELSE IF is_null(l) \/ is_null(r) THEN Null
             ELSE Arithmetic(e.op, l, r)

Outcome(b) == IF b THEN "true" ELSE "false"

(* =: only values of one type compare. *)
Equal(l, r) == l = r

(* <, <=, >, >=: integers, or anything next to a double, which then has to *)
(* be a number; every other pair compares as false.                        *)
Compare(op, l, r) ==
  CASE ~(l.type = "INT_VAL" /\ r.type = "INT_VAL") /\ "DOUBLE_VAL" \notin {l.type, r.type} -> "false"
    [] ~Numeric(l) \/ ~Numeric(r) -> "throw"
    [] op = "LESS" -> Outcome(Less(l.num, r.num))
    [] op = "LESS_EQUAL" -> Outcome(~Less(r.num, l.num))
    [] op = "GREATER" -> Outcome(Less(r.num, l.num))
    [] op = "GREATER_EQUAL" -> Outcome(~Less(l.num, r.num))

RECURSIVE evaluate_where_clause(_, _)
evaluate_where_clause(e, row) ==
  IF e.kind # "binary" THEN "throw"
  ELSE IF e.op \in {"AND", "OR"}
  THEN LET first == evaluate_where_clause(e.left, row)
       IN  IF first = "throw" \/ first = Outcome(e.op = "OR") THEN first
           ELSE evaluate_where_clause(e.right, row)
  ELSE LET l == evaluate_expression(e.left, row)
           r == evaluate_expression(e.right, row)
       IN  CASE Throw \in {l, r} -> "throw"
             [] is_null(l) \/ is_null(r) -> "false"
             [] e.op = "EQUALS" -> Outcome(Equal(l, r))
             [] e.op = "NOT_EQUALS" -> Outcome(~Equal(l, r))
             [] e.op \in {"LESS", "LESS_EQUAL", "GREATER", "GREATER_EQUAL"} -> Compare(e.op, l, r)
             [] OTHER -> "throw"
=============================================================================
