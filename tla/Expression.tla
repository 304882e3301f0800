----------------------------- MODULE Expression ------------------------------
(***************************************************************************)
(* The evaluation of an expression (executor/evaluate.rs), one node after  *)
(* another: the result of each operator or function is the first argument  *)
(* of the next.  An error ends the evaluation.  What a finished expression *)
(* is worth is then stored in a column, printed, or compared.              *)
(*                                                                         *)
(* The constants give the operands of each family of nodes.                *)
(***************************************************************************)
EXTENDS SqlFunctions

LOCAL INSTANCE FiniteSetsExt

CONSTANTS Families,     \* what kinds of expressions are evaluated
          Operands,     \* the Evaluateds an expression of each family starts from
          Nodes,        \* [op, rest]: the nodes of each family, by depth, with their other arguments
          Columns,      \* the types of the columns a result is stored in, by depth
          MaxDepth      \* how many nodes are evaluated

VARIABLES family, node, args, result, depth

exprVars == <<family, node, args, result, depth, left, right>>

(***************************************************************************)
(* evaluate_function: one family of functions each.  Every argument has    *)
(* been evaluated in order; a missing optional one is Absent.              *)
(***************************************************************************)
text_function(f, a) ==
    CASE f = "CONCAT" -> concat_fn(a)
      [] f = "CONCAT_WS" -> concat_ws(a[1], Tail(a))
      [] f = "LOWER" -> lower(a[1])
      [] f = "INITCAP" -> initcap(a[1])
      [] f = "UPPER" -> upper(a[1])
      [] f \in {"LEFT", "RIGHT"} -> left_or_right(f, a[1], a[2])
      [] f \in {"LPAD", "RPAD"} -> lpad_or_rpad(f, a[1], a[2], a[3])
      [] f = "TRIM" -> trim(a[1], a[2], a[3].value.type)
      [] f = "LTRIM" -> ltrim(a[1], a[2])
      [] f = "RTRIM" -> rtrim(a[1], a[2])
      [] f = "REVERSE" -> reverse(a[1])
      [] f = "REPEAT" -> repeat(a[1], a[2])
      [] f = "REPLACE" -> replace(a[1], a[2], a[3])
      [] f = "SUBSTR" -> substr(a[1], a[2], a[3])
      [] f = "ASCII" -> ascii(a[1])
      [] f = "CHR" -> chr(a[1])
      [] f = "MD5" -> md5(a[1])
      [] f = "HEX" -> hex(a[1])

float_function(f, a) ==
    CASE f = "ABS" -> abs(a[1])
      [] f = "SIGN" -> sign(a[1])
      [] f = "CEIL" -> ceil(a[1])
      [] f = "ROUND" -> round(a[1])
      [] f = "TRUNC" -> trunc(a[1])
      [] f = "FLOOR" -> floor(a[1])
      [] f = "SQRT" -> sqrt_fn(a[1])

integer_function(f, a) ==
    CASE f = "DIV" -> div(a[1], a[2])
      [] f = "MOD" -> Evaluated_modulo(a[1], a[2])
      [] f = "GCD" -> gcd(a[1], a[2])
      [] f = "LCM" -> lcm(a[1], a[2])

spatial_function(f, a) ==
    CASE f = "POINT" -> point(a[1], a[2])
      [] f = "GET_X" -> get_x(a[1])
      [] f = "GET_Y" -> get_y(a[1])
      [] f = "CALC_DISTANCE" -> calc_distance(a[1], a[2])

etc_function(f, a) ==
    CASE f = "GREATEST" -> greatest(a)
      [] f = "IFNULL" -> ifnull(a[1], a[2])
      [] f = "NULLIF" -> nullif(a[1], a[2])
      [] f = "COALESCE" -> coalesce(a)
      [] f = "UNWRAP" -> unwrap(a[1], a[2].value.s)
      [] f = "FORMAT" -> format(a[1], a[2])
      [] f = "LAST_DAY" -> last_day(a[1])
      [] f = "TO_DATE" -> to_date(a[1], a[2])
      [] f = "TO_TIMESTAMP" -> to_timestamp(a[1], a[2])
      [] f = "TO_TIME" -> to_time(a[1], a[2])
      [] f = "POSITION" -> position_fn(a[1], a[2])
      [] f = "FIND_IDX" -> find_idx_fn(a[1], a[2], a[3])
      [] f = "CAST" -> Evaluated_cast(a[2].value.type, a[1])
      [] f = "EXTRACT" -> extract_fn(a[2].value.type, a[1])

list_function(f, a) ==
    CASE f = "APPEND" -> append(a[1], a[2])
      [] f = "PREPEND" -> prepend(a[1], a[2])
      [] f = "SKIP" -> skip(a[1], a[2])
      [] f = "SORT" -> sort(a[1], a[2])
      [] f = "TAKE" -> take(a[1], a[2])
      [] f = "SLICE" -> slice(a[1], a[2], a[3])
      [] f = "IS_EMPTY" -> is_empty(a[1])
      [] f = "ADD_MONTH" -> add_month(a[1], a[2])
      [] f = "LENGTH" -> length(a[1])
      [] f = "ENTRIES" -> entries(a[1])
      [] f = "KEYS" -> keys(a[1])
      [] f = "VALUES" -> values(a[1])
      [] f = "SPLICE" -> splice(a[1], a[2], a[3], a[4])
      [] f = "DEDUP" -> dedup(a[1])

TextFunctions == {"CONCAT", "CONCAT_WS", "LOWER", "INITCAP", "UPPER", "LEFT", "RIGHT", "LPAD", "RPAD", "TRIM", "LTRIM",
                  "RTRIM", "REVERSE", "REPEAT", "REPLACE", "SUBSTR", "ASCII", "CHR", "MD5", "HEX"}
FloatFunctions == {"ABS", "SIGN", "CEIL", "ROUND", "TRUNC", "FLOOR", "SQRT"}
IntegerFunctions == {"DIV", "MOD", "GCD", "LCM"}
SpatialFunctions == {"POINT", "GET_X", "GET_Y", "CALC_DISTANCE"}
EtcFunctions == {"GREATEST", "IFNULL", "NULLIF", "COALESCE", "UNWRAP", "FORMAT", "LAST_DAY", "TO_DATE", "TO_TIMESTAMP",
                 "TO_TIME", "POSITION", "FIND_IDX", "CAST", "EXTRACT"}
ListFunctions == {"APPEND", "PREPEND", "SKIP", "SORT", "TAKE", "SLICE", "IS_EMPTY", "ADD_MONTH", "LENGTH", "ENTRIES",
                  "KEYS", "VALUES", "SPLICE", "DEDUP"}

evaluate_function(f, a) ==
    CASE f \in TextFunctions -> text_function(f, a)
      [] f \in FloatFunctions -> float_function(f, a)
      [] f \in IntegerFunctions -> integer_function(f, a)
      [] f \in SpatialFunctions -> spatial_function(f, a)
      [] f \in EtcFunctions -> etc_function(f, a)
      [] f \in ListFunctions -> list_function(f, a)

\* The other nodes of an expression; a negated one is written with NOT.
evaluate_node(op, a) ==
    CASE op \in UnaryOperator /\ Len(a) = 1 -> unary_op(op, a[1])
      [] op \in BinaryOperator /\ Len(a) = 2 -> binary_op(op, a[1], a[2])
      [] op \in {"BETWEEN", "NOT BETWEEN"} -> between(a[1], op = "NOT BETWEEN", a[2], a[3])
      [] op \in {"IN", "NOT IN"} -> InList(a[1], Tail(a), op = "NOT IN")
      [] op \in {"LIKE", "NOT LIKE"} -> Like(a[1], a[2], op = "NOT LIKE")
      [] op \in {"ILIKE", "NOT ILIKE"} -> ILike(a[1], a[2], op = "NOT ILIKE")
      [] op = "IS NULL" -> IsNull(a[1])
      [] op = "IS NOT NULL" -> IsNotNull(a[1])
      [] op = "CASE" -> Case(a[1], <<a[2]>>, <<a[3]>>, a[4])
      [] op = "INDEX" -> array_index(a[1], Tail(a))
      [] op = "ARRAY" -> Array(a)
      [] op = "TYPED" -> typed_string(a[2].value.type, a[1].value)

Functions == TextFunctions \cup FloatFunctions \cup IntegerFunctions \cup SpatialFunctions \cup EtcFunctions \cup ListFunctions

evaluate_inner(op, a) == IF op \in Functions THEN evaluate_function(op, a) ELSE evaluate_node(op, a)

(***************************************************************************)
(* The evaluation, step by step.                                           *)
(***************************************************************************)
NoNode == [op |-> "none", rest |-> <<>>]

ExprInit ==
    /\ family \in Families
    /\ result \in Operands[family]
    /\ node = NoNode
    /\ args = <<>>
    /\ depth = 0
    /\ left = Null
    /\ right = Null

\* The values two arguments have, side by side.
SideBySide(a) ==
    /\ left' = to_Value(a[1])
    /\ right' = IF Len(a) > 1 THEN to_Value(a[2]) ELSE Null

Evaluate(n) ==
    /\ ~Failed(result)
    /\ depth < MaxDepth[family]
    /\ node' = n
    /\ args' = <<result>> \o n.rest
    /\ result' = evaluate_inner(n.op, args')
    /\ depth' = depth + 1
    /\ SideBySide(args')
    /\ UNCHANGED family

\* A column of type t takes the expression's result (INSERT, UPDATE).
Store(t) ==
    /\ ~Failed(result)
    /\ depth < MaxDepth[family]
    /\ node' = [op |-> "STORE", rest |-> <<Val(Mark(t))>>]
    /\ args' = <<result>>
    /\ result' = Val(try_into_value(t, TRUE, result))
    /\ depth' = MaxDepth[family]
    /\ SideBySide(args')
    /\ UNCHANGED family

ExprNext ==
    \/ \E n \in Nodes[family][depth + 1] : Evaluate(n)
    \/ \E t \in Columns[family][depth + 1] : Store(t)

ExprSpec == ExprInit /\ [][ExprNext]_exprVars

(***************************************************************************)
(* What the evaluation promises.                                           *)
(***************************************************************************)
Done(ops) == node.op \in ops /\ ~Failed(result)
Values2 == Len(args) = 2 /\ args[1].kind = "Value" /\ args[2].kind = "Value"
Number2 == Values2 /\ {left.type, right.type} \subseteq Numeric /\ ~IsNaN(left) /\ ~IsNaN(right)

\* q is a / b and r is a % b, both toward zero.
Divides(a, b, q, r) == a = b * q + r /\ Abs(r) < Abs(b) /\ r * a >= 0
InOrder(op, a, b, n) ==
    CASE op = "Plus" -> n = a + b
      [] op = "Minus" -> n = a - b
      [] op = "Multiply" -> n = a * b
      [] op = "Divide" -> Divides(a, b, n, a - b * n)
      [] op = "Modulo" -> (a - n) % Abs(b) = 0 /\ Abs(n) < Abs(b) /\ n * a >= 0

(***************************************************************************)
(* Arithmetic on integers is exact: the result has the left operand's type *)
(* and is the true sum, difference, product, quotient or remainder of it   *)
(* and the right operand truncated; a sum or difference on a float or a    *)
(* Decimal is exact too.  What does not fit is an error, never a wrapped   *)
(* number (value.rs add..modulo, binary_op/).                              *)
(***************************************************************************)
ArithmeticExact ==
    Number2 /\ Done(Arithmetic) =>
        LET v == result.value
        IN  CASE left.type \in Integer ->
                    v.type = left.type /\ Fits(v.type, v.n) /\ InOrder(node.op, left.n, Trunc(Scaled(right)), v.n)
              [] node.op \in {"Plus", "Minus"} -> InOrder(node.op, left.n, Scaled(right), v.n)
              [] OTHER -> TRUE

\* A Decimal equals no literal, although it has an order with one.
DecimalAndLiteral(l, r) ==
    (l.kind = "Value" /\ l.value.type = "Decimal" /\ r.kind = "Number")
    \/ (r.kind = "Value" /\ r.value.type = "Decimal" /\ l.kind = "Number")
Orderly(v) == HasBytes(v) \/ (v.type \in Float /\ v.s = <<>>)

(***************************************************************************)
(* The three ways two operands are compared agree: where they have an      *)
(* order, = holds exactly when it is Equal; and on two values of one type  *)
(* the order of WHERE (evaluate_cmp) is the order of ORDER BY and of the   *)
(* indexes (Key's Ord).                                                    *)
(***************************************************************************)
ComparisonsAgree ==
    Done({"Eq"}) =>
        LET order == Evaluated_cmp(args[1], args[2])
        IN  /\ order # "None" /\ ~DecimalAndLiteral(args[1], args[2])
               => (order = "Equal") = (Evaluated_eq(args[1], args[2]) = "True")
            /\ left.type = right.type /\ order # "None" /\ Orderly(left) /\ Orderly(right)
               => order = key_cmp(left, right)

(***************************************************************************)
(* A value printed as text and cast back is the same value (convert.rs,    *)
(* interval/string.rs and Interval::try_from_str).  An interval of the     *)
(* smallest number prints as nothing: its absolute value overflows.        *)
(***************************************************************************)
Printed(v) == v.type \notin {"Null", "Str", "Map", "List", "Absent"} /\ v.type \in ColumnTypes
Smallest(v) == v.type = "Interval" /\ v.n = MinOf(Cell(v))
TextRoundTrip ==
    Printed(left) /\ ~Smallest(left) => value_eq(cast(left.type, to_String(left)), left)

(***************************************************************************)
(* Equal values hash alike (impl PartialEq and impl Hash for Value): a     *)
(* GROUP BY or DISTINCT never splits a group.                              *)
(***************************************************************************)
HashAgrees == value_eq(left, right) => value_hash(left) = value_hash(right)

\* Every number inside v is one an I64 or an F64 holds.
RECURSIVE JsonExact(_)
JsonExact(v) ==
    CASE v.type \in Integer \cup {"Decimal"} -> Scaled(v) % Scale = 0 => Fits("I64", Trunc(Scaled(v)))
      [] v.type \in {"List", "Map", "Entry"} -> \A i \in DOMAIN v.s : JsonExact(v.s[i])
      [] OTHER -> TRUE

(***************************************************************************)
(* A List or Map written as JSON, read and written again is the same JSON: *)
(* the types widen once (json.rs), the text never drifts.  Whole numbers   *)
(* beyond an i64 are left out: they come back as floats.                   *)
(***************************************************************************)
JsonRewriteStable ==
    left.type \in {"List", "Map"} /\ JsonExact(left) =>
        LET j == Value_to_json(left) IN IsErr(j) \/ Value_to_json(json_to_Value(j)) = j

Months(day) == YearOf(day) * 12 + MonthOf(day)

(***************************************************************************)
(* Adding an interval to a date, a time or another interval and taking it  *)
(* away again gives back the first; adding months keeps the day and moves  *)
(* the month by exactly that many, or fails (interval.rs).                 *)
(***************************************************************************)
DateArithmetic ==
    Done({"Plus"}) /\ Values2 /\ right.type = "Interval" /\ left # Null =>
        LET v == result.value
            back == subtract(v, right)
            before == IF left.type = "Date" THEN Midnight(left.n) ELSE left
        IN  /\ IsErr(back) \/ back = before
            /\ before.type = "Timestamp" /\ KindOf(right) = "Month" =>
                  /\ DayOf(DatePart(v)) = DayOf(DatePart(before))
                  /\ TimePart(v) = TimePart(before)
                  /\ Months(DatePart(v)) = Months(DatePart(before)) + right.n

(***************************************************************************)
(* CAST between numbers, and storing a number in a column, never changes a *)
(* whole number: it keeps it or fails (convert.rs, convert/number.rs).     *)
(***************************************************************************)
CastKeepsNumber ==
    Done({"CAST", "STORE"}) /\ left.type \in Numeric /\ ~IsNaN(left) /\ result.value.type \in Numeric =>
        IF result.value.type \in Integer /\ node.op = "CAST" THEN result.value.n = Trunc(Scaled(left))
        ELSE Scaled(result.value) = Scaled(left)

\* A Time as kept to the microsecond, or to the millisecond.
Coarse(v, ticks) == IF v.type = "Time" THEN [v EXCEPT !.n = v.n - (v.n % ticks)] ELSE v
StoredIn == node.rest[1].value.type

(***************************************************************************)
(* What parquet-storage writes for a value of a column it reads back as    *)
(* that value, a Time to the microsecond; only an unsigned number beyond   *)
(* the signed physical type is refused (store_mut.rs, value.rs).           *)
(***************************************************************************)
ParquetRoundTrip ==
    Done({"STORE"}) =>
        LET v == result.value
            cell == ParquetCell(StoredIn, v)
        IN  IF IsErr(cell) THEN \/ v.type = "U32" /\ ~Fits("I32", v.n)
                                \/ v.type = "U64" /\ ~Fits("I64", v.n)
            ELSE ParquetRead(StoredIn, cell) = Coarse(v, NANOS)

(***************************************************************************)
(* What mongo-storage writes for a value of a column its validator accepts *)
(* and it reads back as that value, a Time to the millisecond.  The values *)
(* inside a List or a Map are read by the column's type and may change     *)
(* once; read and written again they stay, in a column as in a table       *)
(* without a schema (row/value.rs, data_type.rs).                          *)
(* A large F32 and the smallest Interval are refused.                      *)
(***************************************************************************)
MongoRoundTrip ==
    Done({"STORE"}) =>
        LET v == result.value
            t == StoredIn
            cell == MongoCell(t, v)
            read == MongoRead(t, cell)
            bare == SchemalessRead(into_bson(v))
        IN  /\ IsErr(bare) \/ SchemalessRead(into_bson(bare)) = bare
            /\ CASE IsErr(cell) -> Smallest(v) \/ v.type \in {"F32", "List", "Map"}
                 [] t \in {"List", "Map"} -> IsErr(read) \/ MongoRead(t, MongoCell(t, read)) = read
                 [] OTHER -> read = Coarse(v, MilliTicks)

(***************************************************************************)
(* The functions on texts against what they mean.                          *)
(***************************************************************************)
Chars(e) == Codes(to_Value(e))
Whole(e) == e.kind \in {"Text", "Value"} /\ e.value.type = "Str"
CharSet(e) == IF e = Absent THEN {Space} ELSE {Chars(e)[i] : i \in DOMAIN Chars(e)}

\* s without the characters of `chars` it starts and ends with.
Stripped(s, chars, start, end) ==
    LET kept == {i \in DOMAIN s : s[i] \notin chars}
    IN  IF kept = {} THEN <<>>
        ELSE SubSeq(s, IF start THEN Min(kept) ELSE 1, IF end THEN Max(kept) ELSE Len(s))
\* A character to trim that is left between the kept ones.
Inside(s, chars) == \E i \in DOMAIN s : s[i] \in chars

SubstrOf(s, from, count) ==
    LET there == {i \in DOMAIN s : from <= i /\ i < from + count}
    IN  IF there = {} THEN <<>> ELSE SubSeq(s, Min(there), Max(there))

(***************************************************************************)
(* SUBSTR, LTRIM, RTRIM and TRIM of a whole text, and LTRIM of a slice of  *)
(* one, return the part SQL names, although each only moves the ends of a  *)
(* range of the source (evaluated.rs).  TRIM BOTH is left out where a      *)
(* trimmed character stands between kept ones: the code stops at it; and   *)
(* SUBSTR from before the first character without a count, which counts    *)
(* the length of the text from there.                                      *)
(***************************************************************************)
SlicesAgree ==
    /\ Done({"LTRIM"}) /\ result.kind = "StrSlice" =>
          Chars(result) = Stripped(Chars(args[1]), CharSet(args[2]), TRUE, FALSE)
    /\ Done({"RTRIM"}) /\ result.kind = "StrSlice" /\ Whole(args[1]) =>
          Chars(result) = Stripped(Chars(args[1]), CharSet(args[2]), FALSE, TRUE)
    /\ Done({"TRIM"}) /\ result.kind = "StrSlice" /\ Whole(args[1]) =>
          LET how == args[3].value.type
              s == Stripped(Chars(args[1]), CharSet(args[2]), how # "Trailing", how # "Leading")
          IN  how = "None" \/ (how = "Both" /\ Inside(s, CharSet(args[2]))) \/ Chars(result) = s
    /\ Done({"SUBSTR"}) /\ result.kind = "StrSlice" /\ Whole(args[1]) =>
          LET s == Chars(args[1])
              from == to_Value(args[2]).n
          IN  IF args[3] # Absent THEN Chars(result) = SubstrOf(s, from, to_Value(args[3]).n)
              ELSE from >= 1 => Chars(result) = SubstrOf(s, from, Len(s))

\* The pattern cut into pieces of the text, one for each of its characters.
LikeOf(text, pattern) ==
    \E cut \in [0..Len(pattern) -> 0..Len(text)] :
        /\ cut[0] = 0
        /\ cut[Len(pattern)] = Len(text)
        /\ \A i \in 1..Len(pattern) :
              /\ cut[i - 1] <= cut[i]
              /\ pattern[i] # Percent => cut[i] = cut[i - 1] + 1
              /\ pattern[i] \notin {Percent, Underscore} => text[cut[i]] = pattern[i]

(***************************************************************************)
(* LIKE matches exactly the texts the pattern can be cut into: % any run,  *)
(* _ one character, every other character itself (string_ext.rs).  A text  *)
(* with a line break is left out: neither % nor _ matches one.             *)
(***************************************************************************)
LikeAgrees ==
    Done({"LIKE", "ILIKE"}) /\ left.type = "Str" /\ right.type = "Str" =>
        LET F(codes) == [i \in DOMAIN codes |-> IF node.op = "ILIKE" THEN LowerCase(codes[i]) ELSE codes[i]]
            text == F(Codes(left))
            pattern == F(Codes(right))
        IN  (\A i \in DOMAIN text : text[i] # Newline) => result.value = Bool(LikeOf(text, pattern))

OccursAt(s, sub, i) == \A k \in DOMAIN sub : i + k - 1 \in DOMAIN s /\ s[i + k - 1] = sub[k]

(***************************************************************************)
(* POSITION and FIND_IDX return the first place, from the offset on, at    *)
(* which the other text occurs, counted from 1 in the whole text, and 0    *)
(* when there is none (value.rs position, find_idx, str_position).         *)
(***************************************************************************)
SearchAgrees ==
    Done({"POSITION", "FIND_IDX"}) /\ result.value # Null =>
        LET s == Codes(left)
            sub == Codes(right)
            from == IF node.op = "FIND_IDX" /\ args[3] # Absent THEN to_Value(args[3]).n ELSE 1
            places == {i \in DOMAIN s : i >= from /\ OccursAt(s, sub, i)}
        IN  result.value.n = IF sub = <<>> \/ places = {} THEN 0 ELSE Min(places)

(***************************************************************************)
(* LPAD and RPAD return exactly the length asked for, the text kept whole  *)
(* when there is room and the fill repeated in order; LEFT and RIGHT of    *)
(* complementary lengths split the text (function.rs).                     *)
(***************************************************************************)
PadAgrees ==
    /\ Done({"LPAD", "RPAD"}) /\ result.value # Null =>
          LET s == Codes(left)
              r == Codes(result.value)
              n == to_Value(args[2]).n
              fill == IF args[3] = Absent THEN <<Space>> ELSE Chars(args[3])
              gap == n - Len(s)
              shift == IF node.op = "LPAD" THEN gap ELSE 0
          IN  /\ Len(r) = n
              /\ gap <= 0 => r = SubSeq(s, 1, n)
              /\ gap > 0 => /\ \A i \in DOMAIN s : r[i + shift] = s[i]
                            /\ \A i \in 1..gap : r[i + (IF node.op = "LPAD" THEN 0 ELSE Len(s))] = fill[((i - 1) % Len(fill)) + 1]
    /\ Done({"LEFT"}) /\ result.value # Null /\ to_Value(args[2]).n <= Len(left.s) =>
          LET rest == left_or_right("RIGHT", args[1], Val(Plain("I64", Len(left.s) - to_Value(args[2]).n)))
          IN  result.value.s \o rest.value.s = left.s

(***************************************************************************)
(* The functions on lists against what they mean: SLICE and SPLICE by      *)
(* position, SORT a sorted permutation, DEDUP without equal neighbours and *)
(* without losing a value, TAKE followed by SKIP the whole list            *)
(* (function.rs).                                                          *)
(***************************************************************************)
ListFunctionsAgree ==
    Done({"SLICE", "SPLICE", "SORT", "DEDUP", "TAKE"}) /\ left.type = "List" /\ result.value # Null =>
        LET s == left.s
            r == result.value.s
            Arg(i) == to_Value(args[i]).n
            Between(i, from, to) == from <= i /\ i < to
            Count(seq, v) == Cardinality({i \in DOMAIN seq : seq[i] = v})
        IN  CASE node.op = "SLICE" ->
                    LET from == IF Arg(2) >= 0 THEN Arg(2) ELSE IF Arg(2) + Len(s) < 0 THEN 0 ELSE Arg(2) + Len(s)
                        there == {i \in DOMAIN s : Between(i - 1, from, from + Arg(3))}
                    IN  /\ Len(r) = Cardinality(there)
                        /\ there # {} => \A k \in DOMAIN r : r[k] = s[Min(there) + k - 1]
              [] node.op = "SPLICE" ->
                    LET center == IF args[4] = Absent THEN <<>> ELSE to_Value(args[4]).s
                        head == SelectSeq([i \in DOMAIN s |-> <<i, s[i]>>], LAMBDA p : p[1] - 1 < Arg(2))
                        tail == SelectSeq([i \in DOMAIN s |-> <<i, s[i]>>], LAMBDA p : p[1] - 1 >= Arg(3))
                        Second(seq) == [i \in DOMAIN seq |-> seq[i][2]]
                    IN  r = Second(head) \o center \o Second(tail)
              [] node.op = "SORT" ->
                    /\ \A i \in DOMAIN s : Count(r, s[i]) = Count(s, s[i])
                    /\ Len(r) = Len(s)
                    /\ \A i, j \in DOMAIN r :
                          i < j => key_cmp(r[i], r[j]) # (IF args[2] # Absent /\ args[2].value = DescText THEN "Less" ELSE "Greater")
              [] node.op = "DEDUP" ->
                    /\ \A i \in 2..Len(r) : ~value_eq(r[i], r[i - 1])
                    /\ \A i \in DOMAIN s : \E k \in DOMAIN r : value_eq(r[k], s[i])
              [] node.op = "TAKE" -> r \o skip(args[1], args[2]).value.s = s

(***************************************************************************)
(* The properties of one kind together, as the runs check them.            *)
(***************************************************************************)
\* Arithmetic and CAST give the exact number or fail; they never return another
\* number (checked_* and number_to_value).
NumbersExact == ArithmeticExact /\ CastKeepsNumber

\* evaluate_eq, evaluate_cmp, PartialEq and Hash of Value agree with each other.
EqualityAgrees == ComparisonsAgree /\ HashAgrees


\* What the Parquet and the MongoDB storage write for a value of a column, they
\* read back as that value.
StoredReadsBack == ParquetRoundTrip /\ MongoRoundTrip

=============================================================================
