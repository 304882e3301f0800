------------------------------- MODULE Values -------------------------------
(***************************************************************************)
(* core/src/data/value.rs with value/convert.rs, value/binary_op/,         *)
(* value/json.rs, value/date.rs, value/uuid.rs, value/selector.rs and      *)
(* point.rs: conversion, comparison, arithmetic and equality of values.    *)
(* Floats are exact on the quarter grid: rounding and infinities are not   *)
(* modelled, NaN and minus zero are.                                       *)
(***************************************************************************)
EXTENDS Keys

LOCAL INSTANCE FiniteSetsExt

ConvertFailed == Err("ConvertFailed")
NonNumericMathOperation == Err("NonNumericMathOperation")
BinaryOperationOverflow == Err("BinaryOperationOverflow")
DivisorShouldNotBeZero == Err("DivisorShouldNotBeZero")

(***************************************************************************)
(* Text.  The text a value prints as holds one token: the value itself,    *)
(* with every number as Number and a Map or a List as Json.                *)
(***************************************************************************)
IsText(v) == v.type = "Str"
HasToken(v, type) == IsText(v) /\ Len(v.s) = 1 /\ v.s[1].type = type
Token(v) == v.s[1]
NumberText(q) == Text(Plain("Number", q))
PrintedInterval(token) == IF IsErr(token) THEN Panic ELSE Text(token)

(***************************************************************************)
(* json.rs                                                                 *)
(***************************************************************************)
\* A float is always printed with fractional digits.
RECURSIVE Value_to_json(_)
Value_to_json(v) ==
    CASE v.type \in Integer -> Plain("Number", v.n * Scale)
      [] v.type \in Float -> IF IsNaN(v) THEN Null ELSE Marked("Number", v.n, "Digit")
      [] v.type = "Decimal" -> IF v.n % Scale = 0 THEN Plain("Number", v.n) ELSE Marked("Number", v.n, "Digit")
      [] v.type \in {"Bytea", "Inet", "Date", "Time", "Uuid", "Point"} -> Text(v)
      [] v.type = "Timestamp" -> Text(Marked("Timestamp", v.n, "UTC"))
      [] v.type = "Interval" -> PrintedInterval(to_sql_str(v))
      [] v.type = "List" -> List([i \in DOMAIN v.s |-> Value_to_json(v.s[i])])
      [] v.type = "Map" -> Map([i \in DOMAIN v.s |-> Entry(v.s[i].s[1], Value_to_json(v.s[i].s[2]))])
      [] OTHER -> v

JsonNumber(j) ==
    IF j.s = <<>> /\ j.n % Scale = 0 /\ Fits("I64", Trunc(j.n)) THEN Plain("I64", Trunc(j.n)) ELSE Plain("F64", j.n)

RECURSIVE json_to_Value(_)
json_to_Value(j) ==
    CASE j.type = "Number" -> JsonNumber(j)
      [] j.type = "List" -> List([i \in DOMAIN j.s |-> json_to_Value(j.s[i])])
      [] j.type = "Map" -> Map([i \in DOMAIN j.s |-> Entry(j.s[i].s[1], json_to_Value(j.s[i].s[2]))])
      [] OTHER -> j

JsonText(j) == Text(Holding("Json", <<j>>))

parse_json_map(v) ==
    CASE ~HasToken(v, "Json") -> Err("InvalidJsonString")
      [] Token(v).s[1].type # "Map" -> Err("JsonObjectTypeRequired")
      [] OTHER -> json_to_Value(Token(v).s[1])

parse_json_list(v) ==
    CASE ~HasToken(v, "Json") -> Err("InvalidJsonString")
      [] Token(v).s[1].type # "List" -> Err("JsonArrayTypeRequired")
      [] OTHER -> json_to_Value(Token(v).s[1])

(***************************************************************************)
(* convert.rs, date.rs, uuid.rs, point.rs                                  *)
(***************************************************************************)
\* impl From<&Value> for String
to_String(v) ==
    CASE v.type = "Str" -> v
      [] v.type \in Integer -> NumberText(v.n * Scale)
      [] IsNaN(v) -> Text(Mark("NaN"))
      [] v.type \in Float \cup {"Decimal"} -> NumberText(v.n)
      [] v.type = "Interval" -> PrintedInterval(to_sql_str(v))
      [] v.type \in {"Map", "List"} -> JsonText(Value_to_json(v))
      [] OTHER -> Text(v)

to_bool(v) ==
    CASE v.type = "Bool" -> v
      [] v.type \in Numeric /\ ~IsNaN(v) /\ Scaled(v) \in {0, Scale} -> Bool(Scaled(v) = Scale)
      [] HasToken(v, "Bool") -> Token(v)
      [] OTHER -> ConvertFailed

\* to_i8() and its kin truncate a float; parse::<i8>() takes whole numbers only.
\* to_u8() of a negative Decimal fails even where it truncates to zero.
Convertible(t, v) ==
    CASE v.type = "Bool" -> TRUE
      [] v.type = "Decimal" -> v.n < 0 => t \notin Unsigned
      [] v.type \in Numeric -> ~IsNaN(v)
      [] OTHER -> HasToken(v, "Number") /\ Token(v).n % Scale = 0 /\ Token(v).s = <<>>
WholePart(v) ==
    CASE v.type = "Bool" -> v.n
      [] v.type \in Numeric -> Trunc(Scaled(v))
      [] OTHER -> Trunc(Token(v).n)
Fitting(t, n) == IF Fits(t, n) THEN Plain(t, n) ELSE ConvertFailed
ToInteger(t, v) == IF Convertible(t, v) THEN Fitting(t, WholePart(v)) ELSE ConvertFailed

to_i8(v) == ToInteger("I8", v)
to_i16(v) == ToInteger("I16", v)
to_i32(v) == ToInteger("I32", v)
to_i64(v) == ToInteger("I64", v)
to_i128(v) == ToInteger("I128", v)
to_u8(v) == ToInteger("U8", v)
to_u16(v) == ToInteger("U16", v)
to_u32(v) == IF v.type = "Inet" /\ IsMarked(v, "V4") THEN Plain("U32", v.n) ELSE ToInteger("U32", v)
to_u64(v) == ToInteger("U64", v)
to_u128(v) ==
    IF v.type = "Uuid" \/ (v.type = "Inet" /\ IsMarked(v, "V6")) THEN Plain("U128", v.n)
    ELSE ToInteger("U128", v)

ToFloat(t, v) ==
    CASE v.type = t -> v
      [] v.type = "Bool" -> Plain(t, v.n * Scale)
      [] v.type \in Numeric /\ ~IsNaN(v) -> [type |-> t, n |-> Scaled(v), s |-> IF v.type \in Float THEN v.s ELSE <<>>]
      [] HasToken(v, "Number") -> Plain(t, Token(v).n)
      [] HasToken(v, "NaN") -> NaN(t)
      [] OTHER -> ConvertFailed
to_f32(v) == ToFloat("F32", v)
to_f64(v) == ToFloat("F64", v)

to_decimal(v) ==
    LET q == CASE v.type = "Bool" -> v.n * Scale
               [] v.type \in Numeric -> Scaled(v)
               [] HasToken(v, "Number") -> Token(v).n
               [] OTHER -> 0
    IN  IF v.type \in Numeric \cup {"Bool"} /\ ~IsNaN(v) /\ Abs(q) <= DecimalMax THEN Plain("Decimal", q)
        ELSE IF HasToken(v, "Number") /\ Abs(q) <= DecimalMax THEN Plain("Decimal", q)
        ELSE ConvertFailed

\* A token parses as the type that printed it; a Date text is also a Timestamp.
Parsed(v, type) == IF HasToken(v, type) THEN Plain(type, Token(v).n) ELSE ConvertFailed

parse_date(v) == Parsed(v, "Date")
parse_time(v) == Parsed(v, "Time")
parse_timestamp(v) == IF HasToken(v, "Date") THEN Midnight(Token(v).n) ELSE Parsed(v, "Timestamp")
parse_uuid(v) == IF HasToken(v, "Uuid") THEN Token(v) ELSE Err("FailedToParseUUID")
from_wkt(v) == IF HasToken(v, "Point") THEN Token(v) ELSE ConvertFailed
parse_interval(v) == IF HasToken(v, "IntervalText") THEN try_from_str(Token(v)) ELSE Err("Parser")

to_NaiveDate(v) ==
    CASE v.type = "Date" -> v
      [] v.type = "Timestamp" -> Plain("Date", DatePart(v))
      [] OTHER -> parse_date(v)
to_NaiveTime(v) == IF v.type = "Time" THEN v ELSE parse_time(v)
to_NaiveDateTime(v) ==
    CASE v.type = "Timestamp" -> v
      [] v.type = "Date" -> Midnight(v.n)
      [] OTHER -> parse_timestamp(v)
to_IpAddr(v) ==
    CASE v.type = "Inet" -> v
      [] HasToken(v, "Inet") -> Token(v)
      [] OTHER -> ConvertFailed
to_Point(v) == IF v.type = "Point" THEN v ELSE from_wkt(v)

to_int(t, v) ==
    CASE t = "I8" -> to_i8(v)
      [] t = "I16" -> to_i16(v)
      [] t = "I32" -> to_i32(v)
      [] t = "I64" -> to_i64(v)
      [] t = "I128" -> to_i128(v)
      [] t = "U8" -> to_u8(v)
      [] t = "U16" -> to_u16(v)
      [] t = "U32" -> to_u32(v)
      [] t = "U64" -> to_u64(v)
      [] t = "U128" -> to_u128(v)

AsUuid(v) == IF IsErr(v) THEN v ELSE Plain("Uuid", v.n)

\* Value::cast
cast(t, v) ==
    CASE v.type = t /\ t \notin {"Map", "List"} -> v
      [] v = Null -> Null
      [] t = "Bool" -> to_bool(v)
      [] t \in Integer -> to_int(t, v)
      [] t = "F32" -> to_f32(v)
      [] t = "F64" -> to_f64(v)
      [] t = "Decimal" -> to_decimal(v)
      [] t = "Str" -> to_String(v)
      [] t = "Date" -> to_NaiveDate(v)
      [] t = "Time" -> to_NaiveTime(v)
      [] t = "Timestamp" -> to_NaiveDateTime(v)
      [] t = "Interval" /\ IsText(v) -> parse_interval(v)
      [] t = "Uuid" -> IF IsText(v) THEN parse_uuid(v) ELSE AsUuid(to_u128(v))
      [] t = "Inet" -> to_IpAddr(v)
      [] t = "Point" -> to_Point(v)
      [] t = "Bytea" /\ IsText(v) -> IF HasToken(v, "Bytea") THEN Token(v) ELSE Err("CastFromHexToByteaFailed")
      [] t = "List" /\ IsText(v) -> parse_json_list(v)
      [] t = "Map" /\ IsText(v) -> parse_json_map(v)
      [] OTHER -> Err("UnimplementedCast")

validate_type(t, v) == IF v = Null \/ v.type = t THEN Bool(TRUE) ELSE Err("IncompatibleDataType")
validate_null(nullable, v) == IF ~nullable /\ v = Null THEN Err("NullValueOnNotNullField") ELSE Bool(TRUE)

(***************************************************************************)
(* Equality and order.  An ordering is "Less", "Equal", "Greater" or, when *)
(* partial_cmp has none, "None".                                           *)
(***************************************************************************)
Tribool(b) == IF b THEN "True" ELSE "False"

Canonical(v) ==
    CASE IsNaN(v) -> NaN(v.type)
      [] v.type \in Float -> Plain(v.type, v.n)
      [] OTHER -> v

\* impl PartialEq for Value
RECURSIVE value_eq(_, _)
value_eq(a, b) ==
    CASE a.type # b.type -> FALSE
      [] a.type \in Float -> Canonical(a) = Canonical(b)
      [] a.type = "Point" -> a.n = b.n /\ Canonical(a.s[1]) = Canonical(b.s[1])
      [] a.type \in {"List", "Map", "Entry"} ->
            Len(a.s) = Len(b.s) /\ \A i \in DOMAIN a.s : value_eq(a.s[i], b.s[i])
      [] OTHER -> a = b

\* impl Hash for Value: what is fed to the hasher.
\* Fault: the bits of a float are hashed as they are.
value_hash_bits(v) == v

RECURSIVE value_hash(_)
value_hash(v) ==
    CASE v.type \in Float -> Canonical(v)
      [] v.type \in {"Point", "List", "Map", "Entry"} -> [v EXCEPT !.s = [i \in DOMAIN v.s |-> value_hash(v.s[i])]]
      [] OTHER -> v

\* impl PartialEq<Value> / PartialOrd<Value> for the integer types
OrderOrNone(n, r) == IF IsErr(r) THEN "None" ELSE OrderOf(n, r.n)
integer_eq(l, other) == other.type # "Bool" /\ to_int(l.type, other) = l
\* Fault: a Bool is converted like a number.
integer_cmp_bool(l, other) == OrderOrNone(l.n, to_int(l.type, other))
integer_cmp(l, other) == IF other.type = "Bool" THEN "None" ELSE OrderOrNone(l.n, to_int(l.type, other))

\* Decimal::from_f64_retain
Retained(v) == ~IsNaN(v) /\ Abs(v.n) <= DecimalMax

\* impl PartialEq<Value> / PartialOrd<Value> for f32 and f64
float_eq(l, other) ==
    /\ other.type \in Numeric
    /\ ~IsNaN(l) /\ ~IsNaN(other)
    /\ other.type = "Decimal" => Retained(l)
    /\ l.n = Scaled(other)
float_cmp(l, other) ==
    IF other.type \in Numeric /\ ~IsNaN(l) /\ ~IsNaN(other) /\ (other.type = "Decimal" => Retained(l))
    THEN OrderOf(l.n, Scaled(other)) ELSE "None"
f32_eq(l, other) == float_eq(l, other)
f64_eq(l, other) == float_eq(l, other)
f32_cmp(l, other) == float_cmp(l, other)
f64_cmp(l, other) == float_cmp(l, other)

evaluate_eq(l, r) ==
    CASE l = Null \/ r = Null -> "Null"
      [] l.type \in Integer -> Tribool(integer_eq(l, r))
      [] l.type = "F32" -> Tribool(f32_eq(l, r))
      [] l.type = "F64" -> Tribool(f64_eq(l, r))
      [] l.type = "Date" /\ r.type = "Timestamp" -> Tribool(Midnight(l.n) = r)
      [] l.type = "Timestamp" /\ r.type = "Date" -> Tribool(l = Midnight(r.n))
      [] OTHER -> Tribool(value_eq(l, r))

evaluate_cmp(l, r) ==
    CASE l.type \in Integer -> integer_cmp(l, r)
      [] l.type = "F32" -> f32_cmp(l, r)
      [] l.type = "F64" -> f64_cmp(l, r)
      [] l.type = "Date" /\ r.type = "Timestamp" -> OrderOf(l.n * DayTicks, r.n)
      [] l.type = "Timestamp" /\ r.type = "Date" -> OrderOf(l.n, r.n * DayTicks)
      [] l.type # r.type -> "None"
      [] l.type \in {"Decimal", "Bool", "Date", "Timestamp", "Time", "Uuid"} -> OrderOf(l.n, r.n)
      [] l.type \in {"Str", "Bytea"} -> Lexical(Codes(l), Codes(r))
      [] l.type = "Inet" -> InetCmp(l, r)
      [] l.type = "Interval" -> interval_cmp(l, r)
      [] OTHER -> "None"

is_zero(v) == v.type \in Numeric /\ ~IsNaN(v) /\ v.n = 0

(***************************************************************************)
(* Arithmetic: binary_op/integer/macros.rs, f32.rs, f64.rs, decimal.rs.    *)
(***************************************************************************)
\* The exact result on two numbers that count units-ths of one.
Exact(op, a, b, units) ==
    CASE op = "Add" -> a + b
      [] op = "Subtract" -> a - b
      [] op = "Multiply" -> Quot(a * b, units)
      [] op = "Divide" -> Quot(a * units, b)
      [] op = "Modulo" -> Rem(a, b)
NeedsDivisor(op) == op \in {"Divide", "Modulo"}

\* checked_add, checked_sub, checked_mul, checked_div, checked_rem; MIN % -1
\* has no checked result although its remainder is 0.
\* Fault: the overflow check is missing.
InRangeWrapped(t, n) == Plain(t, Wrap(t, n))
InRange(t, n) == IF Fits(t, n) THEN Plain(t, n) ELSE BinaryOperationOverflow
CheckedInteger(op, t, a, b) ==
    CASE NeedsDivisor(op) /\ b = 0 -> BinaryOperationOverflow
      [] op = "Modulo" /\ a = MinOf(t) /\ b = -1 -> BinaryOperationOverflow
      [] OTHER -> InRange(t, Exact(op, a, b, 1))

impl_interval_method(op, lhs, rhs) == IF op = "Multiply" THEN mul_interval(lhs, rhs) ELSE NonNumericMathOperation

\* rhs has been converted to the type of lhs.
WithInteger(op, lhs, r) == IF IsErr(r) THEN r ELSE CheckedInteger(op, lhs.type, lhs.n, r.n)

impl_method(op, lhs, rhs) ==
    CASE rhs.type \in Numeric -> WithInteger(op, lhs, to_int(lhs.type, rhs))
      [] rhs = Null -> Null
      [] rhs.type = "Interval" -> impl_interval_method(op, lhs, rhs)
      [] OTHER -> NonNumericMathOperation

impl_try_binary_op(op, lhs, rhs) == impl_method(op, lhs, rhs)

\* Decimal's own operators panic, its checked_* methods return None.
WithinDecimal(q, overflow) == IF Abs(q) > DecimalMax THEN overflow ELSE Plain("Decimal", q)
CheckedDecimal(op, a, b, overflow) ==
    IF NeedsDivisor(op) /\ b = 0 THEN overflow ELSE WithinDecimal(Exact(op, a, b, Scale), overflow)

FloatOp(op, lhs, rhs) ==
    CASE rhs.type \in Integer \cup Float ->
            IF IsNaN(lhs) \/ IsNaN(rhs) THEN NaN(lhs.type)
            ELSE Plain(lhs.type, Exact(op, lhs.n, Scaled(rhs), Scale))
      [] rhs.type = "Decimal" ->
            IF ~Retained(lhs) THEN Err("FloatToDecimalConversionFailure")
            ELSE CheckedDecimal(op, lhs.n, rhs.n, IF op = "Modulo" THEN BinaryOperationOverflow ELSE Panic)
      [] rhs = Null -> Null
      [] OTHER -> NonNumericMathOperation
FloatTimes(lhs, rhs) == IF rhs.type = "Interval" THEN mul_interval(lhs, rhs) ELSE FloatOp("Multiply", lhs, rhs)

f32_try_add(lhs, rhs) == FloatOp("Add", lhs, rhs)
f32_try_subtract(lhs, rhs) == FloatOp("Subtract", lhs, rhs)
f32_try_multiply(lhs, rhs) == FloatTimes(lhs, rhs)
f32_try_divide(lhs, rhs) == FloatOp("Divide", lhs, rhs)
f32_try_modulo(lhs, rhs) == FloatOp("Modulo", lhs, rhs)
f64_try_add(lhs, rhs) == FloatOp("Add", lhs, rhs)
f64_try_subtract(lhs, rhs) == FloatOp("Subtract", lhs, rhs)
f64_try_multiply(lhs, rhs) == FloatTimes(lhs, rhs)
f64_try_divide(lhs, rhs) == FloatOp("Divide", lhs, rhs)
f64_try_modulo(lhs, rhs) == FloatOp("Modulo", lhs, rhs)

\* Decimal has no case for I16, and Decimal::from(i128) panics out of range.
DecimalOp(op, lhs, rhs) ==
    CASE rhs.type \in (Integer \ {"I16"}) \cup {"Decimal"} ->
            IF Abs(Scaled(rhs)) > DecimalMax THEN Panic
            ELSE CheckedDecimal(op, lhs.n, Scaled(rhs), BinaryOperationOverflow)
      [] rhs.type \in Float ->
            IF ~Retained(rhs) THEN Err("FloatToDecimalConversionFailure")
            ELSE CheckedDecimal(op, lhs.n, rhs.n, BinaryOperationOverflow)
      [] rhs = Null -> Null
      [] OTHER -> NonNumericMathOperation

decimal_try_add(lhs, rhs) == DecimalOp("Add", lhs, rhs)
decimal_try_subtract(lhs, rhs) == DecimalOp("Subtract", lhs, rhs)
decimal_try_multiply(lhs, rhs) == DecimalOp("Multiply", lhs, rhs)
decimal_try_divide(lhs, rhs) == DecimalOp("Divide", lhs, rhs)
decimal_try_modulo(lhs, rhs) == DecimalOp("Modulo", lhs, rhs)

TryAdd(l, r) ==
    CASE l.type \in Integer -> impl_try_binary_op("Add", l, r)
      [] l.type = "F32" -> f32_try_add(l, r)
      [] l.type = "F64" -> f64_try_add(l, r)
      [] l.type = "Decimal" -> decimal_try_add(l, r)
TrySubtract(l, r) ==
    CASE l.type \in Integer -> impl_try_binary_op("Subtract", l, r)
      [] l.type = "F32" -> f32_try_subtract(l, r)
      [] l.type = "F64" -> f64_try_subtract(l, r)
      [] l.type = "Decimal" -> decimal_try_subtract(l, r)
TryMultiply(l, r) ==
    CASE l.type \in Integer -> impl_try_binary_op("Multiply", l, r)
      [] l.type = "F32" -> f32_try_multiply(l, r)
      [] l.type = "F64" -> f64_try_multiply(l, r)
      [] l.type = "Decimal" -> decimal_try_multiply(l, r)
TryDivide(l, r) ==
    CASE l.type \in Integer -> impl_try_binary_op("Divide", l, r)
      [] l.type = "F32" -> f32_try_divide(l, r)
      [] l.type = "F64" -> f64_try_divide(l, r)
      [] l.type = "Decimal" -> decimal_try_divide(l, r)
TryModulo(l, r) ==
    CASE l.type \in Integer -> impl_try_binary_op("Modulo", l, r)
      [] l.type = "F32" -> f32_try_modulo(l, r)
      [] l.type = "F64" -> f64_try_modulo(l, r)
      [] l.type = "Decimal" -> decimal_try_modulo(l, r)

(***************************************************************************)
(* value.rs                                                                *)
(***************************************************************************)
Temporal == {"Date", "Timestamp", "Time", "Interval"}

add(l, r) ==
    CASE l.type \in Numeric -> TryAdd(l, r)
      [] l.type = "Date" /\ r.type = "Time" -> Plain("Timestamp", l.n * DayTicks + r.n)
      [] l.type = "Date" /\ r.type = "Interval" -> add_date(r, l)
      [] l.type = "Timestamp" /\ r.type = "Interval" -> add_timestamp(r, l)
      [] l.type = "Time" /\ r.type = "Interval" -> add_time(r, l)
      [] l.type = "Interval" /\ r.type = "Interval" -> interval_add(l, r)
      [] l = Null /\ r.type \in Numeric \cup (Temporal \ {"Time"}) \cup {"Null"} -> Null
      [] l.type \in Temporal /\ r = Null -> Null
      [] OTHER -> NonNumericMathOperation

subtract(l, r) ==
    CASE l.type \in Numeric -> TrySubtract(l, r)
      [] l.type = "Date" /\ r.type = "Date" -> days(l.n - r.n)
      [] l.type = "Date" /\ r.type = "Interval" -> subtract_from_date(r, l)
      [] l.type = "Timestamp" /\ r.type = "Interval" -> subtract_from_timestamp(r, l)
      [] l.type = r.type /\ l.type \in {"Timestamp", "Time"} ->
            IF Fits("I64", Quot(l.n - r.n, NANOS)) THEN Microsecond(Quot(l.n - r.n, NANOS))
            ELSE Err("UnreachableIntegerOverflow")
      [] l.type = "Time" /\ r.type = "Interval" -> subtract_from_time(r, l)
      [] l.type = "Interval" /\ r.type = "Interval" -> interval_subtract(l, r)
      [] l = Null /\ r.type \in Numeric \cup Temporal \cup {"Null"} -> Null
      [] l.type \in Temporal /\ r = Null -> Null
      [] OTHER -> NonNumericMathOperation

multiply(l, r) ==
    CASE l.type \in Numeric -> TryMultiply(l, r)
      [] l.type = "Interval" /\ r.type \in Signed \cup Float -> mul_interval(r, l)
      [] l = Null /\ r.type \in Numeric \cup {"Interval", "Null"} -> Null
      [] l.type = "Interval" /\ r = Null -> Null
      [] OTHER -> NonNumericMathOperation

divide(l, r) ==
    CASE is_zero(r) -> DivisorShouldNotBeZero
      [] l.type \in Numeric -> TryDivide(l, r)
      [] l.type = "Interval" /\ r.type \in Integer \cup Float -> div_interval(l, r)
      [] l = Null /\ r.type \in Numeric \cup {"Null"} -> Null
      [] l.type = "Interval" /\ r = Null -> Null
      [] OTHER -> NonNumericMathOperation

modulo(l, r) ==
    CASE is_zero(r) -> DivisorShouldNotBeZero
      [] l.type \in Numeric -> TryModulo(l, r)
      [] l = Null /\ r.type \in Numeric \cup {"Null"} -> Null
      [] OTHER -> NonNumericMathOperation

BitAt(n, i) == (n \div 2^i) % 2
OfBits(t, bits) == Plain(t, Wrap(t, MapThenSumSet(LAMBDA i : 2^i, bits)))

bitwise_and(l, r) ==
    CASE l.type \in Integer /\ l.type = r.type ->
            OfBits(l.type, {i \in 0..(Bits[l.type] - 1) : BitAt(l.n, i) = 1 /\ BitAt(r.n, i) = 1})
      [] {l.type, r.type} \subseteq Integer \cup {"Null"} /\ (l = Null \/ r = Null) -> Null
      [] OTHER -> NonNumericMathOperation

\* checked_shl and checked_shr refuse a count of the width or more and drop the bits pushed out.
Shifted(l, k, up) ==
    CASE IsErr(k) -> k
      [] l = Null -> Null
      [] l.type \notin Integer -> NonNumericMathOperation
      [] k.n >= Bits[l.type] -> BinaryOperationOverflow
      [] OTHER -> Plain(l.type, IF up THEN Wrap(l.type, l.n * 2^k.n) ELSE l.n \div 2^k.n)
bitwise_shift_left(l, r) == IF r = Null THEN Null ELSE Shifted(l, to_u32(r), TRUE)
bitwise_shift_right(l, r) == IF r = Null THEN Null ELSE Shifted(l, to_u32(r), FALSE)

unary_plus(v) ==
    IF v.type \in Numeric \cup {"Interval", "Null"} THEN v ELSE Err("UnaryPlusOnNonNumeric")

unary_minus(v) ==
    CASE v.type \in Signed -> Unchecked(v.type, -v.n)
      [] v.type \in Float /\ v.n = 0 /\ v.s = <<>> -> MinusZero(v.type)
      [] v.type \in Float -> IF IsNaN(v) THEN v ELSE Plain(v.type, -v.n)
      [] v.type = "Decimal" -> Plain("Decimal", -v.n)
      [] v.type = "Interval" -> interval_unary_minus(v)
      [] v = Null -> Null
      [] OTHER -> Err("UnaryMinusOnNonNumeric")

\* (from..=a).try_fold(product, checked_mul): 0 at the first product that does not fit.
RECURSIVE TryFold(_, _, _)
TryFold(from, a, product) ==
    IF from > a THEN product
    ELSE IF Fits("I128", product * from) THEN TryFold(from + 1, a, product * from) ELSE 0
factorial_function(a) ==
    LET product == TryFold(1, a, 1)
    IN  CASE a < 0 -> Err("FactorialOnNegativeNumeric")
          [] product = 0 -> Err("FactorialOverflow")
          [] OTHER -> Plain("I128", product)

unary_factorial(v) ==
    CASE v = Null -> Null
      [] v.type \in Float -> Err("FactorialOnNonInteger")
      [] v.type \notin Integer -> Err("FactorialOnNonNumeric")
      [] OTHER -> factorial_function(Wrap("I128", v.n))

unary_bitwise_not(v) ==
    CASE v = Null -> Null
      [] v.type \in Signed -> Plain(v.type, -v.n - 1)
      [] v.type \in Unsigned -> Plain(v.type, MaxOf(v.type) - v.n)
      [] v.type \in Float -> Err("UnaryBitwiseNotOnNonInteger")
      [] OTHER -> Err("UnaryBitwiseNotOnNonNumeric")

Clock == [Hour |-> HOUR * NANOS, Minute |-> MINUTE * NANOS, Second |-> SECOND * NANOS]
ClockField(field, ticks) ==
    CASE field = "Hour" -> ticks \div Clock.Hour
      [] field = "Minute" -> (ticks % Clock.Hour) \div Clock.Minute
      [] field = "Second" -> (ticks % Clock.Minute) \div Clock.Second
DayField(field, day) == CASE field = "Year" -> YearOf(day) [] field = "Month" -> MonthOf(day) [] field = "Day" -> DayOf(day)

extract(field, v) ==
    CASE v.type = "Interval" -> interval_extract(field, v)
      [] v.type = "Date" /\ field \in {"Year", "Month", "Day"} -> Plain("I64", DayField(field, v.n))
      [] v.type = "Timestamp" /\ field \in {"Year", "Month", "Day"} -> Plain("I64", DayField(field, DatePart(v)))
      [] v.type = "Time" /\ field \in DOMAIN Clock -> Plain("I64", ClockField(field, v.n))
      [] v.type = "Timestamp" /\ field \in DOMAIN Clock -> Plain("I64", ClockField(field, TimePart(v)))
      [] OTHER -> Err("ExtractFormatNotMatched")

\* I32 is missing from the list; a root is rounded down to the grid.
sqrt(v) ==
    CASE v = Null -> Null
      [] v.type \in (Integer \ {"I32"}) \cup Float ->
            LET a == to_f64(v)
            IN  IF IsErr(a) \/ IsNaN(a) THEN a
                ELSE IF a.n < 0 THEN NaN("F64")
                ELSE Plain("F64", CHOOSE r \in 0..(a.n + 1) : r * r <= a.n * Scale /\ (r + 1) * (r + 1) > a.n * Scale)
      [] OTHER -> Err("SqrtOnNonNumeric")

(***************************************************************************)
(* How two storages keep a value of a typed column:                        *)
(*   parquet-storage: get_parquet_type_mappings, write_value and to_value  *)
(*   mongo-storage: into_bson and into_value                               *)
(* A stored cell is a record like a value; its type names the Parquet      *)
(* field or the BSON variant.  The Parquet reader and writer, bincode and  *)
(* the BSON library are external.                                          *)
(***************************************************************************)

ColumnTypes == Integer \cup Float \cup {"Bool", "Decimal", "Str", "Bytea", "Inet", "Date", "Timestamp", "Time", "Interval",
                                        "Uuid", "Map", "List", "Point"}

Epoch == DayNumber(2, 1, 1)     \* 1970-01-01, moved into the model's calendar

(***************************************************************************)
(* Parquet                                                                 *)
(***************************************************************************)
Parquet(physical, converted) == [physical |-> physical, converted |-> converted]

get_parquet_type_mappings(t) ==
    CASE t = "Str" -> Parquet("BYTE_ARRAY", "UTF8")
      [] t = "Date" -> Parquet("INT32", "DATE")
      [] t = "U8" -> Parquet("INT32", "UINT_8")
      [] t = "I64" -> Parquet("INT64", "INT_64")
      [] t = "I8" -> Parquet("INT32", "INT_8")
      [] t = "I16" -> Parquet("INT32", "INT_16")
      [] t = "I32" -> Parquet("INT32", "INT_32")
      [] t = "U16" -> Parquet("INT32", "UINT_16")
      [] t = "U32" -> Parquet("INT32", "UINT_32")
      [] t = "U64" -> Parquet("INT64", "UINT_64")
      [] t = "Bool" -> Parquet("BOOLEAN", "NONE")
      [] t = "F32" -> Parquet("FLOAT", "NONE")
      [] t = "F64" -> Parquet("DOUBLE", "NONE")
      [] t = "Uuid" -> Parquet("FIXED_LEN_BYTE_ARRAY", "NONE")
      [] t = "Time" -> Parquet("INT64", "NONE")
      [] OTHER -> Parquet("BYTE_ARRAY", "NONE")

UnreachableType == Err("UnreachableGlueSqlValueTypeForParquetWriter")

\* bincode::serialize: the bytes remember the value, not its type.
Serialized(v) == Holding("Bytes", <<v>>)

write_bool_column(v) == IF v.type \in {"Null", "Bool"} THEN v ELSE UnreachableType
\* Fault: days are counted from the common era, as GlueSQL does, not from the epoch.
write_int32_from_ce(v) == IF v.type \in {"Null", "I8", "I16", "I32", "U8", "U16", "U32", "Date"} THEN (IF v = Null THEN v ELSE Plain("Cell", v.n)) ELSE UnreachableType
write_int32_column(v) ==
    CASE v = Null -> Null
      [] v.type \in {"I8", "I16", "I32", "U8", "U16"} -> Plain("Cell", v.n)
      [] v.type = "Date" -> Plain("Cell", v.n - Epoch)
      [] v.type = "U32" -> IF Fits("I32", v.n) THEN Plain("Cell", v.n) ELSE Err("exceeds parquet INT32 range")
      [] OTHER -> UnreachableType
\* A Time loses what is below a microsecond.
write_int64_column(v) ==
    CASE v = Null -> Null
      [] v.type = "I64" -> Plain("Cell", v.n)
      [] v.type = "U64" -> IF Fits("I64", v.n) THEN Plain("Cell", v.n) ELSE Err("exceeds parquet INT64 range")
      [] v.type = "Time" -> Plain("Cell", v.n \div NANOS)
      [] OTHER -> UnreachableType
write_int96_column(v) == IF v = Null THEN Null ELSE UnreachableType
write_float_column(v) == IF v.type \in {"Null", "F32"} THEN v ELSE UnreachableType
write_double_column(v) == IF v.type \in {"Null", "F64"} THEN v ELSE UnreachableType
write_serialized_byte_array(v) == Serialized(v)
write_byte_array_column(v) ==
    CASE v.type \in {"Null", "Str", "Bytea"} -> v
      [] v.type \in {"Timestamp", "I128", "U128", "Decimal", "Interval", "Map", "List", "Point", "Inet"} ->
            write_serialized_byte_array(v)
      [] OTHER -> UnreachableType
write_fixed_len_byte_array_column(v) ==
    CASE v = Null -> Null
      [] v.type = "Uuid" -> Serialized(v)
      [] OTHER -> UnreachableType

write_value(physical, v) ==
    CASE physical = "BOOLEAN" -> write_bool_column(v)
      [] physical = "INT32" -> write_int32_column(v)
      [] physical = "INT64" -> write_int64_column(v)
      [] physical = "INT96" -> write_int96_column(v)
      [] physical = "FLOAT" -> write_float_column(v)
      [] physical = "DOUBLE" -> write_double_column(v)
      [] physical = "BYTE_ARRAY" -> write_byte_array_column(v)
      [] physical = "FIXED_LEN_BYTE_ARRAY" -> write_fixed_len_byte_array_column(v)

\* The field the Parquet reader makes of a cell: `as` casts by the converted type.
IntegerFields == [INT_8 |-> "I8", INT_16 |-> "I16", INT_32 |-> "I32", INT_64 |-> "I64",
                  UINT_8 |-> "U8", UINT_16 |-> "U16", UINT_32 |-> "U32", UINT_64 |-> "U64"]
FieldOf(mapping, cell) ==
    CASE cell.type # "Cell" -> cell
      [] mapping.converted \in DOMAIN IntegerFields ->
            LET t == IntegerFields[mapping.converted] IN Plain(t, Wrap(t, cell.n))
      [] mapping.converted = "DATE" -> Plain("Date", cell.n)
      [] mapping.physical = "INT32" -> Plain("I32", cell.n)
      [] mapping.physical = "INT64" -> Plain("I64", cell.n)

\* bincode::deserialize into the column's own type.
Deserialized == {"Timestamp", "Uuid", "U128", "I128", "Interval", "Decimal", "Map", "List", "Inet", "Point"}

to_value(t, field) ==
    CASE field.type = "I64" /\ t = "Time" -> Plain("Time", (field.n % DAY) * NANOS)
      [] field.type = "Bytes" ->
            IF t \in Deserialized THEN [field.s[1] EXCEPT !.type = t] ELSE Holding("Bytea", <<field>>)
      [] field.type = "Date" -> Plain("Date", field.n + Epoch)
      [] OTHER -> field

\* The column type a file without the data_type entry of its metadata is read as.
convert_to_data_type(physical) ==
    CASE physical = "BOOLEAN" -> "Bool"
      [] physical = "INT32" -> "I32"
      [] physical = "INT64" -> "I64"
      [] physical = "FLOAT" -> "F32"
      [] physical = "DOUBLE" -> "F64"
      [] physical = "INT96" -> "I128"
      [] OTHER -> "Bytea"

\* PARQUET_TO_GLUESQL_DATA_TYPE_MAPPING and its inverse hold every type.
NamedTypes == ColumnTypes
map_parquet_to_gluesql(name, otherwise) == IF name \in NamedTypes THEN name ELSE otherwise

\* The type a column has once its file is written and opened again: the
\* data_type entry of the metadata, before the physical type.
gather_metadata_from_glue_schema(t) == IF t \in NamedTypes THEN t ELSE "None"
to_ColumnDef(physical, data_type) == map_parquet_to_gluesql(data_type, convert_to_data_type(physical))
ReadType(t) == to_ColumnDef(get_parquet_type_mappings(t).physical, gather_metadata_from_glue_schema(t))

ParquetCell(t, v) == write_value(get_parquet_type_mappings(t).physical, v)
ParquetRead(t, cell) == IF IsErr(cell) THEN cell ELSE to_value(ReadType(t), FieldOf(get_parquet_type_mappings(t), cell))

(***************************************************************************)
(* MongoDB                                                                 *)
(***************************************************************************)
UnsupportedBsonType == Err("UnsupportedBsonType")

\* The sixteen bytes of a Decimal128 remember the type that wrote them.
Decimal128(v) == Holding("Decimal128", <<v>>)
MilliTicks == MILLI * NANOS
DateTimeBson(ticks) == Plain("DateTime", ticks \div MilliTicks)

StringBson(text) == IF IsErr(text) THEN text ELSE [text EXCEPT !.type = "String"]

RECURSIVE into_bson(_)
into_bson(v) ==
    CASE v.type \in {"I8", "I16", "I32", "U8", "U16"} -> Plain("Int32", v.n)
      [] v.type \in {"I64", "U32"} -> Plain("Int64", v.n)
      [] v.type \in {"Decimal", "I128", "U128", "U64"} -> Decimal128(v)
      [] v.type \in Float -> [v EXCEPT !.type = "Double"]
      [] v.type = "Bool" -> Plain("Boolean", v.n)
      [] v.type = "Str" -> [v EXCEPT !.type = "String"]
      [] v.type = "Bytea" -> Holding("Binary", v.s)
      [] v.type = "Uuid" -> Holding("Binary", <<v>>)
      [] v.type = "Date" -> DateTimeBson(v.n * DayTicks)
      [] v.type = "Time" -> DateTimeBson(Epoch * DayTicks + v.n)
      [] v.type \in {"Timestamp", "Inet"} -> Holding("String", <<v>>)
      [] v.type = "Interval" -> StringBson(PrintedInterval(to_sql_str(v)))
      [] v.type = "Point" -> Holding("Document", <<Entry(Text(Mark("x")), Plain("Double", v.n)),
                                                   Entry(Text(Mark("y")), [v.s[1] EXCEPT !.type = "Double"])>>)
      [] v.type = "List" -> Holding("Array", [i \in DOMAIN v.s |-> into_bson(v.s[i])])
      [] v.type = "Map" -> Holding("Document", [i \in DOMAIN v.s |-> Entry(v.s[i].s[1], into_bson(v.s[i].s[2]))])
      [] OTHER -> v

RECURSIVE into_value_schemaless(_)
into_value_schemaless(b) ==
    CASE b.type = "String" -> [b EXCEPT !.type = "Str"]
      [] b.type = "Document" -> Map([i \in DOMAIN b.s |-> Entry(b.s[i].s[1], into_value_schemaless(b.s[i].s[2]))])
      [] b.type = "Boolean" -> Plain("Bool", b.n)
      [] b.type = "Int32" -> Plain("I32", b.n)
      [] b.type = "Int64" -> Plain("I64", b.n)
      [] b.type = "Double" -> [b EXCEPT !.type = "F64"]
      [] b.type = "Array" -> List([i \in DOMAIN b.s |-> into_value_schemaless(b.s[i])])
      [] b = Null -> Null
      [] OTHER -> UnsupportedBsonType

Narrowed(t, n) == IF Fits(t, n) THEN Plain(t, n) ELSE UnsupportedBsonType
OrUnsupported(v) == IF IsErr(v) THEN UnsupportedBsonType ELSE v
TextOf(b) == [b EXCEPT !.type = "Str"]

\* What the bytes of a Decimal128 read as: anything but the type that wrote them is garbled.
ReadAs(t, b) == IF b.s[1].type = t THEN b.s[1] ELSE Holding(t, <<Mark("Garbled")>>)

\* Elements of an Array and of a Document are read with the column's own type.
RECURSIVE into_value(_, _)
into_value(t, b) ==
    CASE b = Null -> Null
      [] b.type = "Double" -> [b EXCEPT !.type = IF t = "F32" THEN "F32" ELSE "F64"]
      [] b.type = "String" /\ t = "Inet" -> IF HasToken(TextOf(b), "Inet") THEN Token(b) ELSE UnsupportedBsonType
      [] b.type = "String" /\ t = "Timestamp" -> IF HasToken(TextOf(b), "Timestamp") THEN Token(b) ELSE UnsupportedBsonType
      [] b.type = "String" /\ t = "Interval" ->
            OrUnsupported(parse_interval(TextOf(b)))
      [] b.type = "String" -> TextOf(b)
      [] b.type = "Array" -> List([i \in DOMAIN b.s |-> into_value(t, b.s[i])])
      [] b.type = "Document" /\ t = "Point" ->
            [type |-> "Point", n |-> b.s[1].s[2].n, s |-> <<[b.s[2].s[2] EXCEPT !.type = "F64"]>>]
      [] b.type = "Document" -> Map([i \in DOMAIN b.s |-> Entry(b.s[i].s[1], into_value(t, b.s[i].s[2]))])
      [] b.type = "Boolean" -> Plain("Bool", b.n)
      [] b.type = "Int32" /\ t \in {"U8", "U16"} -> Narrowed(t, b.n)
      [] b.type = "Int32" /\ t \in {"I8", "I16"} -> Plain(t, Wrap(t, b.n))
      [] b.type = "Int32" -> Plain("I32", b.n)
      [] b.type = "Int64" /\ t = "U32" -> Narrowed("U32", b.n)
      [] b.type = "Int64" -> Plain("I64", b.n)
      [] b.type = "Binary" /\ t = "Uuid" ->
            IF Len(b.s) = 1 /\ b.s[1].type = "Uuid" THEN b.s[1] ELSE UnsupportedBsonType
      [] b.type = "Binary" -> Holding("Bytea", b.s)
      [] b.type = "Decimal128" -> ReadAs(IF t \in {"U64", "U128", "I128"} THEN t ELSE "Decimal", b)
      [] b.type = "DateTime" /\ t = "Time" -> Plain("Time", (b.n * MilliTicks) % DayTicks)
      [] b.type = "DateTime" -> Plain("Date", (b.n * MilliTicks) \div DayTicks)
      [] OTHER -> UnsupportedBsonType

\* row/data_type.rs
BsonTypeOf(t) ==
    CASE t = "Bool" -> "Boolean"
      [] t \in {"I8", "I16", "I32", "U8", "U16"} -> "Int32"
      [] t \in {"I64", "U32"} -> "Int64"
      [] t \in {"I128", "U64", "U128", "Decimal"} -> "Decimal128"
      [] t \in Float -> "Double"
      [] t \in {"Str", "Timestamp", "Inet", "Interval"} -> "String"
      [] t \in {"Bytea", "Uuid"} -> "Binary"
      [] t \in {"Date", "Time"} -> "DateTime"
      [] t \in {"Map", "Point"} -> "Document"
      [] t = "List" -> "Array"

\* The validator's bounds; a Double is compared in quarters.
\* Fault: the bound is the largest number; the smallest is its negation.
get_max_exact(t) == IF t = "Time" THEN DAY \div MILLI - 1 ELSE IF t = "F32" THEN MaxOf("I32") * Scale ELSE MaxOf(t)
get_max(t) ==
    CASE t \in {"I8", "I16", "I32"} -> MaxOf(t) + 1
      [] t = "F32" -> (MaxOf("I32") + 1) * Scale
      [] t = "Time" -> DAY \div MILLI - 1
get_min(t) == IF t = "Time" THEN 0 ELSE -get_max(t)
Bounded == {"I8", "I16", "I32", "F32", "Time"}

\* The server (external) checks the collection's validator: bsonType, and the bounds of a number.
Accepts(t, b) ==
    \/ b = Null
    \/ b.type = BsonTypeOf(t) /\ (t \in Bounded /\ b.type # "DateTime" => get_min(t) <= b.n /\ b.n <= get_max(t))
MongoCell(t, v) ==
    LET b == into_bson(v) IN IF IsErr(b) \/ Accepts(t, b) THEN b ELSE Err("DocumentValidationFailure")
SchemalessRead(b) == IF IsErr(b) THEN b ELSE into_value_schemaless(b)
MongoRead(t, b) == IF IsErr(b) THEN b ELSE into_value(t, b)
=============================================================================
