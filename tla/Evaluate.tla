------------------------------- MODULE Evaluate ------------------------------
(***************************************************************************)
(* core/src/executor/evaluate/evaluated.rs and evaluated/*.rs, evaluate/   *)
(* expr.rs, data/string_ext.rs and value/selector.rs: what an expression   *)
(* evaluates to and the operators on it.                                   *)
(*                                                                         *)
(* An Evaluated is [kind, value, from, to]: a Number or Text literal that  *)
(* has no type yet, a StrSlice (the range from..to of a source text), or a *)
(* Value.  Every character is one byte.  A Number literal counts quarters  *)
(* and s holds one mark for each fractional digit it was written with.     *)
(***************************************************************************)
EXTENDS Values, FiniteSets

LOCAL INSTANCE FiniteSetsExt

Evaluated(kind, value, from, to) == [kind |-> kind, value |-> value, from |-> from, to |-> to]
Number(q, digits) ==
    Evaluated("Number", [type |-> "Number", n |-> q, s |-> [i \in 1..digits |-> Mark("Digit")]], 0, 0)
TextLiteral(text) == Evaluated("Text", text, 0, 0)
StrSlice(source, from, to) == Evaluated("StrSlice", source, from, to)
Val(v) == Evaluated("Value", v, 0, 0)

IsLiteral(e) == e.kind \in {"Number", "Text"}
is_null(e) == e.kind = "Value" /\ e.value = Null
Failed(e) == IsErr(e.value)

\* source[range]
Range_of(source, from, to) ==
    IF from > to \/ to > Len(source.s) THEN Panic ELSE Holding("Str", SubSeq(source.s, from + 1, to))
Content(e) == Range_of(e.value, e.from, e.to)

\* BigDecimalExt: only a literal written without fractional digits is an integer.
BigToInteger(t, number) ==
    IF number.s = <<>> /\ Fits(t, Trunc(number.n)) THEN Plain(t, Trunc(number.n)) ELSE ConvertFailed

(***************************************************************************)
(* Conversions of an Evaluated.                                            *)
(***************************************************************************)
\* TryFrom<Evaluated> for Value
WholeOr(i, otherwise) == IF IsErr(i) THEN otherwise ELSE i
to_Value(e) ==
    CASE e.kind = "Number" -> WholeOr(BigToInteger("I64", e.value), Plain("F64", e.value.n))
      [] e.kind = "StrSlice" -> Content(e)
      [] OTHER -> e.value

\* TryFrom<Evaluated> for bool
Evaluated_to_bool(e) ==
    IF e.kind = "Value" /\ e.value.type = "Bool" THEN e.value ELSE Err("BooleanTypeRequired")

exceptional_int_val_to_eval(v) == Val(IF v = Null THEN Null ELSE Err("FunctionRequiresIntegerValue"))

InetOf(number) ==
    CASE ~IsErr(BigToInteger("U32", number)) -> Marked("Inet", Trunc(number.n), "V4")
      [] ~IsErr(BigToInteger("U128", number)) -> Marked("Inet", Trunc(number.n), "V6")
      [] OTHER -> ConvertFailed

ParseFailure(r, kind) == IF r = ConvertFailed THEN Err(kind) ELSE r

\* Fault: the number is cast with `as`.
number_to_value_as(t, number) == Plain(t, IF t \in Integer THEN Wrap(t, Trunc(number.n)) ELSE number.n)

number_to_value(t, number) ==
    ParseFailure(CASE t \in Integer -> BigToInteger(t, number)
                   [] t \in Float -> Plain(t, number.n)
                   [] t = "Inet" -> InetOf(number)
                   [] t = "Decimal" /\ Abs(number.n) <= DecimalMax -> Plain("Decimal", number.n)
                   [] OTHER -> ConvertFailed,
                 "NumberParseFailed")

cast_number_to_value(t, number) ==
    LET i == BigToInteger("I64", number)
    IN  CASE t = "Bool" -> IF ~IsErr(i) /\ i.n \in {0, 1} THEN Bool(i.n = 1) ELSE Err("NumberCastFailed")
          [] t = "Str" -> Text(number)
          [] OTHER -> number_to_value(t, number)

text_to_value(t, text) ==
    CASE t = "Str" -> text
      [] t = "Bytea" -> IF HasToken(text, "Bytea") THEN Token(text) ELSE Err("TextParseFailed")
      [] t = "Inet" -> ParseFailure(to_IpAddr(text), "TextParseFailed")
      [] t = "Interval" -> parse_interval(text)
      [] t = "Point" -> ParseFailure(from_wkt(text), "TextParseFailed")
      [] t = "Date" -> ParseFailure(parse_date(text), "TextParseFailed")
      [] t = "Timestamp" -> ParseFailure(parse_timestamp(text), "TextParseFailed")
      [] t = "Time" -> ParseFailure(parse_time(text), "TextParseFailed")
      [] t = "Uuid" -> parse_uuid(text)
      [] t = "Map" -> parse_json_map(text)
      [] t = "List" -> parse_json_list(text)
      [] OTHER -> Err("TextParseFailed")

cast_text_to_value(t, text) ==
    LET bit == HasToken(text, "Number") /\ Token(text).s = <<>> /\ Token(text).n \in {0, Scale}
    IN  CASE t = "Bool" /\ HasToken(text, "Bool") -> Token(text)
          [] t = "Bool" /\ bit -> Bool(Token(text).n = Scale)
          [] t = "Bool" -> Err("TextCastFailed")
          [] t \in Integer -> ParseFailure(ToInteger(t, text), "TextCastFailed")
          [] t \in Float -> ParseFailure(ToFloat(t, text), "TextCastFailed")
          [] t = "Decimal" -> ParseFailure(to_decimal(text), "TextCastFailed")
          [] OTHER -> text_to_value(t, text)

\* Evaluated::cast
CastOrStop(t, v) == IF IsErr(v) THEN v ELSE cast(t, v)
Evaluated_cast(t, e) ==
    Val(CASE e.kind = "Number" -> cast_number_to_value(t, e.value)
          [] e.kind = "Text" -> cast_text_to_value(t, e.value)
          [] OTHER -> CastOrStop(t, to_Value(e)))

\* Uuid::from_slice takes exactly sixteen bytes; UuidBytes of them here.
UuidBytes == 2
UuidOf(bytes) ==
    IF Len(bytes.s) = UuidBytes THEN Plain("Uuid", bytes.s[1].n * 4 + bytes.s[2].n) ELSE Err("FailedToParseUUID")

\* What a column of type t stores for e.
Validated(t, nullable, v) ==
    CASE IsErr(v) -> v
      [] IsErr(validate_type(t, v)) -> validate_type(t, v)
      [] IsErr(validate_null(nullable, v)) -> validate_null(nullable, v)
      [] OTHER -> v
try_into_value(t, nullable, e) ==
    Validated(t, nullable, CASE e.kind = "Number" -> number_to_value(t, e.value)
                             [] e.kind = "Text" -> text_to_value(t, e.value)
                             [] e.kind = "StrSlice" -> Content(e)
                             [] e.value.type = "Bytea" /\ t = "Uuid" -> UuidOf(e.value)
                             [] OTHER -> e.value)

(***************************************************************************)
(* Comparison.                                                             *)
(***************************************************************************)
value_cmp_with_number(v, number) ==
    CASE v.type \in Integer ->
            IF IsErr(BigToInteger(v.type, number)) THEN "None" ELSE OrderOf(v.n, Trunc(number.n))
      [] v.type \in Float -> IF IsNaN(v) THEN "None" ELSE OrderOf(v.n, number.n)
      [] v.type = "Decimal" -> OrderOf(v.n, number.n)
      [] v.type = "Inet" -> IF IsErr(InetOf(number)) THEN "None" ELSE InetCmp(v, InetOf(number))
      [] OTHER -> "None"

value_cmp_with_text(v, text) ==
    LET parsed == CASE v.type = "Date" -> parse_date(text)
                    [] v.type = "Timestamp" -> parse_timestamp(text)
                    [] v.type = "Time" -> parse_time(text)
                    [] v.type = "Uuid" -> parse_uuid(text)
                    [] v.type = "Inet" -> to_IpAddr(text)
                    [] OTHER -> ConvertFailed
    IN  CASE v.type = "Str" -> Lexical(Codes(v), Codes(text))
          [] IsErr(parsed) -> "None"
          [] v.type = "Inet" -> InetCmp(v, parsed)
          [] OTHER -> OrderOf(v.n, parsed.n)

\* Evaluated::evaluate_cmp
Evaluated_cmp(l, r) ==
    LET textual == {"Text", "StrSlice"}
        T(e) == IF e.kind = "StrSlice" THEN Content(e) ELSE e.value
    IN  CASE l.kind = "Number" /\ r.kind = "Number" -> OrderOf(l.value.n, r.value.n)
          [] l.kind \in textual /\ r.kind \in textual -> Lexical(Codes(T(l)), Codes(T(r)))
          [] l.kind = "Number" /\ r.kind = "Value" -> Mirror(value_cmp_with_number(r.value, l.value))
          [] l.kind = "Value" /\ r.kind = "Number" -> value_cmp_with_number(l.value, r.value)
          [] l.kind \in textual /\ r.kind = "Value" -> Mirror(value_cmp_with_text(r.value, T(l)))
          [] l.kind = "Value" /\ r.kind \in textual -> value_cmp_with_text(l.value, T(r))
          [] l.kind = "Value" /\ r.kind = "Value" -> evaluate_cmp(l.value, r.value)
          [] OTHER -> "None"

\* Decimal has no case of its own: it equals no literal.
value_eq_with_literal(v, kind, literal) ==
    LET number == kind = "Number"
        parsed == CASE v.type = "Date" -> parse_date(literal)
                    [] v.type = "Timestamp" -> parse_timestamp(literal)
                    [] v.type = "Time" -> parse_time(literal)
                    [] v.type = "Uuid" -> parse_uuid(literal)
                    [] v.type = "Inet" -> to_IpAddr(literal)
                    [] v.type = "Str" -> literal
                    [] OTHER -> ConvertFailed
    IN  CASE v = Null -> "Null"
          [] number /\ v.type \in Integer -> Tribool(BigToInteger(v.type, literal) = v)
          [] number /\ v.type \in Float -> Tribool(~IsNaN(v) /\ v.n = literal.n)
          [] number /\ v.type = "Inet" -> Tribool(InetOf(literal) = v)
          [] number -> "False"
          [] OTHER -> Tribool(parsed = v)

\* Evaluated::evaluate_eq
Evaluated_eq(l, r) ==
    LET T(e) == IF e.kind = "StrSlice" THEN Content(e) ELSE e.value
        K(e) == IF e.kind = "StrSlice" THEN "Text" ELSE e.kind
    IN  CASE l.kind = "Value" /\ r.kind = "Value" -> evaluate_eq(l.value, r.value)
          [] l.kind = "Value" /\ r.kind # "Value" -> value_eq_with_literal(l.value, K(r), T(r))
          [] l.kind # "Value" /\ r.kind = "Value" -> value_eq_with_literal(r.value, K(l), T(l))
          [] K(l) # K(r) -> "False"
          [] K(l) = "Number" -> Tribool(l.value.n = r.value.n)
          [] OTHER -> Tribool(T(l) = T(r))

\* impl Not for Tribool, From<Tribool> for Value
Not(t) == CASE t = "True" -> "False" [] t = "False" -> "True" [] OTHER -> t
of_Tribool(t) == IF t = "Null" THEN Null ELSE Bool(t = "True")

(***************************************************************************)
(* Operators.                                                              *)
(***************************************************************************)
\* evaluated/binary_op.rs: what `value_op` is applied to.
Operable(l, r) == ~(l.kind = "StrSlice" \/ r.kind = "StrSlice" \/ (IsLiteral(l) /\ IsLiteral(r)))

BothNumbers(l, r) == l.kind = "Number" /\ r.kind = "Number"
MoreDigits(l, r) == IF Len(l.value.s) > Len(r.value.s) THEN Len(l.value.s) ELSE Len(r.value.s)
UnsupportedBinaryOperation == Val(Err("UnsupportedBinaryOperation"))
IncompatibleBitOperation == Val(Err("IncompatibleBitOperation"))

Evaluated_add(l, r) ==
    CASE BothNumbers(l, r) -> Number(l.value.n + r.value.n, MoreDigits(l, r))
      [] Operable(l, r) -> Val(add(to_Value(l), to_Value(r)))
      [] OTHER -> UnsupportedBinaryOperation
Evaluated_subtract(l, r) ==
    CASE BothNumbers(l, r) -> Number(l.value.n - r.value.n, MoreDigits(l, r))
      [] Operable(l, r) -> Val(subtract(to_Value(l), to_Value(r)))
      [] OTHER -> UnsupportedBinaryOperation
Evaluated_multiply(l, r) ==
    CASE BothNumbers(l, r) -> Number(Quot(l.value.n * r.value.n, Scale), Len(l.value.s) + Len(r.value.s))
      [] Operable(l, r) -> Val(multiply(to_Value(l), to_Value(r)))
      [] OTHER -> UnsupportedBinaryOperation
Evaluated_modulo(l, r) ==
    CASE BothNumbers(l, r) /\ r.value.n = 0 -> Val(DivisorShouldNotBeZero)
      [] BothNumbers(l, r) -> Number(Rem(l.value.n, r.value.n), MoreDigits(l, r))
      [] Operable(l, r) -> Val(modulo(to_Value(l), to_Value(r)))
      [] OTHER -> UnsupportedBinaryOperation
\* A quotient keeps as many fractional digits as it needs.
Evaluated_divide(l, r) ==
    LET q == Quot(l.value.n * Scale, r.value.n)
    IN  CASE BothNumbers(l, r) /\ r.value.n = 0 -> Val(DivisorShouldNotBeZero)
          [] BothNumbers(l, r) -> Number(q, IF q % Scale = 0 THEN 0 ELSE IF q % 2 = 0 THEN 1 ELSE 2)
          [] Operable(l, r) -> Val(divide(to_Value(l), to_Value(r)))
          [] OTHER -> UnsupportedBinaryOperation

\* Two literals meet as i64 (and u32 for the count).
BitLiterals(l, r, t) == ~IsErr(BigToInteger("I64", l.value)) /\ ~IsErr(BigToInteger(t, r.value))
BitResult(v) == IF IsErr(v) THEN IncompatibleBitOperation ELSE Number(v.n * Scale, 0)

Evaluated_bitwise_and(l, r) ==
    CASE BothNumbers(l, r) ->
            IF BitLiterals(l, r, "I64") THEN BitResult(bitwise_and(to_Value(l), to_Value(r))) ELSE IncompatibleBitOperation
      [] Operable(l, r) -> Val(bitwise_and(to_Value(l), to_Value(r)))
      [] OTHER -> UnsupportedBinaryOperation
Evaluated_bitwise_shift_left(l, r) ==
    CASE BothNumbers(l, r) ->
            IF BitLiterals(l, r, "U32") THEN BitResult(bitwise_shift_left(to_Value(l), to_Value(r))) ELSE IncompatibleBitOperation
      [] Operable(l, r) -> Val(bitwise_shift_left(to_Value(l), to_Value(r)))
      [] OTHER -> UnsupportedBinaryOperation
Evaluated_bitwise_shift_right(l, r) ==
    CASE BothNumbers(l, r) ->
            IF BitLiterals(l, r, "U32") THEN BitResult(bitwise_shift_right(to_Value(l), to_Value(r))) ELSE IncompatibleBitOperation
      [] Operable(l, r) -> Val(bitwise_shift_right(to_Value(l), to_Value(r)))
      [] OTHER -> UnsupportedBinaryOperation

Evaluated_unary_plus(e) ==
    CASE e.kind = "Number" -> e
      [] e.kind = "Value" -> Val(unary_plus(e.value))
      [] OTHER -> Val(Err("UnsupportedUnaryPlus"))
Evaluated_unary_minus(e) ==
    CASE e.kind = "Number" -> Number(-e.value.n, Len(e.value.s))
      [] e.kind = "Value" -> Val(unary_minus(e.value))
      [] OTHER -> Val(Err("UnsupportedUnaryMinus"))
unary_not(e) ==
    LET b == Evaluated_to_bool(e)
    IN  IF is_null(e) THEN e ELSE Val(IF IsErr(b) THEN b ELSE Bool(b.n = 0))
Evaluated_unary_factorial(e) ==
    LET i == BigToInteger("I64", e.value)
    IN  Val(CASE e.kind = "Number" -> IF IsErr(i) THEN Err("NumberParseFailed") ELSE unary_factorial(i)
              [] e.kind = "Value" -> unary_factorial(e.value)
              [] OTHER -> Err("UnaryFactorialRequiresNumericLiteral"))
Evaluated_unary_bitwise_not(e) ==
    LET i == BigToInteger("I64", e.value)
    IN  Val(CASE e.kind = "Number" -> IF IsErr(i) THEN Err("NumberParseFailed") ELSE unary_bitwise_not(i)
              [] e.kind = "Value" -> unary_bitwise_not(e.value)
              [] OTHER -> Err("UnaryBitwiseNotRequiresIntegerLiteral"))

(***************************************************************************)
(* Texts and lists.                                                        *)
(***************************************************************************)
Space == 0
Lower == 1..3
Upper == 5..7       \* each upper-case letter is its lower-case one plus four
Percent == 8
Underscore == 9
Newline == 10
LowerCase(c) == IF c \in Upper THEN c - 4 ELSE c
UpperCase(c) == IF c \in Lower THEN c + 4 ELSE c

RECURSIVE Matches(_, _)
Matches(text, pattern) ==
    IF pattern = <<>> THEN text = <<>>
    ELSE CASE Head(pattern) = Percent ->
                 \/ Matches(text, Tail(pattern))
                 \/ text # <<>> /\ Head(text) # Newline /\ Matches(Tail(text), pattern)
           [] Head(pattern) = Underscore -> text # <<>> /\ Head(text) # Newline /\ Matches(Tail(text), Tail(pattern))
           [] OTHER -> text # <<>> /\ Head(text) = Head(pattern) /\ Matches(Tail(text), Tail(pattern))

\* StringExt::like: '%' becomes ".*" and '_' becomes "." of an anchored regex.
\* Fault: the flag is ignored.
str_like_lower(text, pattern, caseSensitive) ==
    LET L(codes) == [i \in DOMAIN codes |-> LowerCase(codes[i])]
    IN  Matches(L(Codes(text)), L(Codes(pattern)))

str_like(text, pattern, caseSensitive) ==
    LET L(codes) == [i \in DOMAIN codes |-> IF caseSensitive THEN codes[i] ELSE LowerCase(codes[i])]
    IN  Matches(L(Codes(text)), L(Codes(pattern)))

\* Value::like
like(l, r, caseSensitive) ==
    IF l.type = "Str" /\ r.type = "Str" THEN Bool(str_like(l, r, caseSensitive)) ELSE Err("LikeOnNonString")

\* Evaluated::like
Evaluated_like(l, r, caseSensitive) ==
    Val(IF IsLiteral(l) /\ IsLiteral(r) /\ ~(l.kind = "Text" /\ r.kind = "Text") THEN Err("LikeOnNonStringLiteral")
        ELSE like(to_Value(l), to_Value(r), caseSensitive))

\* Value::concat
concat(l, r) ==
    CASE l = Null \/ r = Null -> Null
      [] l.type = "List" /\ r.type = "List" -> List(l.s \o r.s)
      [] OTHER -> Holding("Str", to_String(l).s \o to_String(r).s)

\* Evaluated::concat: two literals stay a literal.
Evaluated_concat(l, r) ==
    LET T(e) == IF e.kind = "Number" THEN Text(e.value) ELSE to_Value(e)
        both == concat(T(l), T(r))
    IN  IF IsLiteral(l) /\ IsLiteral(r) THEN TextLiteral(both) ELSE Val(both)

\* The source text and range a text function works on.
Operand(e) ==
    CASE e.kind = "StrSlice" \/ is_null(e) -> e
      [] e.kind \in {"Text", "Value"} /\ e.value.type = "Str" -> StrSlice(e.value, 0, Len(e.value.s))
      [] OTHER -> Val(Err("FunctionRequiresStringValue"))

\* The characters to trim: a space, or those of the argument.
Absent == Val(Mark("Absent"))
FilterChars(chars) ==
    LET v == to_Value(chars)
    IN  CASE chars = Absent -> Str(<<Space>>)
          [] v.type \in {"Str", "Null"} \/ IsErr(v) -> v
          [] OTHER -> Err("FunctionRequiresStringValue")

\* match_indices: the positions, counted from 0, of those characters.
matched_vec(text, chars) ==
    LET hits == {i \in DOMAIN text.s : \E j \in DOMAIN chars.s : text.s[i] = chars.s[j]}
        Nth(k) == CHOOSE i \in hits : Cardinality({j \in hits : j <= i}) = k
    IN  [k \in 1..Cardinality(hits) |-> Nth(k) - 1]

\* How many matches lead the text, and how many end it: where skip_while stops.
\* Fault: every match counts, also the ones after the leading run.
LeadingAll(m) == Len(m)
Leading(m) == Max({k \in 0..Len(m) : \A i \in 1..k : m[i] = i - 1})
Trailing(m, len) == Max({k \in 0..Len(m) : \A i \in 1..k : m[Len(m) + 1 - i] = len - i})

\* The three cases ltrim, rtrim and trim settle first, or Absent.
Untrimmed(e, text, m) ==
    CASE Len(m) = Len(text.s) -> StrSlice(e.value, 0, 0)
      [] m = <<>> -> e
      [] m[1] # 0 /\ m[Len(m)] # Len(text.s) - 1 -> e
      [] OTHER -> Absent

TrimStart(e, m) == StrSlice(e.value, e.from + Leading(m), e.to)

\* The end is counted from the start of the slice, not of its source.
TrimEnd(e, text, m) ==
    LET t == Trailing(m, Len(text.s))
    IN  StrSlice(e.value, e.from, IF t = 0 THEN e.to ELSE Len(text.s) - t)

\* Both ends match: what is kept ends at the first match inside.
TrimBoth(e, text, m) ==
    CASE m[Len(m)] # Len(text.s) - 1 -> TrimStart(e, m)
      [] m[1] # 0 -> TrimEnd(e, text, m)
      [] OTHER -> StrSlice(e.value, e.from + Leading(m), e.from + m[Leading(m) + 1])

Whitespace == {Space, Newline}

\* The search for the end of the blanks runs on into the rest of the source.
TrimNone(e) ==
    LET len == Len(e.value.s)
        solid == {i \in 0..(len - 1) : e.value.s[i + 1].n \notin Whitespace}
        after == {i \in solid : i >= e.from}
        before == {i \in solid : i < e.to}
    IN  StrSlice(e.value, IF after = {} THEN 0 ELSE Min(after), IF before = {} THEN len ELSE Max(before) + 1)

Trimmed(e, chars, how) ==
    LET o == Operand(e)
        f == FilterChars(chars)
        text == Content(o)
        m == matched_vec(text, f)
    IN  CASE o.kind = "Value" -> o
          [] f.type # "Str" -> Val(f)
          [] IsErr(text) -> Val(text)
          [] Untrimmed(o, text, m) # Absent -> Untrimmed(o, text, m)
          [] how = "Leading" -> TrimStart(o, m)
          [] how = "Trailing" -> TrimEnd(o, text, m)
          [] how = "Both" -> TrimBoth(o, text, m)
          [] how = "None" -> TrimNone(o)

ltrim(e, chars) == Trimmed(e, chars, "Leading")
rtrim(e, chars) == Trimmed(e, chars, "Trailing")
trim(e, chars, how) == Trimmed(e, chars, how)

Clamp(n, max) == IF n < 0 THEN 0 ELSE IF n > max THEN max ELSE n

substr(e, start, count) ==
    LET o == Operand(e)
        first == to_Value(start)
        number == to_Value(count)
        from == Unchecked("I64", first.n - 1)
        len == Len(o.value.s)
        n == IF count = Absent THEN len ELSE number.n
    IN  CASE o.kind = "Value" -> o
          [] first.type # "I64" -> exceptional_int_val_to_eval(first)
          [] IsErr(from) -> Val(from)
          [] count # Absent /\ number.type # "I64" -> exceptional_int_val_to_eval(number)
          [] n < 0 -> Val(Err("NegativeSubstrLenNotAllowed"))
          [] IsErr(Unchecked("I64", o.from + from.n + n)) -> Val(Panic)
          [] OTHER -> StrSlice(o.value, Clamp(from.n + o.from, len), Clamp(o.from + from.n + n, len))

MapGet(map, key) ==
    IF \E i \in DOMAIN map.s : map.s[i].s[1] = key
    THEN (CHOOSE e \in {map.s[i] : i \in DOMAIN map.s} : e.s[1] = key).s[2] ELSE Null
ListGet(list, i) == IF i \in 0..(Len(list.s) - 1) THEN list.s[i + 1] ELSE Null

\* parse::<usize>() of a text, or -1
ParsedIndex(text) == LET i == ToInteger("U64", text) IN IF IsErr(i) THEN -1 ELSE i.n

select_arrow_value(base, selector) ==
    CASE base = Null -> Null
      [] base.type \notin {"Map", "List"} -> Err("ArrowBaseRequiresMapOrList")
      [] selector.type \notin Integer \cup {"Str"} -> Err("ArrowSelectorRequiresIntegerOrString")
      [] base.type = "Map" -> MapGet(base, to_String(selector))
      [] OTHER -> ListGet(base, IF IsText(selector) THEN ParsedIndex(selector) ELSE selector.n)

\* Evaluated::arrow
arrow(l, r) ==
    LET selector == to_Value(r)
    IN  Val(CASE IsErr(selector) \/ selector = Null -> selector
              [] IsErr(to_Value(l)) -> to_Value(l)
              [] OTHER -> select_arrow_value(to_Value(l), selector))

get_value_from_compound_type(v, key) ==
    CASE v.type = "Map" -> MapGet(v, key)
      [] v.type = "List" -> ListGet(v, ParsedIndex(key))
      [] OTHER -> Err("SelectorRequiresMapOrListTypes")

RECURSIVE selector_by_index(_, _)
selector_by_index(v, keys) ==
    IF keys = <<>> \/ IsErr(v) THEN v
    ELSE selector_by_index(get_value_from_compound_type(v, to_String(Head(keys))), Tail(keys))

\* Value::selector on the keys of a dotted path; a missing step makes it NULL.
RECURSIVE SelectPath(_, _)
SelectPath(v, keys) ==
    IF keys = <<>> THEN v
    ELSE IF v.type \notin {"Map", "List"} THEN Null
    ELSE SelectPath(get_value_from_compound_type(v, Head(keys)), Tail(keys))
selector(v, keys) == IF v.type \in {"Map", "List"} THEN SelectPath(v, keys) ELSE Err("SelectorRequiresMapOrListTypes")

(***************************************************************************)
(* evaluate/expr.rs and the arms of evaluate_inner.                        *)
(***************************************************************************)
Arithmetic == {"Plus", "Minus", "Multiply", "Divide", "Modulo"}
Comparisons == {"Lt", "LtEq", "Gt", "GtEq"}
Logical == {"And", "Or", "Xor"}
Bitwise == {"BitwiseAnd", "BitwiseShiftLeft", "BitwiseShiftRight"}
BinaryOperator == Arithmetic \cup Comparisons \cup Logical \cup Bitwise \cup {"Eq", "NotEq", "StringConcat", "Arrow"}
UnaryOperator == {"Plus", "Minus", "Not", "Factorial", "BitwiseNot"}

typed_string(t, text) == Val(text_to_value(t, text))

Compared(op, order) ==
    CASE op = "Lt" -> order = "Less"
      [] op = "LtEq" -> order \in {"Less", "Equal"}
      [] op = "Gt" -> order = "Greater"
      [] op = "GtEq" -> order \in {"Greater", "Equal"}

Connected(op, l, r) ==
    LET a == Evaluated_to_bool(l)
        b == Evaluated_to_bool(r)
    IN  CASE IsErr(a) -> a
          [] IsErr(b) -> b
          [] op = "And" -> Bool(a.n = 1 /\ b.n = 1)
          [] op = "Or" -> Bool(a.n = 1 \/ b.n = 1)
          [] op = "Xor" -> Bool(a.n # b.n)

\* A NULL operand makes every operator NULL, AND and OR included.
binary_op(op, l, r) ==
    CASE is_null(l) \/ is_null(r) -> Val(Null)
      [] op = "Plus" -> Evaluated_add(l, r)
      [] op = "Minus" -> Evaluated_subtract(l, r)
      [] op = "Multiply" -> Evaluated_multiply(l, r)
      [] op = "Divide" -> Evaluated_divide(l, r)
      [] op = "Modulo" -> Evaluated_modulo(l, r)
      [] op = "StringConcat" -> Evaluated_concat(l, r)
      [] op = "Eq" -> Val(of_Tribool(Evaluated_eq(l, r)))
      [] op = "NotEq" -> Val(of_Tribool(Not(Evaluated_eq(l, r))))
      [] op \in Comparisons -> Val(Bool(Compared(op, Evaluated_cmp(l, r))))
      [] op \in Logical -> Val(Connected(op, l, r))
      [] op = "BitwiseAnd" -> Evaluated_bitwise_and(l, r)
      [] op = "BitwiseShiftLeft" -> Evaluated_bitwise_shift_left(l, r)
      [] op = "BitwiseShiftRight" -> Evaluated_bitwise_shift_right(l, r)
      [] op = "Arrow" -> arrow(l, r)

unary_op(op, e) ==
    CASE op = "Plus" -> Evaluated_unary_plus(e)
      [] op = "Minus" -> Evaluated_unary_minus(e)
      [] op = "Not" -> unary_not(e)
      [] op = "Factorial" -> Evaluated_unary_factorial(e)
      [] op = "BitwiseNot" -> Evaluated_unary_bitwise_not(e)

\* Operands with no order count as inside.
between(target, negated, low, high) ==
    IF is_null(target) \/ is_null(low) \/ is_null(high) THEN Val(Null)
    ELSE Val(Bool(negated # (Evaluated_cmp(low, target) # "Greater" /\ Evaluated_cmp(target, high) # "Greater")))

array_index(obj, indexes) ==
    LET keys == [i \in DOMAIN indexes |-> to_Value(indexes[i])]
        bad == {i \in DOMAIN keys : IsErr(keys[i])}
    IN  CASE obj.kind # "Value" -> Val(Err("MapOrListTypeRequired"))
          [] bad # {} -> Val(keys[Min(bad)])
          [] OTHER -> Val(selector_by_index(obj.value, keys))

\* A NULL target is NULL; a NULL in the list never matches.
InList(target, list, negated) ==
    IF is_null(target) THEN target
    ELSE Val(Bool(negated # \E i \in DOMAIN list : Evaluated_eq(list[i], target) = "True"))

Negatable(e, negated) ==
    IF negated /\ ~Failed(e) THEN Val(of_Tribool(Evaluated_eq(e, Val(Bool(FALSE))))) ELSE e
Like(target, pattern, negated) == Negatable(Evaluated_like(target, pattern, TRUE), negated)
ILike(target, pattern, negated) == Negatable(Evaluated_like(target, pattern, FALSE), negated)

IsNull(e) == Val(Bool(is_null(e)))
IsNotNull(e) == Val(Bool(~is_null(e)))

\* The first WHEN equal to the operand (TRUE when there is none) decides.
Case(operand, whens, thens, otherwise) ==
    LET o == IF operand = Absent THEN Val(Bool(TRUE)) ELSE operand
        hits == {i \in DOMAIN whens : Evaluated_eq(whens[i], o) = "True"}
    IN  CASE hits # {} -> thens[Min(hits)]
          [] otherwise = Absent -> Val(Null)
          [] OTHER -> otherwise

Array(elems) ==
    LET values == [i \in DOMAIN elems |-> to_Value(elems[i])]
        bad == {i \in DOMAIN values : IsErr(values[i])}
    IN  Val(IF bad = {} THEN List(values) ELSE values[Min(bad)])
=============================================================================
