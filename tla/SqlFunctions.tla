---------------------------- MODULE SqlFunctions -----------------------------
(***************************************************************************)
(* core/src/executor/evaluate/function.rs: the SQL functions.  Each takes  *)
(* and returns an Evaluated.  A NULL argument ends most of them with NULL  *)
(* (break_if_null), in the order in which they read their arguments.       *)
(* An omitted argument is Absent.                                          *)
(***************************************************************************)
EXTENDS Evaluate

LOCAL INSTANCE FiniteSetsExt

\* break_if_null: a NULL and an error end the function.
Stops(v) == v = Null \/ IsErr(v)
OfType(v, types, error) == IF Stops(v) \/ v.type \in types THEN v ELSE Err(error)

eval_to_str(e) == OfType(to_Value(e), {"Str"}, "FunctionRequiresStringValue")
eval_to_int(e) == OfType(to_Value(e), {"I64"}, "FunctionRequiresIntegerValue")
eval_to_float(e) ==
    LET v == OfType(to_Value(e), {"I64"} \cup Float, "FunctionRequiresFloatValue")
    IN  IF Stops(v) THEN v ELSE IF v.type = "I64" THEN Plain("F64", v.n * Scale) ELSE [v EXCEPT !.type = "F64"]
eval_to_point(e) == OfType(to_Value(e), {"Point"}, "FunctionRequiresPointValue")

\* eval_to_int, then usize::try_from
EvalToUsize(e) ==
    LET v == eval_to_int(e)
    IN  IF Stops(v) \/ Fits("U64", v.n) THEN v ELSE Err("FunctionRequiresUSizeValue")

\* The first argument that ends the function, or the result.
Unless(args, result) ==
    LET stops == {i \in DOMAIN args : Stops(args[i])}
    IN  Val(IF stops = {} THEN result ELSE args[Min(stops)])

\* The text functions are about texts of characters.
(***************************************************************************)
(* Text                                                                    *)
(***************************************************************************)
RECURSIVE Concatenated(_, _)
Concatenated(first, rest) ==
    IF rest = <<>> \/ is_null(first) \/ Failed(first) THEN first
    ELSE Concatenated(Evaluated_concat(first, Head(rest)), Tail(rest))
concat_fn(exprs) ==
    IF exprs = <<>> THEN Val(Err("EmptyArgNotAllowedInConcat")) ELSE Concatenated(Head(exprs), Tail(exprs))

RECURSIVE Joined(_, _)
Joined(texts, separator) ==
    CASE texts = <<>> -> <<>>
      [] Len(texts) = 1 -> texts[1].s
      [] OTHER -> texts[1].s \o separator \o Joined(Tail(texts), separator)
concat_ws(separator, exprs) ==
    LET sep == eval_to_str(separator)
        given == [i \in DOMAIN exprs |-> to_Value(exprs[i])]
        bad == {i \in DOMAIN given : IsErr(given[i])}
        kept == SelectSeq(given, LAMBDA v : v # Null)
        texts == [i \in DOMAIN kept |-> to_String(kept[i])]
    IN  CASE Stops(sep) -> Val(sep)
          [] bad # {} -> Val(given[Min(bad)])
          [] OTHER -> Val(Holding("Str", Joined(texts, sep.s)))

lower(e) == LET v == eval_to_str(e) IN Val(IF Stops(v) THEN v ELSE Str([i \in DOMAIN v.s |-> LowerCase(v.s[i].n)]))
upper(e) == LET v == eval_to_str(e) IN Val(IF Stops(v) THEN v ELSE Str([i \in DOMAIN v.s |-> UpperCase(v.s[i].n)]))

IsAlphanumeric(c) == c \in Lower \cup Upper
initcap(e) ==
    LET v == eval_to_str(e)
        Starts(i) == i = 1 \/ ~IsAlphanumeric(v.s[i - 1].n)
    IN  Val(IF Stops(v) THEN v
            ELSE Str([i \in DOMAIN v.s |-> IF Starts(i) THEN UpperCase(v.s[i].n) ELSE LowerCase(v.s[i].n)]))

\* The range from..to, counted from 0.
Part(v, from, to) == Holding(v.type, SubSeq(v.s, from + 1, to))

left_or_right(name, e, size) ==
    LET v == eval_to_str(e)
        n == EvalToUsize(size)
        whole == n.n > Len(v.s)
    IN  Unless(<<v, n>>, IF whole THEN v ELSE IF name = "LEFT" THEN Part(v, 0, n.n) ELSE Part(v, Len(v.s) - n.n, Len(v.s)))

RECURSIVE Repeated(_, _)
Repeated(s, n) == IF n = 0 \/ s = <<>> THEN <<>> ELSE s \o Repeated(s, n - 1)

\* Fault: the last repetition is not cut.
PaddingWhole(f, gap) == Repeated(f, (gap + Len(f) - 1) \div Len(f))
Padding(f, gap) == Repeated(f, gap \div Len(f)) \o SubSeq(f, 1, gap % Len(f))

\* An empty fill divides by zero.
lpad_or_rpad(name, e, size, fill) ==
    LET v == eval_to_str(e)
        n == EvalToUsize(size)
        f == IF fill = Absent THEN Str(<<Space>>) ELSE eval_to_str(fill)
        gap == n.n - Len(v.s)
        padding == Padding(f.s, gap)
        result == CASE gap <= 0 -> Part(v, 0, n.n)
                    [] f.s = <<>> -> Panic
                    [] OTHER -> Holding("Str", IF name = "LPAD" THEN padding \o v.s ELSE v.s \o padding)
    IN  Unless(<<v, n, f>>, result)

Reversed(s) == [i \in DOMAIN s |-> s[Len(s) + 1 - i]]
reverse(e) == LET v == eval_to_str(e) IN Val(IF Stops(v) THEN v ELSE Holding("Str", Reversed(v.s)))

\* A negative count `as usize` asks for more than a String can hold.
repeat(e, count) ==
    LET v == eval_to_str(e)
        n == eval_to_int(count)
    IN  Unless(<<v, n>>, IF n.n < 0 /\ v.s # <<>> THEN Panic ELSE Holding("Str", Repeated(v.s, IF v.s = <<>> THEN 0 ELSE n.n)))

StartsWith(s, sub) == Len(sub) <= Len(s) /\ SubSeq(s, 1, Len(sub)) = sub

\* str::replace: the matches do not overlap; an empty one is found around every character.
RECURSIVE Replaced(_, _, _)
Replaced(s, old, new) ==
    CASE s = <<>> -> IF old = <<>> THEN new ELSE <<>>
      [] old = <<>> -> new \o <<Head(s)>> \o Replaced(Tail(s), old, new)
      [] StartsWith(s, old) -> new \o Replaced(SubSeq(s, Len(old) + 1, Len(s)), old, new)
      [] OTHER -> <<Head(s)>> \o Replaced(Tail(s), old, new)
replace(e, old, new) ==
    LET v == eval_to_str(e)
        o == eval_to_str(old)
        n == eval_to_str(new)
    IN  Unless(<<v, o, n>>, Holding("Str", Replaced(v.s, o.s, n.s)))

ascii(e) ==
    LET v == eval_to_str(e)
    IN  Val(CASE Stops(v) -> v
              [] Len(v.s) = 1 -> Plain("U8", v.s[1].n)
              [] OTHER -> Err("AsciiFunctionRequiresSingleCharacterValue"))
chr(e) ==
    LET v == eval_to_int(e)
    IN  Val(CASE Stops(v) -> v
              [] v.n \in 0..MaxOf("U8") -> Str(<<v.n>>)
              [] OTHER -> Err("ChrFunctionRequiresIntegerValueInRange0To255"))

\* The digest and the digits of v are one token each.
md5(e) == LET v == eval_to_str(e) IN Val(IF Stops(v) THEN v ELSE Text(Holding("Md5", <<v>>)))
hex(e) ==
    LET v == OfType(to_Value(e), {"I64", "Str"}, "FunctionRequiresIntegerOrStringValue")
    IN  Val(IF Stops(v) THEN v ELSE Text(Holding("Hex", <<v>>)))

str_position(from, sub) ==
    LET found == {i \in 1..(Len(from.s) + 1 - Len(sub.s)) : SubSeq(from.s, i, i + Len(sub.s) - 1) = sub.s}
    IN  IF sub.s = <<>> \/ from.s = <<>> \/ found = {} THEN 0 ELSE Min(found)

\* Value::position, Value::find_idx: an offset past the end slices out of bounds.
position(from, sub) ==
    CASE from.type = "Str" /\ sub.type = "Str" -> Plain("I64", str_position(from, sub))
      [] from = Null \/ sub = Null -> Null
      [] OTHER -> Err("NonStringParameterInPosition")
\* Fault: the place is counted from the offset.
find_idx_relative(from, sub, start) ==
    CASE start.n <= 0 -> Err("NonPositiveIntegerOffsetInFindIdx")
      [] start.n - 1 > Len(from.s) -> Panic
      [] OTHER -> Plain("I64", str_position(Part(from, start.n - 1, Len(from.s)), sub))
find_idx(from, sub, start) ==
    LET tail == Part(from, start.n - 1, Len(from.s))
        at == str_position(tail, sub)
    IN  CASE start.n <= 0 -> Err("NonPositiveIntegerOffsetInFindIdx")
          [] start.n - 1 > Len(from.s) -> Panic
          [] OTHER -> Plain("I64", IF at = 0 THEN 0 ELSE at + start.n - 1)

position_fn(from, sub) ==
    LET f == to_Value(from)
        s == to_Value(sub)
    IN  Unless(<<f, s>>, position(f, s))
find_idx_fn(from, sub, start) ==
    LET f == eval_to_str(from)
        s == eval_to_str(sub)
        i == eval_to_int(start)
    IN  IF start = Absent THEN Unless(<<f, s>>, position(f, s)) ELSE Unless(<<f, s, i>>, find_idx(f, s, i))

(***************************************************************************)
(* Numbers                                                                 *)
(***************************************************************************)
\* There is no case for I16.
abs(e) ==
    LET v == OfType(to_Value(e), (Signed \ {"I16"}) \cup Float \cup {"Decimal"}, "FunctionRequiresFloatValue")
    IN  Val(CASE Stops(v) \/ IsNaN(v) -> v
              [] v.type \in Signed -> Unchecked(v.type, Abs(v.n))
              [] OTHER -> Plain(v.type, Abs(v.n)))

sign(e) ==
    LET v == eval_to_float(e)
    IN  Val(CASE Stops(v) -> v
              [] v.n = 0 -> Plain("I8", 0)
              [] OTHER -> Plain("I8", IF v.n > 0 THEN 1 ELSE -1))

sqrt_fn(e) == Val(IF IsErr(to_Value(e)) THEN to_Value(e) ELSE sqrt(to_Value(e)))

\* A float rounded to q quarters keeps its sign when it becomes zero.
Rounded(v, q) ==
    CASE Stops(v) \/ IsNaN(v) -> Val(v)
      [] q = 0 /\ (v.n < 0 \/ IsMarked(v, "MinusZero")) -> Val(MinusZero("F64"))
      [] OTHER -> Val(Plain("F64", q))
ceil(e) == LET v == eval_to_float(e) IN Rounded(v, -((-v.n) \div Scale) * Scale)
floor(e) == LET v == eval_to_float(e) IN Rounded(v, (v.n \div Scale) * Scale)
trunc(e) == LET v == eval_to_float(e) IN Rounded(v, Trunc(v.n) * Scale)
\* halves go away from zero
round(e) ==
    LET v == eval_to_float(e)
        half == Scale \div 2
    IN  Rounded(v, Trunc(IF v.n < 0 THEN v.n - half ELSE v.n + half) * Scale)

div(dividend, divisor) ==
    LET a == eval_to_float(dividend)
        b == eval_to_float(divisor)
        result == CASE IsNaN(b) -> Plain("I64", 0)
                    [] b.n = 0 -> DivisorShouldNotBeZero
                    [] IsNaN(a) -> Plain("I64", 0)
                    [] OTHER -> Plain("I64", Saturate("I64", Quot(a.n, b.n)))
    IN  Unless(<<a, b>>, result)

RECURSIVE Euclid(_, _)
Euclid(a, b) == IF b > 0 THEN Euclid(b, a % b) ELSE a
gcd_i64(a, b) ==
    IF a = MinOf("I64") \/ b = MinOf("I64") THEN Err("GcdLcmOverflow") ELSE Plain("I64", Euclid(Abs(a), Abs(b)))
gcd(l, r) ==
    LET a == eval_to_int(l)
        b == eval_to_int(r)
    IN  Unless(<<a, b>>, gcd_i64(a.n, b.n))
lcm(l, r) ==
    LET a == eval_to_int(l)
        b == eval_to_int(r)
        g == gcd_i64(a.n, b.n)
        m == IF g.n = 0 THEN 0 ELSE Abs(a.n * b.n) \div g.n
        result == CASE IsErr(g) -> g
                    [] Fits("I64", m) -> Plain("I64", m)
                    [] OTHER -> Err("LcmResultOutOfRange")
    IN  Unless(<<a, b>>, result)

(***************************************************************************)
(* NULL and choice                                                         *)
(***************************************************************************)
ifnull(e, then) == IF is_null(e) THEN then ELSE e

\* Two Evaluateds are equal only in the same form: 1 is not I64 1.
SameEvaluated(a, b) ==
    /\ a.kind = b.kind
    /\ CASE a.kind = "Value" -> value_eq(a.value, b.value)
         [] a.kind = "Number" -> a.value.n = b.value.n
         [] OTHER -> a = b
nullif(a, b) == IF SameEvaluated(a, b) THEN Val(Null) ELSE a

RECURSIVE GreatestOf(_, _)
GreatestOf(best, rest) ==
    IF rest = <<>> THEN best
    ELSE LET order == Evaluated_cmp(best, Head(rest))
         IN  CASE order = "None" -> Val(Err("NonComparableArgumentError"))
               [] order = "Less" -> GreatestOf(Head(rest), Tail(rest))
               [] OTHER -> GreatestOf(best, Tail(rest))
greatest(exprs) ==
    IF exprs = <<>> THEN Val(Err("FunctionRequiresAtLeastOneArgument")) ELSE GreatestOf(Head(exprs), Tail(exprs))

coalesce(exprs) ==
    LET given == [i \in DOMAIN exprs |-> to_Value(exprs[i])]
        present == {i \in DOMAIN given : given[i] # Null}
    IN  Val(CASE exprs = <<>> -> Err("FunctionRequiresMoreArguments")
              [] present = {} -> Null
              [] OTHER -> given[Min(present)])

(***************************************************************************)
(* Lists and maps                                                          *)
(***************************************************************************)
ListRequired(v, result) == IF v.type = "List" THEN result ELSE Err("ListTypeRequired")

append(e, value) ==
    LET l == to_Value(e)
        v == to_Value(value)
    IN  Unless(<<l, v>>, ListRequired(l, List(Append(l.s, v))))
prepend(e, value) ==
    LET l == to_Value(e)
        v == to_Value(value)
    IN  Unless(<<l, v>>, ListRequired(l, List(<<v>> \o l.s)))

\* iter().skip(n) and iter().take(n)
Skipped(s, n) == IF n >= Len(s) THEN <<>> ELSE SubSeq(s, n + 1, Len(s))
Taken(s, n) == SubSeq(s, 1, IF n < Len(s) THEN n ELSE Len(s))

skip(e, size) ==
    LET l == to_Value(e)
        n == EvalToUsize(size)
    IN  Unless(<<l, n>>, ListRequired(l, List(Skipped(l.s, n.n))))
take(e, size) ==
    LET l == to_Value(e)
        n == EvalToUsize(size)
    IN  Unless(<<l, n>>, ListRequired(l, List(Taken(l.s, n.n))))
slice(e, start, length) ==
    LET l == to_Value(e)
        from == eval_to_int(start)
        n == EvalToUsize(length)
        at == IF from.n < 0 THEN from.n + Len(l.s) ELSE from.n
    IN  Unless(<<l, from, n>>, ListRequired(l, List(Taken(Skipped(l.s, IF at < 0 THEN 0 ELSE at), n.n))))

\* sort_by is stable: each element goes after the ones ordered before it.
Sorted(s, asc) ==
    LET Order(i, j) == IF asc THEN key_cmp(s[i], s[j]) ELSE key_cmp(s[j], s[i])
        Before(i) == {j \in DOMAIN s : Order(j, i) = "Less" \/ (Order(j, i) = "Equal" /\ j < i)}
    IN  [k \in DOMAIN s |-> s[CHOOSE i \in DOMAIN s : Cardinality(Before(i)) = k - 1]]

AscText == Text(Mark("ASC"))
DescText == Text(Mark("DESC"))
sort(e, order) ==
    LET l == to_Value(e)
        o == IF order = Absent THEN AscText ELSE to_Value(order)
        result == CASE \E i \in DOMAIN l.s : IsErr(to_Key(l.s[i])) -> Err("InvalidSortType")
                    [] o \notin {AscText, DescText} -> Err("InvalidSortOrder")
                    [] OTHER -> List(Sorted(l.s, o = AscText))
    IN  Unless(<<l, o>>, ListRequired(l, result))

is_empty(e) ==
    LET v == OfType(to_Value(e), {"List", "Map"}, "MapOrListTypeRequired")
    IN  Val(IF Stops(v) THEN v ELSE Bool(v.s = <<>>))
length(e) ==
    LET v == OfType(to_Value(e), {"Str", "List", "Map"}, "FunctionRequiresStrOrListOrMapValue")
    IN  Val(IF Stops(v) THEN v ELSE Plain("U64", Len(v.s)))

\* The end before the beginning underflows usize; without checks it wraps and drops the rest.
splice(e, begin, end, center) ==
    LET l == to_Value(e)
        b == eval_to_int(begin)
        n == eval_to_int(end)
        from == IF b.n < 0 THEN 0 ELSE b.n
        dropped == (IF n.n < 0 THEN 0 ELSE n.n) - from
        kept == IF dropped < 0 THEN <<>> ELSE Skipped(Skipped(l.s, from), dropped)
        c == IF center = Absent THEN List(<<>>) ELSE to_Value(center)
        result == ListRequired(c, List(Taken(l.s, from) \o c.s \o kept))
    IN  CASE Stops(l) -> Val(l)
          [] l.type # "List" -> Val(Err("ListTypeRequired"))
          [] Stops(b) -> Val(b)
          [] Stops(n) -> Val(n)
          [] dropped < 0 /\ OverflowChecks -> Val(Panic)
          [] OTHER -> Unless(<<c>>, result)

\* Vec::dedup: only neighbours are compared.
dedup(e) ==
    LET l == to_Value(e)
        kept == {i \in DOMAIN l.s : i > 1 => ~value_eq(l.s[i], l.s[i - 1])}
        Nth(k) == CHOOSE i \in kept : Cardinality({j \in kept : j <= i}) = k
    IN  Unless(<<l>>, ListRequired(l, List([k \in 1..Cardinality(kept) |-> l.s[Nth(k)]])))

entries(e) ==
    LET m == OfType(to_Value(e), {"Map"}, "FunctionRequiresMapValue")
    IN  Unless(<<m>>, List([i \in DOMAIN m.s |-> List(m.s[i].s)]))
keys(e) ==
    LET m == OfType(to_Value(e), {"Map"}, "MapTypeRequired")
    IN  Unless(<<m>>, List([i \in DOMAIN m.s |-> m.s[i].s[1]]))
values(e) ==
    LET m == OfType(to_Value(e), {"Map"}, "MapTypeRequired")
    IN  Unless(<<m>>, List([i \in DOMAIN m.s |-> m.s[i].s[2]]))

\* The selector's text is given as its dotted path.
unwrap(e, path) ==
    CASE is_null(e) -> e
      [] e.kind # "Value" -> Val(Err("FunctionRequiresMapValue"))
      [] OTHER -> Val(selector(e.value, path))

(***************************************************************************)
(* Dates and points                                                        *)
(***************************************************************************)
\* A format names the type it prints all of.  Formatting a part the value has
\* not got is an error of Display, which to_string turns into a panic.
FormatOf(type) == Text(Holding("Format", <<Mark(type)>>))
IsFormat(v) == HasToken(v, "Format")
Parts(type) == IF type = "Timestamp" THEN {"Date", "Time", "Timestamp"} ELSE {type}

format(e, fmt) ==
    LET v == OfType(to_Value(e), {"Date", "Time", "Timestamp"}, "UnsupportedExprForFormatFunction")
        f == eval_to_str(fmt)
        part == Token(f).s[1].type
        result == CASE part \notin Parts(v.type) -> Panic
                    [] part = v.type -> Text(v)
                    [] part = "Date" -> Text(Plain("Date", DatePart(v)))
                    [] part = "Time" -> Text(Plain("Time", TimePart(v)))
    IN  Unless(<<v, f>>, result)

\* parse_from_str takes what the same format prints.
ParseAs(type, e, fmt) ==
    LET v == eval_to_str(e)
        f == eval_to_str(fmt)
    IN  Unless(<<v, f>>, IF f = FormatOf(type) /\ HasToken(v, type) THEN Token(v) ELSE Err("FormatParseError"))
to_date(e, fmt) == ParseAs("Date", e, fmt)
to_timestamp(e, fmt) == ParseAs("Timestamp", e, fmt)
to_time(e, fmt) == ParseAs("Time", e, fmt)

\* NaiveDate::checked_add_months: the last day of a shorter month stands in for a later one.
AddMonths(day, k) ==
    LET months == YearOf(day) * 12 + MonthOf(day) - 1 + k
        y == months \div 12
        m == (months % 12) + 1
        d == IF DayOf(day) > MonthDays(y, m) THEN MonthDays(y, m) ELSE DayOf(day)
    IN  IF y \in FirstYear..LastYear THEN Plain("Date", DayNumber(y, m, d)) ELSE ConvertFailed

last_day(e) ==
    LET v == OfType(to_Value(e), {"Date", "Timestamp"}, "FunctionRequiresDateOrDateTimeValue")
        day == IF v.type = "Date" THEN v.n ELSE DatePart(v)
        next == AddMonths(day, 1)
    IN  Val(IF Stops(v) THEN v ELSE IF IsErr(next) THEN Panic ELSE Plain("Date", next.n - DayOf(day)))

add_month(e, size) ==
    LET n == eval_to_int(size)
        v == eval_to_str(e)
        moved == AddMonths(Token(v).n, n.n)
        result == CASE ~HasToken(v, "Date") -> Err("FormatParseError")
                    [] n.n = MinOf("I64") -> IF OverflowChecks THEN Panic ELSE Err("I64ToU32ConversionFailure")
                    [] ~Fits("U32", Abs(n.n)) -> Err("I64ToU32ConversionFailure")
                    [] IsErr(moved) -> Err("ChrFunctionRequiresIntegerValueInRange0To255")
                    [] OTHER -> moved
    IN  Unless(<<n, v>>, result)

extract_fn(field, e) == Val(IF IsErr(to_Value(e)) THEN to_Value(e) ELSE extract(field, to_Value(e)))

point(x, y) ==
    LET a == eval_to_float(x)
        b == eval_to_float(y)
    IN  Unless(<<a, b>>, [type |-> "Point", n |-> a.n, s |-> <<b>>])
get_x(e) == LET p == eval_to_point(e) IN Val(IF Stops(p) THEN p ELSE Plain("F64", p.n))
get_y(e) == LET p == eval_to_point(e) IN Val(IF Stops(p) THEN p ELSE p.s[1])
calc_distance(a, b) ==
    LET p == eval_to_point(a)
        q == eval_to_point(b)
        dx == p.n - q.n
        dy == p.s[1].n - q.s[1].n
    IN  Unless(<<p, q>>, sqrt(Plain("F64", Quot(dx * dx + dy * dy, Scale))))
=============================================================================
