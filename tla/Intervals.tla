----------------------------- MODULE Intervals ------------------------------
(***************************************************************************)
(* The data every value-level module is about: core/src/data/value.rs's    *)
(* `Value`, the widths of its integers, its errors and its text forms.     *)
(*                                                                         *)
(* A value is a record [type, n, s] of one shape for every variant, so     *)
(* that TLC can compare any two of them:                                   *)
(*   Bool, integers, Uuid   n is the number (FALSE is 0, TRUE is 1)        *)
(*   F32, F64, Decimal      n counts quarters; s marks NaN and minus zero  *)
(*   Date                   n is num_days_from_ce                          *)
(*   Time, Timestamp        n counts ticks since midnight / since day 0    *)
(*   Interval               n months or microseconds, s marks which        *)
(*   Inet                   n is the address, s marks V4 or V6             *)
(*   Str                    s is a sequence of Char, or one text token     *)
(*   Bytea, List            s holds the bytes / the elements               *)
(*   Map                    s holds Entry records in key order             *)
(*   Point                  n is x in quarters, s holds the F64 y          *)
(*                                                                         *)
(* A text token stands for everything one conversion to text prints; what  *)
(* may be parsed back from it is decided by its kind, not by characters.   *)
(***************************************************************************)
EXTENDS Integers, Sequences

CONSTANTS Bits,            \* the width of each integer type
          DecimalMax,      \* the largest Decimal, in quarters
          OverflowChecks   \* was the build made with overflow checks?

Signed == {"I8", "I16", "I32", "I64", "I128"}
Unsigned == {"U8", "U16", "U32", "U64", "U128"}
Integer == Signed \cup Unsigned
Float == {"F32", "F64"}
Numeric == Integer \cup Float \cup {"Decimal"}

ASSUME BitsAssumption == Bits \in [Integer -> Nat \ {0}]
ASSUME DecimalAssumption == DecimalMax \in Nat
ASSUME ChecksAssumption == OverflowChecks \in BOOLEAN

Mark(kind) == [type |-> kind, n |-> 0, s |-> <<>>]
Plain(type, n) == [type |-> type, n |-> n, s |-> <<>>]
Marked(type, n, kind) == [type |-> type, n |-> n, s |-> <<Mark(kind)>>]
Holding(type, s) == [type |-> type, n |-> 0, s |-> s]

Null == Mark("Null")
Bool(b) == Plain("Bool", IF b THEN 1 ELSE 0)
Str(chars) == Holding("Str", [i \in 1..Len(chars) |-> Plain("Char", chars[i])])
Text(token) == Holding("Str", <<token>>)
List(values) == Holding("List", values)
Map(entries) == Holding("Map", entries)
Entry(key, value) == Holding("Entry", <<key, value>>)
NaN(type) == Marked(type, 0, "NaN")
MinusZero(type) == Marked(type, 0, "MinusZero")

IsMarked(v, kind) == v.s = <<Mark(kind)>>
IsNaN(v) == v.type \in Float /\ IsMarked(v, "NaN")

(* A failure is a value of its own type; Panic is an abort of the thread.  *)
Err(kind) == Marked("Error", 0, kind)
IsErr(v) == v.type = "Error"
Panic == Err("Panic")

(***************************************************************************)
(* Fixed-width integers.                                                   *)
(***************************************************************************)
MaxOf(t) == IF t \in Signed THEN 2^(Bits[t] - 1) - 1 ELSE 2^Bits[t] - 1
MinOf(t) == IF t \in Signed THEN -(2^(Bits[t] - 1)) ELSE 0
Fits(t, n) == MinOf(t) <= n /\ n <= MaxOf(t)

\* `n as T` for an integer n.
Wrap(t, n) == ((n - MinOf(t)) % 2^Bits[t]) + MinOf(t)

\* `x as T` for a float x, already truncated.
Saturate(t, n) == IF n < MinOf(t) THEN MinOf(t) ELSE IF n > MaxOf(t) THEN MaxOf(t) ELSE n

\* Plain arithmetic of T on a result n: a panic, or the wrapped number.
Unchecked(t, n) ==
    IF Fits(t, n) THEN Plain(t, n)
    ELSE IF OverflowChecks THEN Panic ELSE Plain(t, Wrap(t, n))

\* Division and remainder truncate toward zero.
Abs(n) == IF n < 0 THEN -n ELSE n
Quot(a, b) == IF (a < 0) = (b < 0) THEN Abs(a) \div Abs(b) ELSE -(Abs(a) \div Abs(b))
Rem(a, b) == a - b * Quot(a, b)

(***************************************************************************)
(* Floats and decimals count quarters.                                     *)
(***************************************************************************)
Scale == 4
Scaled(v) == IF v.type \in Integer THEN v.n * Scale ELSE v.n
Trunc(q) == Quot(q, Scale)

(***************************************************************************)
(* core/src/data/interval.rs, interval/primitive.rs, interval/string.rs:   *)
(* intervals, their arithmetic with numbers, dates and times, and their    *)
(* text form.  The calendar is chrono's, the proleptic Gregorian one, cut  *)
(* to the years FirstYear..LastYear; a day has DAY microseconds.           *)
(***************************************************************************)

CONSTANTS FirstYear, LastYear

ASSUME CalendarAssumption == FirstYear \in Int /\ LastYear \in Int /\ FirstYear < LastYear

(***************************************************************************)
(* The calendar (chrono).                                                  *)
(***************************************************************************)
NANOS == 2               \* ticks in a microsecond
MILLI == 2               \* microseconds in a millisecond
SECOND == 4
MINUTE == 2 * SECOND
HOUR == 4 * SECOND
DAY == 3 * HOUR
DayTicks == DAY * NANOS

IsLeap(y) == y % 4 = 0 /\ (y % 100 # 0 \/ y % 400 = 0)
MonthDays(y, m) ==
    CASE m = 2 -> IF IsLeap(y) THEN 29 ELSE 28
      [] m \in {4, 6, 9, 11} -> 30
      [] OTHER -> 31
BeforeMonth(y, m) ==
    <<0, 31, 59, 90, 120, 151, 181, 212, 243, 273, 304, 334>>[m] + IF IsLeap(y) /\ m > 2 THEN 1 ELSE 0
BeforeYear(y) == 365 * (y - 1) + ((y - 1) \div 4) - ((y - 1) \div 100) + ((y - 1) \div 400)

IsYmd(y, m, d) == y \in FirstYear..LastYear /\ m \in 1..12 /\ d \in 1..MonthDays(y, m)
DayNumber(y, m, d) == BeforeYear(y) + BeforeMonth(y, m) + d
FirstDay == DayNumber(FirstYear, 1, 1)
LastDay == DayNumber(LastYear, 12, 31)

YearOf(day) == CHOOSE y \in FirstYear..LastYear : BeforeYear(y) < day /\ day <= BeforeYear(y + 1)
MonthOf(day) ==
    LET y == YearOf(day)
    IN  CHOOSE m \in 1..12 : day - BeforeYear(y) - BeforeMonth(y, m) \in 1..MonthDays(y, m)
DayOf(day) == day - BeforeYear(YearOf(day)) - BeforeMonth(YearOf(day), MonthOf(day))

Midnight(day) == Plain("Timestamp", day * DayTicks)
DatePart(ts) == ts.n \div DayTicks
TimePart(ts) == ts.n % DayTicks
At(y, m, d, ticks) == Plain("Timestamp", DayNumber(y, m, d) * DayTicks + ticks)

\* NaiveDateTime + Duration: panics past either end of the calendar.
Shift(ts, ticks) ==
    IF (ts.n + ticks) \div DayTicks \in FirstDay..LastDay THEN Plain("Timestamp", ts.n + ticks) ELSE Panic

(***************************************************************************)
(* interval.rs                                                             *)
(***************************************************************************)
Interval(kind, n) == Marked("Interval", n, kind)
Month(n) == Interval("Month", n)
Microsecond(n) == Interval("Microsecond", n)
KindOf(iv) == iv.s[1].type
Cell(iv) == IF KindOf(iv) = "Month" THEN "I32" ELSE "I64"

\* The interval an integer result r of the cell's own type makes.
Sized(kind, r) == IF IsErr(r) THEN r ELSE Interval(kind, r.n)

interval_cmp(l, r) ==
    IF KindOf(l) # KindOf(r) THEN "None"
    ELSE IF l.n < r.n THEN "Less" ELSE IF l.n = r.n THEN "Equal" ELSE "Greater"

interval_unary_minus(iv) == Sized(KindOf(iv), Unchecked(Cell(iv), -iv.n))

interval_add(l, r) ==
    IF KindOf(l) = KindOf(r) THEN Sized(KindOf(l), Unchecked(Cell(l), l.n + r.n))
    ELSE Err("AddBetweenYearToMonthAndHourToSecond")

interval_subtract(l, r) ==
    IF KindOf(l) = KindOf(r) THEN Sized(KindOf(l), Unchecked(Cell(l), l.n - r.n))
    ELSE Err("SubtractBetweenYearToMonthAndHourToSecond")

\* Fault: a day the month has not got becomes its last one.
MovedToMonthEnd(ts, year, month) ==
    LET day == DayOf(DatePart(ts))
    IN  IF IsYmd(year, month, 1)
        THEN At(year, month, IF day > MonthDays(year, month) THEN MonthDays(year, month) ELSE day, TimePart(ts))
        ELSE Err("DateOverflow")
\* with_year(year).and_then(with_month(month))
Moved(ts, year, month) ==
    LET day == DatePart(ts)
    IN  IF IsYmd(year, MonthOf(day), DayOf(day)) /\ IsYmd(year, month, DayOf(day))
        THEN At(year, month, DayOf(day), TimePart(ts))
        ELSE Err("DateOverflow")

add_timestamp(iv, ts) ==
    IF KindOf(iv) = "Microsecond" THEN Shift(ts, iv.n * NANOS)
    ELSE LET month == Unchecked("I32", MonthOf(DatePart(ts)) + iv.n)
         IN  IF IsErr(month) THEN month
             ELSE Moved(ts, YearOf(DatePart(ts)) + Quot(month.n, 12), Rem(month.n, 12))

subtract_from_timestamp(iv, ts) ==
    IF KindOf(iv) = "Microsecond" THEN Shift(ts, -iv.n * NANOS)
    ELSE LET months == YearOf(DatePart(ts)) * 12 + MonthOf(DatePart(ts)) - iv.n
         IN  Moved(ts, Quot(months, 12), Rem(months, 12))

add_date(iv, date) == add_timestamp(iv, Midnight(date.n))
subtract_from_date(iv, date) == subtract_from_timestamp(iv, Midnight(date.n))

add_time(iv, time) ==
    IF KindOf(iv) = "Month" THEN Err("AddYearOrMonthToTime")
    ELSE Plain("Time", (time.n + iv.n * NANOS) % DayTicks)

subtract_from_time(iv, time) ==
    IF KindOf(iv) = "Month" THEN Err("SubtractYearOrMonthToTime")
    ELSE Plain("Time", (time.n - iv.n * NANOS) % DayTicks)

years(n) == Sized("Month", Unchecked("I32", 12 * n))
days(n) == Sized("Microsecond", Unchecked("I64", n * DAY))

Units == [Day |-> DAY, Hour |-> HOUR, Minute |-> MINUTE, Second |-> SECOND]

interval_extract(field, iv) ==
    CASE KindOf(iv) = "Month" /\ field = "Year" -> Plain("I64", Quot(iv.n, 12))
      [] KindOf(iv) = "Month" /\ field = "Month" -> Plain("I64", iv.n)
      [] KindOf(iv) = "Microsecond" /\ field \in DOMAIN Units -> Plain("I64", Quot(iv.n, Units[field]))
      [] OTHER -> Err("FailedToExtract")

(***************************************************************************)
(* The text form: a sign, the two fields, and the numbers between them.    *)
(* A six-digit fraction of a second counts SECOND-ths, i.e. quarters.      *)
(***************************************************************************)
IntervalText(sign, from, to, nums) ==
    [type |-> "IntervalText", n |-> sign,
     s |-> <<Mark(from), Mark(to)>> \o [i \in 1..Len(nums) |-> Plain("Num", nums[i])]]
Nums(token) == [i \in 1..(Len(token.s) - 2) |-> token.s[i + 2].n]

parse_integer(n) == IF Fits("I32", n) THEN Plain("I32", n) ELSE Err("FailedToParseInteger")

parse_decimal(quarters, duration) ==
    CASE Abs(quarters * duration) > DecimalMax -> Panic
      [] ~Fits("I64", Trunc(quarters * duration)) -> Err("FailedToParseDecimal")
      [] OTHER -> Microsecond(Trunc(quarters * duration))

\* Fault: the fraction of the second is dropped.
parse_clock_whole(h, m, s, micro) == Microsecond(h * HOUR + m * MINUTE + s * SECOND)
parse_clock(h, m, s, micro) == Microsecond(h * HOUR + m * MINUTE + s * SECOND + micro)

Negated(sign, iv) == IF IsErr(iv) THEN iv ELSE Sized(KindOf(iv), Unchecked(Cell(iv), sign * iv.n))

\* days(days)?.add(time)? * sign
AddTo(l, r) == IF IsErr(l) THEN l ELSE interval_add(l, r)
DaysAnd(sign, day, clock) == IF IsErr(day) THEN day ELSE Negated(sign, AddTo(days(day.n), clock))

YearsOf(n) == IF IsErr(n) THEN n ELSE years(n.n)
MonthsOf(n) == IF IsErr(n) THEN n ELSE Month(n.n)

\* (unit * a + b) * sign as a number of the kind, w of its units each.
Both(sign, a, b, unit, kind, w) ==
    CASE IsErr(a) -> a
      [] IsErr(b) -> b
      [] ~Fits("I32", unit * a.n + b.n) -> Panic
      [] OTHER -> Sized(kind, Unchecked(IF kind = "Month" THEN "I32" ELSE "I64", sign * (unit * a.n + b.n) * w))

\* One field, and a range of fields.
OneField(sign, f, k) ==
    CASE f = "Year" -> YearsOf(parse_integer(sign * k[1]))
      [] f = "Month" -> MonthsOf(parse_integer(sign * k[1]))
      [] OTHER -> parse_decimal(sign * (k[1] * Scale + IF Len(k) > 1 THEN k[2] ELSE 0), Units[f])
FieldRange(sign, f, k) ==
    CASE f = <<"Year", "Month">> -> Both(sign, parse_integer(k[1]), parse_integer(k[2]), 12, "Month", 1)
      [] f = <<"Day", "Hour">> -> Both(sign, parse_integer(k[1]), parse_integer(k[2]), DAY \div HOUR, "Microsecond", HOUR)
      [] f = <<"Day", "Minute">> -> DaysAnd(sign, parse_integer(k[1]), parse_clock(k[2], k[3], 0, 0))
      [] f = <<"Day", "Second">> -> DaysAnd(sign, parse_integer(k[1]), parse_clock(k[2], k[3], k[4], k[5]))
      [] f = <<"Hour", "Minute">> -> Negated(sign, parse_clock(k[1], k[2], 0, 0))
      [] f = <<"Hour", "Second">> -> Negated(sign, parse_clock(k[1], k[2], k[3], k[4]))
      [] f = <<"Minute", "Second">> -> Negated(sign, parse_clock(0, k[1], k[2], k[3]))
      [] OTHER -> Err("UnsupportedRange")

try_from_str(token) ==
    IF token.s[2].type = "None" THEN OneField(token.n, token.s[1].type, Nums(token))
    ELSE FieldRange(token.n, <<token.s[1].type, token.s[2].type>>, Nums(token))

Zero(S) == \A n \in S : n = 0

MonthText(sign, year, month) ==
    CASE month = 0 /\ year # 0 -> IntervalText(sign, "Year", "None", <<year>>)
      [] year = 0 -> IntervalText(sign, "Month", "None", <<month>>)
      [] OTHER -> IntervalText(sign, "Year", "Month", <<year, month>>)

ClockText(sign, day, hour, minute, second, micro) ==
    LET T(from, to, nums) == IntervalText(sign, from, to, nums)
    IN  CASE day # 0 /\ Zero({hour, minute, second, micro}) -> T("Day", "None", <<day>>)
          [] hour # 0 /\ Zero({day, minute, second, micro}) -> T("Hour", "None", <<hour>>)
          [] minute # 0 /\ Zero({day, hour, second, micro}) -> T("Minute", "None", <<minute>>)
          [] second # 0 /\ Zero({day, hour, minute, micro}) -> T("Second", "None", <<second>>)
          [] micro # 0 /\ Zero({day, hour, minute}) -> T("Second", "None", <<second, micro>>)
          [] Zero({day, hour}) -> T("Minute", "Second", <<minute, second, micro>>)
          [] Zero({day, second, micro}) -> T("Hour", "Minute", <<hour, minute>>)
          [] day = 0 -> T("Hour", "Second", <<hour, minute, second, micro>>)
          [] Zero({minute, second, micro}) -> T("Day", "Hour", <<day, hour>>)
          [] Zero({second, micro}) -> T("Day", "Minute", <<day, hour, minute>>)
          [] OTHER -> T("Day", "Second", <<day, hour, minute, second, micro>>)

\* v is the absolute value of the interval's number.
Spelled(kind, sign, v) ==
    CASE IsErr(v) -> Panic
      [] kind = "Month" -> MonthText(sign, v.n \div 12, v.n % 12)
      [] OTHER -> ClockText(sign, v.n \div DAY, (v.n % DAY) \div HOUR, (v.n % HOUR) \div MINUTE,
                            (v.n % MINUTE) \div SECOND, v.n % SECOND)

to_sql_str(iv) == Spelled(KindOf(iv), IF iv.n < 0 THEN -1 ELSE 1, Unchecked(Cell(iv), Abs(iv.n)))

(***************************************************************************)
(* interval/primitive.rs: `Interval * k` and `Interval / k`, one per       *)
(* number type.  The count is cast to the type w the code computes in and  *)
(* the result cast back to the count's own type.                           *)
(***************************************************************************)
Back(iv, r) == IF IsErr(r) THEN r ELSE Interval(KindOf(iv), Wrap(Cell(iv), r.n))
Times(iv, w, k) == Back(iv, Unchecked(w, Wrap(w, iv.n) * k.n))
Over(iv, w, k) == IF k.n = 0 THEN Panic ELSE
                  IF ~Fits(w, Quot(Wrap(w, iv.n), k.n)) THEN Panic ELSE
                  Back(iv, Plain(w, Quot(Wrap(w, iv.n), k.n)))

\* A NaN casts to 0, anything beyond the type to its nearest end.
TimesFloat(iv, k) ==
    Interval(KindOf(iv), IF IsNaN(k) THEN 0 ELSE Saturate(Cell(iv), Trunc(iv.n * k.n)))
OverFloat(iv, k) ==
    Interval(KindOf(iv),
             CASE IsNaN(k) -> 0
               [] k.n # 0 -> Saturate(Cell(iv), Quot(iv.n * Scale, k.n))
               [] iv.n = 0 -> 0
               [] OTHER -> IF (iv.n < 0) = (k.s = <<>>) THEN MinOf(Cell(iv)) ELSE MaxOf(Cell(iv)))

mul_i8(iv, k) == Times(iv, Cell(iv), k)
mul_i16(iv, k) == Times(iv, Cell(iv), k)
mul_i32(iv, k) == Times(iv, Cell(iv), k)
mul_i64(iv, k) == Times(iv, "I64", k)
mul_i128(iv, k) == Times(iv, "I128", k)
mul_u8(iv, k) == Times(iv, "U8", k)
mul_u16(iv, k) == Times(iv, "U16", k)
mul_u32(iv, k) == Times(iv, "U32", k)
mul_u64(iv, k) == Times(iv, "U64", k)
mul_u128(iv, k) == Times(iv, "U128", k)
mul_f32(iv, k) == TimesFloat(iv, k)
mul_f64(iv, k) == TimesFloat(iv, k)

div_i8(iv, k) == Over(iv, Cell(iv), k)
div_i16(iv, k) == Over(iv, Cell(iv), k)
div_i32(iv, k) == Over(iv, Cell(iv), k)
div_i64(iv, k) == Over(iv, "I64", k)
div_i128(iv, k) == Over(iv, "I128", k)
div_u8(iv, k) == Over(iv, "U8", k)
div_u16(iv, k) == Over(iv, "U16", k)
div_u32(iv, k) == Over(iv, "U32", k)
div_u64(iv, k) == Over(iv, "U64", k)
div_u128(iv, k) == Over(iv, "U128", k)
div_f32(iv, k) == OverFloat(iv, k)
div_f64(iv, k) == OverFloat(iv, k)

\* `k * interval` is `interval * k` for every number type.
mul_interval(k, iv) ==
    CASE k.type = "I8" -> mul_i8(iv, k)
      [] k.type = "I16" -> mul_i16(iv, k)
      [] k.type = "I32" -> mul_i32(iv, k)
      [] k.type = "I64" -> mul_i64(iv, k)
      [] k.type = "I128" -> mul_i128(iv, k)
      [] k.type = "U8" -> mul_u8(iv, k)
      [] k.type = "U16" -> mul_u16(iv, k)
      [] k.type = "U32" -> mul_u32(iv, k)
      [] k.type = "U64" -> mul_u64(iv, k)
      [] k.type = "U128" -> mul_u128(iv, k)
      [] k.type = "F32" -> mul_f32(iv, k)
      [] k.type = "F64" -> mul_f64(iv, k)

div_interval(iv, k) ==
    CASE k.type = "I8" -> div_i8(iv, k)
      [] k.type = "I16" -> div_i16(iv, k)
      [] k.type = "I32" -> div_i32(iv, k)
      [] k.type = "I64" -> div_i64(iv, k)
      [] k.type = "I128" -> div_i128(iv, k)
      [] k.type = "U8" -> div_u8(iv, k)
      [] k.type = "U16" -> div_u16(iv, k)
      [] k.type = "U32" -> div_u32(iv, k)
      [] k.type = "U64" -> div_u64(iv, k)
      [] k.type = "U128" -> div_u128(iv, k)
      [] k.type = "F32" -> div_f32(iv, k)
      [] k.type = "F64" -> div_f64(iv, k)
=============================================================================
