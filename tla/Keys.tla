--------------------------------- MODULE Keys --------------------------------
(***************************************************************************)
(* core/src/data/key.rs: the keys rows and index entries are stored under, *)
(* their order (impl Ord for Key) and their big-endian form                *)
(* (to_cmp_be_bytes), which the storages sort by.  A key is the value it   *)
(* was made from; Key::None is Null.                                       *)
(*                                                                         *)
(* A fixed-width field of the big-endian form is one number: two fields of *)
(* the same width compare byte by byte as the unsigned numbers they spell. *)
(***************************************************************************)
EXTENDS Intervals

OrderOf(a, b) == IF a < b THEN "Less" ELSE IF a = b THEN "Equal" ELSE "Greater"
Mirror(o) == CASE o = "Less" -> "Greater" [] o = "Greater" -> "Less" [] OTHER -> o

\* Slice order: at the first difference, or the shorter one first.
Precedes(l, r) ==
    \E i \in 1..Len(r) :
        /\ i <= Len(l) + 1
        /\ \A j \in 1..(i - 1) : l[j] = r[j]
        /\ i <= Len(l) => l[i] < r[i]
Lexical(l, r) == IF Precedes(l, r) THEN "Less" ELSE IF l = r THEN "Equal" ELSE "Greater"

Codes(v) == [i \in 1..Len(v.s) |-> v.s[i].n]

\* IpAddr: every V4 address is below every V6 one.
InetCmp(l, r) ==
    CASE l.s = r.s -> OrderOf(l.n, r.n)
      [] IsMarked(l, "V4") -> "Less"
      [] OTHER -> "Greater"

\* f64::total_cmp: -NaN aside, -0 < 0 and NaN above every number.
TotalRank(v) == CASE IsNaN(v) -> 2 * DecimalMax [] IsMarked(v, "MinusZero") -> -1 [] OTHER -> 2 * v.n

\* TryFrom<Value> for Key
to_Key(v) ==
    CASE v.type = "Map" -> Err("MapTypeKeyNotSupported")
      [] v.type = "List" -> Err("ListTypeKeyNotSupported")
      [] v.type = "Point" -> Err("PointTypeKeyNotSupported")
      [] OTHER -> v

to_order(k) ==
    LET order == <<"I8", "I16", "I32", "I64", "I128", "U8", "U16", "U32", "U64", "U128", "F32", "F64", "Decimal",
                   "Bool", "Str", "Bytea", "Date", "Timestamp", "Time", "Interval", "Uuid", "Inet", "Null">>
    IN  CHOOSE i \in 1..23 : order[i] = k.type

IntervalKeyCmp(l, r) ==
    IF KindOf(l) = KindOf(r) THEN interval_cmp(l, r)
    ELSE IF KindOf(l) = "Month" THEN "Greater" ELSE "Less"

\* Keys of two types: NULL is above everything, the rest go by to_order.
MixedKeyCmp(l, r) ==
    IF l = Null THEN "Greater"
    ELSE IF r = Null THEN "Less"
    ELSE IF to_order(l) <= to_order(r) THEN "Greater" ELSE "Less"

key_cmp(l, r) ==
    IF l.type # r.type THEN MixedKeyCmp(l, r)
    ELSE IF l.type \in Float THEN OrderOf(TotalRank(l), TotalRank(r))
    ELSE IF l.type \in {"Str", "Bytea"} THEN Lexical(Codes(l), Codes(r))
    ELSE IF l.type = "Interval" THEN IntervalKeyCmp(l, r)
    ELSE IF l.type = "Inet" THEN InetCmp(l, r)
    ELSE OrderOf(l.n, r.n)

(***************************************************************************)
(* to_cmp_be_bytes                                                         *)
(***************************************************************************)
VALUE == 0
NONE == 1

\* to_be_bytes of a signed number whose type spans -half..half-1.
TwosComplement(n, half) == IF n < 0 THEN n + 2 * half ELSE n
Half(t) == 2^(Bits[t] - 1)
Sign(n) == IF n >= 0 THEN 1 ELSE 0

\* num_days_from_ce is an i32 of its own width: it holds every day of the calendar.
DayHalf == Abs(FirstDay) + Abs(LastDay)

SecondTicks == SECOND * NANOS
Secs(ticks) == ticks \div SecondTicks
Frac(ticks) == ticks % SecondTicks

\* The mantissa of a fraction of 1, 2 or 3 quarters: .25, .5 and .75.
Mantissa(q) == IF q = 0 THEN 0 ELSE <<25, 5, 75>>[q]
Negative(n, sign) == IF sign = 0 THEN -n ELSE n

\* A V4 address is one group of octets, a V6 address two.
Octets(v) == IF IsMarked(v, "V4") THEN <<v.n>> ELSE <<v.n \div 4, v.n % 4>>

\* Fault: no sign byte before the number.
SignedBytesBare(n, half) == <<VALUE, TwosComplement(n, half)>>
SignedBytes(n, half) == <<VALUE, Sign(n), TwosComplement(n, half)>>
UnsignedBytes(n) == <<VALUE, 1, n>>
DateBytes(n, half) == <<VALUE, TwosComplement(n, half)>>
TimeBytes(ticks) == <<VALUE, Secs(ticks), Frac(ticks)>>
TimestampBytes(day, ticks, half) == <<VALUE, TwosComplement(day, half), Secs(ticks), Frac(ticks)>>
IntervalBytes(k, months, micros) ==
    IF KindOf(k) = "Month" THEN <<VALUE, TwosComplement(k.n, months), 0>>
    ELSE <<VALUE, 0, TwosComplement(k.n, micros)>>
DecimalBytes(q, half) ==
    LET sign == Sign(q)
    IN  <<VALUE, sign, TwosComplement(Negative(Abs(q) \div Scale, sign), half),
          TwosComplement(Negative(Mantissa(Abs(q) % Scale), sign), half)>>

to_cmp_be_bytes(k) ==
    IF k.type = "Bool" THEN <<VALUE, k.n>>
    ELSE IF k.type \in Signed THEN SignedBytes(k.n, Half(k.type))
    ELSE IF k.type \in Unsigned THEN UnsignedBytes(k.n)
    ELSE IF k.type = "Decimal" THEN DecimalBytes(k.n, Half("I128"))
    ELSE IF k.type = "Str" THEN <<VALUE>> \o Codes(k)
    ELSE IF k.type = "Bytea" THEN Codes(k)
    ELSE IF k.type = "Inet" THEN Octets(k)
    ELSE IF k.type = "Date" THEN DateBytes(k.n, DayHalf)
    ELSE IF k.type = "Time" THEN TimeBytes(k.n)
    ELSE IF k.type = "Timestamp" THEN TimestampBytes(DatePart(k), TimePart(k), DayHalf)
    ELSE IF k.type = "Interval" THEN IntervalBytes(k, Half("I32"), Half("I64"))
    ELSE IF k.type = "Uuid" THEN <<VALUE, k.n>>
    ELSE IF k.type = "Null" THEN <<NONE>>
    ELSE Err("FloatToCmpBigEndianNotSupported")

\* Map, List and Point never become a key.
HasBytes(v) == v.type \notin Float \cup {"Map", "List", "Point"}

(***************************************************************************)
(* Two values side by side: the operands of a comparison, or two keys of   *)
(* one column's index.  Both may be any value of the types named; what the *)
(* storages rely on is that the order of the bytes is the order of keys.   *)
(***************************************************************************)
VARIABLES left, right

keyVars == <<left, right>>

(***************************************************************************)
(* The keys whose bytes sort as the keys do.  Left out are the ones whose  *)
(* bytes do not: a Decimal with a fraction, a negative Interval or one of  *)
(* the other kind, a Date before the common era, and Bytea and Inet, which *)
(* are stored without the leading VALUE byte that sets Key::None apart.    *)
(***************************************************************************)
IntegerKeys == UNION {[type : {t}, n : MinOf(t)..MaxOf(t), s : {<<>>}] : t \in Integer}
PlainKeys ==
    [type : {"Bool"}, n : {0, 1}, s : {<<>>}]
    \cup [type : {"Uuid"}, n : 0..MaxOf("U128"), s : {<<>>}]
    \cup [type : {"Date"}, n : 0..LastDay, s : {<<>>}]
    \cup [type : {"Time"}, n : 0..(DayTicks - 1), s : {<<>>}]
    \cup [type : {"Timestamp"}, n : 0..(LastDay * DayTicks + DayTicks - 1), s : {<<>>}]
IntervalKeys ==
    [type : {"Interval"}, n : 0..MaxOf("I32"), s : {<<Mark("Month")>>}]
    \cup [type : {"Interval"}, n : 0..MaxOf("I64"), s : {<<Mark("Microsecond")>>}]
StrKeys == [type : {"Str"}, n : {0}, s : Seq([type : {"Char"}, n : Nat, s : {<<>>}])]

SortableKeys == IntegerKeys \cup PlainKeys \cup IntervalKeys \cup StrKeys \cup {Null}

\* Two keys of one nullable column.
SameColumn(l, r) ==
    /\ l.type = r.type \/ l = Null \/ r = Null
    /\ l.type = "Interval" /\ r.type = "Interval" => l.s = r.s

Init == left \in SortableKeys /\ right = Null
Next == left' \in SortableKeys /\ right' = left
Spec == Init /\ [][Next]_keyVars

(***************************************************************************)
(* The big-endian form of a key sorts exactly as the key does, NULL last:  *)
(* "Key to Big-Endian for comparison purpose" (to_cmp_be_bytes, key.rs),   *)
(* which sled's index ranges and every storage's primary-key order rely on.*)
(***************************************************************************)
KeyOrderPreserved ==
    left \in SortableKeys /\ right \in SortableKeys /\ SameColumn(left, right)
    => Lexical(to_cmp_be_bytes(left), to_cmp_be_bytes(right)) = key_cmp(left, right)
=============================================================================
