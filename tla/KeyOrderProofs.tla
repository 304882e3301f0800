--------------------------- MODULE KeyOrderProofs ---------------------------
(***************************************************************************)
(* The bytes to_cmp_be_bytes (core/src/data/key.rs) gives the keys of one  *)
(* column sort as impl Ord for Key sorts the keys, for every width of the  *)
(* integers and every calendar, and no two keys share their bytes.  The    *)
(* argument goes type by type: the fields of equal width are compared from *)
(* the left (LexicalTwo, Three, Four), the VALUE byte before a text changes*)
(* nothing (SameHead), and NULL, the one key that starts with NONE, is     *)
(* last.                                                                   *)
(***************************************************************************)
EXTENDS Keys, TLAPS

\* Two fields compare by the first, then by the second.
LEMMA LexicalTwo ==
    ASSUME NEW a \in Int, NEW b \in Int, NEW c \in Int, NEW d \in Int
    PROVE  Lexical(<<a, b>>, <<c, d>>) = IF a = c THEN OrderOf(b, d) ELSE OrderOf(a, c)
  BY DEF Lexical, Precedes, OrderOf

\* Three fields compare by the first that differs.
LEMMA LexicalThree ==
    ASSUME NEW a \in Int, NEW b \in Int, NEW c \in Int, NEW d \in Int, NEW e \in Int, NEW f \in Int
    PROVE  Lexical(<<a, b, c>>, <<d, e, f>>) =
              IF a # d THEN OrderOf(a, d) ELSE IF b # e THEN OrderOf(b, e) ELSE OrderOf(c, f)
  BY DEF Lexical, Precedes, OrderOf

\* Four fields compare by the first that differs.
LEMMA LexicalFour ==
    ASSUME NEW a \in Int, NEW b \in Int, NEW c \in Int, NEW d \in Int,
           NEW e \in Int, NEW f \in Int, NEW g \in Int, NEW h \in Int
    PROVE  Lexical(<<a, b, c, d>>, <<e, f, g, h>>) =
              IF a # e THEN OrderOf(a, e) ELSE IF b # f THEN OrderOf(b, f)
              ELSE IF c # g THEN OrderOf(c, g) ELSE OrderOf(d, h)
  BY DEF Lexical, Precedes, OrderOf

\* A sequence with one element put before it: its length and its elements.
LEMMA Prepended ==
    ASSUME NEW s \in Seq(Int), NEW h \in Int
    PROVE  /\ <<h>> \o s \in Seq(Int) /\ Len(<<h>> \o s) = Len(s) + 1 /\ (<<h>> \o s)[1] = h
           /\ \A i \in 1..Len(s) : (<<h>> \o s)[i + 1] = s[i]
<1>1. <<h>> \in Seq(Int) /\ Len(<<h>>) = 1 /\ Len(s) \in Nat
  OBVIOUS
<1>2. <<h>> \o s \in Seq(Int) /\ Len(<<h>> \o s) = Len(s) + 1
  BY <1>1
<1>3. (<<h>> \o s)[1] = h
  BY <1>1
<1>4. ASSUME NEW i \in 1..Len(s) PROVE (<<h>> \o s)[i + 1] = s[i]
  BY <1>1
<1> QED BY <1>2, <1>3, <1>4

\* Slices that start with the same byte compare as the rest of them does (Key::Str).
LEMMA SameHead ==
    ASSUME NEW s \in Seq(Int), NEW t \in Seq(Int), NEW h \in Int
    PROVE  Lexical(<<h>> \o s, <<h>> \o t) = Lexical(s, t)
<1> DEFINE l == <<h>> \o s
           r == <<h>> \o t
<1>1. /\ l \in Seq(Int) /\ Len(l) = Len(s) + 1 /\ l[1] = h
      /\ \A i \in 1..Len(s) : l[i + 1] = s[i]
      /\ r \in Seq(Int) /\ Len(r) = Len(t) + 1 /\ r[1] = h
      /\ \A i \in 1..Len(t) : r[i + 1] = t[i]
  BY Prepended
<1> HIDE DEF l, r
<1>2. Precedes(s, t) => Precedes(l, r)
  <2> SUFFICES ASSUME Precedes(s, t) PROVE Precedes(l, r)
    OBVIOUS
  <2>1. PICK i \in 1..Len(t) : /\ i <= Len(s) + 1
                               /\ \A j \in 1..(i - 1) : s[j] = t[j]
                               /\ i <= Len(s) => s[i] < t[i]
    BY DEF Precedes
  <2>2. \A j \in 1..i : l[j] = r[j]
    <3> TAKE j \in 1..i
    <3>1. CASE j = 1
      BY <1>1, <3>1
    <3>2. CASE j # 1
      <4>1. j - 1 \in 1..(i - 1) /\ j - 1 \in 1..Len(s) /\ j - 1 \in 1..Len(t) /\ (j - 1) + 1 = j
        BY <2>1, <3>2
      <4> QED BY <1>1, <2>1, <4>1, Zenon
    <3> QED BY <3>1, <3>2
  <2>3. i + 1 <= Len(l) => l[i + 1] < r[i + 1]
    BY <1>1, <2>1
  <2>4. i + 1 \in 1..Len(r) /\ i + 1 <= Len(l) + 1 /\ (i + 1) - 1 = i
    BY <1>1, <2>1
  <2>5. \E k \in 1..Len(r) : /\ k <= Len(l) + 1
                             /\ \A j \in 1..(k - 1) : l[j] = r[j]
                             /\ k <= Len(l) => l[k] < r[k]
    <3> USE <2>4
    <3> WITNESS i + 1 \in 1..Len(r)
    <3> QED BY <2>2, <2>3, <2>4
  <2> QED BY <2>5 DEF Precedes
<1>3. Precedes(l, r) => Precedes(s, t)
  <2> SUFFICES ASSUME Precedes(l, r) PROVE Precedes(s, t)
    OBVIOUS
  <2>1. PICK i \in 1..Len(r) : /\ i <= Len(l) + 1
                               /\ \A j \in 1..(i - 1) : l[j] = r[j]
                               /\ i <= Len(l) => l[i] < r[i]
    BY DEF Precedes
  <2>2. i # 1
    <3>1. 1 <= Len(l) /\ ~(l[1] < r[1])
      BY <1>1
    <3> QED BY <2>1, <3>1
  <2> DEFINE k == i - 1
  <2>3. k \in 1..Len(t) /\ k <= Len(s) + 1 /\ k + 1 = i
    BY <1>1, <2>1, <2>2
  <2>4. \A j \in 1..(k - 1) : s[j] = t[j]
    <3> TAKE j \in 1..(k - 1)
    <3>1. j + 1 \in 1..(i - 1) /\ j \in 1..Len(s) /\ j \in 1..Len(t)
      BY <2>3
    <3> QED BY <1>1, <2>1, <3>1
  <2>5. k <= Len(s) => s[k] < t[k]
    <3> HAVE k <= Len(s)
    <3>1. k \in 1..Len(s) /\ k + 1 <= Len(l)
      BY <1>1, <2>3
    <3>2. l[k + 1] = s[k] /\ r[k + 1] = t[k]
      BY <1>1, <2>3, <3>1, Zenon
    <3>3. l[i] < r[i]
      BY <2>1, <2>3, <3>1
    <3> QED BY <2>3, <3>2, <3>3
  <2> HIDE DEF k
  <2> QED BY <2>3, <2>4, <2>5 DEF Precedes
<1>4. (l = r) <=> (s = t)
  <2>1. l = r => s = t
    <3> SUFFICES ASSUME l = r PROVE s = t
      OBVIOUS
    <3>1. Len(s) = Len(t) /\ \A i \in 1..Len(s) : s[i] = t[i]
      BY <1>1
    <3>2. s = [i \in 1..Len(s) |-> s[i]] /\ t = [i \in 1..Len(t) |-> t[i]]
      OBVIOUS
    <3> QED BY <3>1, <3>2, Zenon
  <2> QED BY <2>1, Zenon DEF l, r
<1> QED BY <1>2, <1>3, <1>4 DEF Lexical, l, r

\* The span of a signed type is an integer, whatever its width.
LEMMA HalfIsInt == \A t \in Integer : Half(t) \in Int
  BY BitsAssumption DEF Half, Integer, Signed, Unsigned

\* A sign byte and the two's complement sort as the number does: the sign byte sets the negative
\* numbers, whose complements are the larger ones, before the others (Key::I8 .. Key::I128).
LEMMA SignedOrder ==
    ASSUME NEW m \in Int, NEW n \in Int, NEW half \in Int
    PROVE  Lexical(SignedBytes(m, half), SignedBytes(n, half)) = OrderOf(m, n)
<1>1. TwosComplement(m, half) \in Int /\ TwosComplement(n, half) \in Int /\ Sign(m) \in Int /\ Sign(n) \in Int
  BY DEF TwosComplement, Sign
<1> QED BY <1>1, LexicalThree DEF SignedBytes, VALUE, TwosComplement, Sign, OrderOf

\* Day, second and fraction sort as the moment does, from the first day of the era on (Key::Timestamp).
LEMMA TimestampOrder ==
    ASSUME NEW m \in Nat, NEW n \in Nat, NEW half
    PROVE  Lexical(TimestampBytes(m \div DayTicks, m % DayTicks, half),
                   TimestampBytes(n \div DayTicks, n % DayTicks, half)) = OrderOf(m, n)
<1>1. DayTicks = 96 /\ SecondTicks = 8
  BY DEF DayTicks, DAY, HOUR, SECOND, NANOS, SecondTicks
<1> DEFINE a == m \div 96
           b == (m % 96) \div 8
           c == (m % 96) % 8
           d == n \div 96
           e == (n % 96) \div 8
           f == (n % 96) % 8
<1>2. a \in Nat /\ b \in 0..11 /\ c \in 0..7 /\ m = 96 * a + 8 * b + c
  OBVIOUS
<1>3. d \in Nat /\ e \in 0..11 /\ f \in 0..7 /\ n = 96 * d + 8 * e + f
  OBVIOUS
<1>4. /\ TimestampBytes(m \div DayTicks, m % DayTicks, half) = <<VALUE, a, b, c>>
      /\ TimestampBytes(n \div DayTicks, n % DayTicks, half) = <<VALUE, d, e, f>>
  BY <1>1, <1>2, <1>3 DEF TimestampBytes, TwosComplement, Secs, Frac
<1> HIDE DEF a, b, c, d, e, f
<1>5. Lexical(<<VALUE, a, b, c>>, <<VALUE, d, e, f>>) =
        IF a # d THEN OrderOf(a, d) ELSE IF b # e THEN OrderOf(b, e) ELSE OrderOf(c, f)
  BY <1>2, <1>3, LexicalFour, SMTT(30) DEF VALUE
<1>6. (IF a # d THEN OrderOf(a, d) ELSE IF b # e THEN OrderOf(b, e) ELSE OrderOf(c, f)) = OrderOf(m, n)
  BY <1>2, <1>3 DEF OrderOf
<1> QED BY <1>4, <1>5, <1>6

\* Second and fraction sort as the time of day does (Key::Time).
LEMMA TimeOrder ==
    ASSUME NEW m \in Nat, NEW n \in Nat
    PROVE  Lexical(TimeBytes(m), TimeBytes(n)) = OrderOf(m, n)
<1>1. SecondTicks = 8
  BY DEF SECOND, NANOS, SecondTicks
<1> DEFINE a == m \div 8
           b == m % 8
           c == n \div 8
           d == n % 8
<1>2. a \in Nat /\ b \in 0..7 /\ m = 8 * a + b /\ c \in Nat /\ d \in 0..7 /\ n = 8 * c + d
  OBVIOUS
<1>3. TimeBytes(m) = <<VALUE, a, b>> /\ TimeBytes(n) = <<VALUE, c, d>>
  BY <1>1 DEF TimeBytes, Secs, Frac
<1> HIDE DEF a, b, c, d
<1>4. Lexical(<<VALUE, a, b>>, <<VALUE, c, d>>) = IF a # c THEN OrderOf(a, c) ELSE OrderOf(b, d)
  BY <1>2, LexicalThree DEF VALUE
<1>5. (IF a # c THEN OrderOf(a, c) ELSE OrderOf(b, d)) = OrderOf(m, n)
  BY <1>2 DEF OrderOf
<1> QED BY <1>3, <1>4, <1>5

\* Two integers of one type.
LEMMA IntegerKeysSort ==
    ASSUME NEW l \in IntegerKeys, NEW r \in IntegerKeys, l.type = r.type
    PROVE  Lexical(to_cmp_be_bytes(l), to_cmp_be_bytes(r)) = key_cmp(l, r)
<1>1. l.type \in Integer /\ l.n \in Int /\ r.n \in Int
  BY DEF IntegerKeys
<1>2. key_cmp(l, r) = OrderOf(l.n, r.n)
  BY <1>1 DEF key_cmp, Integer, Signed, Unsigned, Float
<1>3. CASE l.type \in Signed
  <2>1. /\ to_cmp_be_bytes(l) = SignedBytes(l.n, Half(l.type))
        /\ to_cmp_be_bytes(r) = SignedBytes(r.n, Half(l.type))
    BY <1>3 DEF to_cmp_be_bytes, Signed
  <2> QED BY <1>1, <1>2, <2>1, HalfIsInt, SignedOrder
<1>4. CASE l.type \in Unsigned
  <2>1. to_cmp_be_bytes(l) = <<VALUE, 1, l.n>> /\ to_cmp_be_bytes(r) = <<VALUE, 1, r.n>>
    BY <1>4 DEF to_cmp_be_bytes, UnsignedBytes, Signed, Unsigned
  <2> QED BY <1>1, <1>2, <2>1, LexicalThree DEF VALUE
<1> QED BY <1>1, <1>3, <1>4 DEF Integer

\* Two keys of one of the types that are never negative.
LEMMA PlainKeysSort ==
    ASSUME NEW l \in PlainKeys, NEW r \in PlainKeys, l.type = r.type
    PROVE  Lexical(to_cmp_be_bytes(l), to_cmp_be_bytes(r)) = key_cmp(l, r)
<1>1. l.type \in {"Bool", "Uuid", "Date", "Time", "Timestamp"} /\ l.n \in Nat /\ r.n \in Nat
  BY DEF PlainKeys
<1>2. key_cmp(l, r) = OrderOf(l.n, r.n)
  BY <1>1 DEF key_cmp, Float
<1>3. CASE l.type \in {"Bool", "Uuid", "Date"}
  <2>1. ~(l.n < 0) /\ ~(r.n < 0)
    BY <1>1
  <2>2. DateBytes(l.n, DayHalf) = <<VALUE, l.n>> /\ DateBytes(r.n, DayHalf) = <<VALUE, r.n>>
    BY <2>1 DEF DateBytes, TwosComplement
  <2>3. to_cmp_be_bytes(l) = <<VALUE, l.n>> /\ to_cmp_be_bytes(r) = <<VALUE, r.n>>
    BY <1>3, <2>2 DEF to_cmp_be_bytes, Signed, Unsigned
  <2> QED BY <1>1, <1>2, <2>3, LexicalTwo DEF VALUE
<1>4. CASE l.type = "Time"
  <2>1. to_cmp_be_bytes(l) = TimeBytes(l.n) /\ to_cmp_be_bytes(r) = TimeBytes(r.n)
    BY <1>4 DEF to_cmp_be_bytes, Signed, Unsigned
  <2> QED BY <1>1, <1>2, <2>1, TimeOrder
<1>5. CASE l.type = "Timestamp"
  <2>1. /\ to_cmp_be_bytes(l) = TimestampBytes(l.n \div DayTicks, l.n % DayTicks, DayHalf)
        /\ to_cmp_be_bytes(r) = TimestampBytes(r.n \div DayTicks, r.n % DayTicks, DayHalf)
    BY <1>5 DEF to_cmp_be_bytes, DatePart, TimePart, Signed, Unsigned
  <2> QED BY <1>1, <1>2, <2>1, TimestampOrder
<1> QED BY <1>1, <1>3, <1>4, <1>5

\* Two intervals of one kind, none negative.
LEMMA IntervalKeysSort ==
    ASSUME NEW l \in IntervalKeys, NEW r \in IntervalKeys, l.s = r.s
    PROVE  Lexical(to_cmp_be_bytes(l), to_cmp_be_bytes(r)) = key_cmp(l, r)
<1>1. /\ l.type = "Interval" /\ r.type = "Interval" /\ l.n \in Nat /\ r.n \in Nat
      /\ KindOf(l) \in {"Month", "Microsecond"} /\ KindOf(r) = KindOf(l)
  BY DEF IntervalKeys, KindOf, Mark
<1>2. key_cmp(l, r) = OrderOf(l.n, r.n)
  BY <1>1 DEF key_cmp, IntervalKeyCmp, interval_cmp, OrderOf, Float
<1>3. /\ to_cmp_be_bytes(l) = IntervalBytes(l, Half("I32"), Half("I64"))
      /\ to_cmp_be_bytes(r) = IntervalBytes(r, Half("I32"), Half("I64"))
  BY <1>1 DEF to_cmp_be_bytes, Signed, Unsigned
<1>4. CASE KindOf(l) = "Month"
  <2>1. to_cmp_be_bytes(l) = <<VALUE, l.n, 0>> /\ to_cmp_be_bytes(r) = <<VALUE, r.n, 0>>
    BY <1>1, <1>3, <1>4 DEF IntervalBytes, TwosComplement
  <2> QED BY <1>1, <1>2, <2>1, LexicalThree DEF VALUE, OrderOf
<1>5. CASE KindOf(l) = "Microsecond"
  <2>1. to_cmp_be_bytes(l) = <<VALUE, 0, l.n>> /\ to_cmp_be_bytes(r) = <<VALUE, 0, r.n>>
    BY <1>1, <1>3, <1>5 DEF IntervalBytes, TwosComplement
  <2> QED BY <1>1, <1>2, <2>1, LexicalThree DEF VALUE
<1> QED BY <1>1, <1>4, <1>5

\* The characters of a text are a sequence of numbers.
LEMMA CodesAreNumbers == ASSUME NEW k \in StrKeys PROVE Codes(k) \in Seq(Int)
<1> DEFINE chars == [type : {"Char"}, n : Nat, s : {<<>>}]
<1>1. k.s \in Seq(chars)
  BY DEF StrKeys
<1> HIDE DEF chars
<1>2. \A i \in 1..Len(k.s) : k.s[i] \in chars
  BY <1>1
<1>3. \A i \in 1..Len(k.s) : k.s[i].n \in Int
  BY <1>2 DEF chars
<1>4. Len(k.s) \in Nat
  BY <1>1
<1> QED BY <1>3, <1>4 DEF Codes

\* Two texts.
LEMMA StrKeysSort ==
    ASSUME NEW l \in StrKeys, NEW r \in StrKeys
    PROVE  Lexical(to_cmp_be_bytes(l), to_cmp_be_bytes(r)) = key_cmp(l, r)
<1>1. l.type = "Str" /\ r.type = "Str"
  BY DEF StrKeys
<1>2. key_cmp(l, r) = Lexical(Codes(l), Codes(r))
  BY <1>1 DEF key_cmp, Float
<1>3. to_cmp_be_bytes(l) = <<VALUE>> \o Codes(l) /\ to_cmp_be_bytes(r) = <<VALUE>> \o Codes(r)
  BY <1>1 DEF to_cmp_be_bytes, Signed, Unsigned
<1> QED BY <1>2, <1>3, CodesAreNumbers, SameHead DEF VALUE
\* The bytes of a key that is not NULL.
StartsWithValue(v) == v \in Seq(Int) /\ Len(v) >= 1 /\ v[1] = VALUE

\* Fields after a VALUE byte start with it.
LEMMA TuplesStart ==
    ASSUME NEW a \in Int, NEW b \in Int, NEW c \in Int
    PROVE  /\ StartsWithValue(<<VALUE, a>>)
           /\ StartsWithValue(<<VALUE, a, b>>)
           /\ StartsWithValue(<<VALUE, a, b, c>>)
  BY DEF StartsWithValue, VALUE

\* The bytes of every key but NULL start with VALUE.
LEMMA ValuesStart ==
    ASSUME NEW k \in SortableKeys, k.type # "Null"
    PROVE  StartsWithValue(to_cmp_be_bytes(k))
<1>1. CASE k \in IntegerKeys
  <2>1. k.type \in Integer /\ k.n \in Int /\ Half(k.type) \in Int
    BY <1>1, HalfIsInt DEF IntegerKeys
  <2>2. \/ to_cmp_be_bytes(k) = <<VALUE, Sign(k.n), TwosComplement(k.n, Half(k.type))>>
        \/ to_cmp_be_bytes(k) = <<VALUE, 1, k.n>>
    BY <2>1 DEF to_cmp_be_bytes, SignedBytes, UnsignedBytes, Integer, Signed, Unsigned
  <2>3. 1 \in Int /\ Sign(k.n) \in Int /\ TwosComplement(k.n, Half(k.type)) \in Int
    BY <2>1 DEF Sign, TwosComplement
  <2>4. /\ StartsWithValue(<<VALUE, Sign(k.n), TwosComplement(k.n, Half(k.type))>>)
        /\ StartsWithValue(<<VALUE, 1, k.n>>)
    BY <2>1, <2>3, TuplesStart, Zenon
  <2> QED BY <2>2, <2>4, Zenon
<1>2. CASE k \in PlainKeys
  <2>1. k.type \in {"Bool", "Uuid", "Date", "Time", "Timestamp"} /\ k.n \in Nat
    BY <1>2 DEF PlainKeys
  <2>2. /\ DateBytes(k.n, DayHalf) = <<VALUE, k.n>>
        /\ TimeBytes(k.n) = <<VALUE, k.n \div 8, k.n % 8>>
        /\ TimestampBytes(DatePart(k), TimePart(k), DayHalf) = <<VALUE, k.n \div 96, (k.n % 96) \div 8, (k.n % 96) % 8>>
    BY <2>1 DEF DateBytes, TimeBytes, TimestampBytes, TwosComplement, DatePart, TimePart, Secs, Frac, SecondTicks,
                DayTicks, DAY, HOUR, SECOND, NANOS
  <2>3. \/ to_cmp_be_bytes(k) = <<VALUE, k.n>>
        \/ to_cmp_be_bytes(k) = <<VALUE, k.n \div 8, k.n % 8>>
        \/ to_cmp_be_bytes(k) = <<VALUE, k.n \div 96, (k.n % 96) \div 8, (k.n % 96) % 8>>
    BY <2>1, <2>2, SMTT(90) DEF to_cmp_be_bytes, Signed, Unsigned
  <2>4. /\ k.n \in Int /\ k.n \div 8 \in Int /\ k.n % 8 \in Int
        /\ k.n \div 96 \in Int /\ (k.n % 96) \div 8 \in Int /\ (k.n % 96) % 8 \in Int
    BY <2>1
  <2>5. /\ StartsWithValue(<<VALUE, k.n>>)
        /\ StartsWithValue(<<VALUE, k.n \div 8, k.n % 8>>)
        /\ StartsWithValue(<<VALUE, k.n \div 96, (k.n % 96) \div 8, (k.n % 96) % 8>>)
    BY <2>4, TuplesStart, Zenon
  <2> QED BY <2>3, <2>5, Zenon
<1>3. CASE k \in IntervalKeys
  <2>1. k.type = "Interval" /\ k.n \in Nat
    BY <1>3 DEF IntervalKeys
  <2>2. to_cmp_be_bytes(k) \in {<<VALUE, k.n, 0>>, <<VALUE, 0, k.n>>}
    BY <2>1 DEF to_cmp_be_bytes, IntervalBytes, TwosComplement, Signed, Unsigned
  <2>3. k.n \in Int /\ 0 \in Int
    BY <2>1
  <2>4. StartsWithValue(<<VALUE, k.n, 0>>) /\ StartsWithValue(<<VALUE, 0, k.n>>)
    BY <2>3, TuplesStart, Zenon
  <2> QED BY <2>2, <2>4, Zenon
<1>4. CASE k \in StrKeys
  <2>1. to_cmp_be_bytes(k) = <<VALUE>> \o Codes(k)
    BY <1>4 DEF StrKeys, to_cmp_be_bytes, Signed, Unsigned
  <2>2. Codes(k) \in Seq(Int)
    BY <1>4, CodesAreNumbers
  <2> QED BY <2>1, <2>2 DEF StartsWithValue, VALUE
<1>5. k # Null
  BY DEF Null, Mark
<1> QED BY <1>1, <1>2, <1>3, <1>4, <1>5 DEF SortableKeys

\* The bytes of NULL come after those of every other key.
LEMMA NoneIsLast ==
    ASSUME NEW v, StartsWithValue(v)
    PROVE  Lexical(v, <<NONE>>) = "Less" /\ Lexical(<<NONE>>, v) = "Greater"
<1>1. v \in Seq(Int) /\ Len(v) >= 1 /\ v[1] = 0
  BY DEF StartsWithValue, VALUE
<1>2. Precedes(v, <<NONE>>)
  BY <1>1 DEF Precedes, NONE
<1>3. ~Precedes(<<NONE>>, v) /\ <<NONE>> # v
  BY <1>1 DEF Precedes, NONE
<1> QED BY <1>2, <1>3 DEF Lexical

\* The bytes of two keys of a column compare as the keys do.
LEMMA BytesSortAsKeys ==
    ASSUME NEW l \in SortableKeys, NEW r \in SortableKeys, SameColumn(l, r)
    PROVE  Lexical(to_cmp_be_bytes(l), to_cmp_be_bytes(r)) = key_cmp(l, r)
<1>1. /\ \A k \in IntegerKeys : k.type \in Integer
      /\ \A k \in PlainKeys : k.type \in {"Bool", "Uuid", "Date", "Time", "Timestamp"}
      /\ \A k \in IntervalKeys : k.type = "Interval"
      /\ \A k \in StrKeys : k.type = "Str"
      /\ Null.type = "Null" /\ Null.n = 0
  BY DEF IntegerKeys, PlainKeys, IntervalKeys, StrKeys, Null, Mark
<1>2. to_cmp_be_bytes(Null) = <<NONE>>
  BY <1>1 DEF to_cmp_be_bytes, Signed, Unsigned
<1>3. \A k \in SortableKeys : k.type = "Null" <=> k = Null
  BY <1>1 DEF SortableKeys, Integer, Signed, Unsigned
<1>4. CASE l = Null /\ r = Null
  <2>1. Lexical(<<NONE>>, <<NONE>>) = "Equal"
    BY DEF Lexical, Precedes, NONE
  <2>2. key_cmp(l, r) = "Equal"
    BY <1>1, <1>4 DEF key_cmp, Float, OrderOf
  <2> QED BY <1>2, <1>4, <2>1, <2>2
<1>5. CASE l = Null /\ r # Null
  <2>1. key_cmp(l, r) = "Greater"
    BY <1>1, <1>3, <1>5 DEF key_cmp, MixedKeyCmp
  <2> QED BY <1>2, <1>3, <1>5, <2>1, ValuesStart, NoneIsLast
<1>6. CASE l # Null /\ r = Null
  <2>1. key_cmp(l, r) = "Less"
    BY <1>1, <1>3, <1>6 DEF key_cmp, MixedKeyCmp
  <2> QED BY <1>2, <1>3, <1>6, <2>1, ValuesStart, NoneIsLast
<1>7. CASE l # Null /\ r # Null
  <2>1. l.type = r.type /\ (l.type = "Interval" => l.s = r.s)
    BY <1>7 DEF SameColumn
  <2>2. \/ l \in IntegerKeys /\ r \in IntegerKeys
        \/ l \in PlainKeys /\ r \in PlainKeys
        \/ l \in IntervalKeys /\ r \in IntervalKeys
        \/ l \in StrKeys /\ r \in StrKeys
    BY <1>1, <1>7, <2>1 DEF SortableKeys, Integer, Signed, Unsigned
  <2> QED BY <1>1, <2>1, <2>2, IntegerKeysSort, PlainKeysSort, IntervalKeysSort, StrKeysSort
<1> QED BY <1>4, <1>5, <1>6, <1>7

\* In every state, whatever two keys of one column are side by side, their big-endian bytes are
\* in the order of the keys: what sled's ranges and the sorted storages take for granted.
THEOREM KeysSort == Spec => []KeyOrderPreserved
<1>1. KeyOrderPreserved
  BY BytesSortAsKeys DEF KeyOrderPreserved
<1> QED BY <1>1, PTL
\* Bytes are equal to themselves in slice order.
LEMMA EqualItself ==
    ASSUME NEW v, StartsWithValue(v)
    PROVE  Lexical(v, v) = "Equal"
<1>1. \A i \in 1..Len(v) : v[i] \in Int /\ i <= Len(v)
  BY DEF StartsWithValue
<1>2. ~Precedes(v, v)
  BY <1>1 DEF Precedes
<1> QED BY <1>2 DEF Lexical

\* Sequences of the same length and elements are equal.
LEMMA SameElements ==
    ASSUME NEW S, NEW s \in Seq(S), NEW t \in Seq(S), Len(s) = Len(t), \A i \in 1..Len(s) : s[i] = t[i]
    PROVE  s = t
<1>1. s = [i \in 1..Len(s) |-> s[i]] /\ t = [i \in 1..Len(t) |-> t[i]]
  OBVIOUS
<1> QED BY <1>1, Zenon

\* A text is known from its characters.
LEMMA StrCodes ==
    ASSUME NEW l \in StrKeys, NEW r \in StrKeys, Codes(l) = Codes(r)
    PROVE  l = r
<1> DEFINE chars == [type : {"Char"}, n : Nat, s : {<<>>}]
<1>1. /\ l \in [type : {"Str"}, n : {0}, s : Seq(chars)]
      /\ r \in [type : {"Str"}, n : {0}, s : Seq(chars)]
  BY DEF StrKeys
<1>2. \A c, d \in chars : c.n = d.n => c = d
  OBVIOUS
<1> HIDE DEF chars
<1>3. l.s \in Seq(chars) /\ r.s \in Seq(chars) /\ Len(l.s) \in Nat /\ Len(r.s) \in Nat
  BY <1>1
<1>4. DOMAIN Codes(l) = 1..Len(l.s) /\ DOMAIN Codes(r) = 1..Len(r.s)
  BY DEF Codes
<1>5. Len(l.s) = Len(r.s)
  BY <1>3, <1>4
<1>6. ASSUME NEW i \in 1..Len(l.s) PROVE l.s[i] = r.s[i]
  <2>1. l.s[i] \in chars /\ r.s[i] \in chars
    BY <1>3, <1>5
  <2>2. Codes(l)[i] = l.s[i].n /\ Codes(r)[i] = r.s[i].n
    BY <1>5 DEF Codes
  <2> QED BY <1>2, <2>1, <2>2
<1>7. l.s = r.s
  BY <1>3, <1>5, <1>6, SameElements
<1> QED BY <1>1, <1>7

\* Two keys of one column with the same bytes are the same key, so a row or an index entry stored
\* under its bytes never takes the place of another's.
THEOREM BytesIdentifyKey ==
    ASSUME NEW l \in SortableKeys, NEW r \in SortableKeys, SameColumn(l, r),
           to_cmp_be_bytes(l) = to_cmp_be_bytes(r)
    PROVE  l = r
<1>1. /\ \A k \in IntegerKeys : k.type \in Integer /\ k.n \in Int
      /\ \A k \in PlainKeys : k.type \in {"Bool", "Uuid", "Date", "Time", "Timestamp"} /\ k.n \in Int
      /\ \A k \in IntervalKeys : k.type = "Interval" /\ k.n \in Int
      /\ \A k \in StrKeys : k.type = "Str"
      /\ Null.type = "Null"
  BY DEF IntegerKeys, PlainKeys, IntervalKeys, StrKeys, Null, Mark
<1>2. \A k \in SortableKeys : k.type = "Null" <=> k = Null
  BY <1>1 DEF SortableKeys, Integer, Signed, Unsigned
<1>3. to_cmp_be_bytes(Null) = <<NONE>> /\ ~StartsWithValue(<<NONE>>)
  BY <1>1 DEF to_cmp_be_bytes, StartsWithValue, VALUE, NONE, Signed, Unsigned
<1>4. (l = Null) <=> (r = Null)
  BY <1>2, <1>3, ValuesStart
<1>5. CASE l # Null
  <2>1. l.type = r.type /\ (l.type = "Interval" => l.s = r.s)
    BY <1>4, <1>5 DEF SameColumn
  <2>2. key_cmp(l, r) = "Equal"
    BY <1>2, <1>5, ValuesStart, EqualItself, BytesSortAsKeys
  <2>3. CASE l \in StrKeys
    <3>1. r \in StrKeys
      BY <1>1, <1>4, <1>5, <2>1, <2>3 DEF SortableKeys, Integer, Signed, Unsigned
    <3>2. Lexical(Codes(l), Codes(r)) = "Equal"
      BY <1>1, <2>2, <2>3, <3>1 DEF key_cmp, Float
    <3> QED BY <2>3, <3>1, <3>2, StrCodes DEF Lexical
  <2>4. CASE l \notin StrKeys
    <3>1. \/ l \in IntegerKeys /\ r \in IntegerKeys
          \/ l \in PlainKeys /\ r \in PlainKeys
          \/ l \in IntervalKeys /\ r \in IntervalKeys
      BY <1>1, <1>4, <1>5, <2>1, <2>4 DEF SortableKeys, Integer, Signed, Unsigned
    <3>2. OrderOf(l.n, r.n) = "Equal"
      BY <1>1, <2>1, <2>2, <3>1 DEF key_cmp, IntervalKeyCmp, interval_cmp, OrderOf, KindOf, Float, Integer, Signed, Unsigned
    <3>3. l.n = r.n
      BY <3>2 DEF OrderOf
    <3>4. CASE l \in IntegerKeys /\ r \in IntegerKeys
      BY <2>1, <3>3, <3>4 DEF IntegerKeys
    <3>5. CASE l \in PlainKeys /\ r \in PlainKeys
      BY <2>1, <3>3, <3>5 DEF PlainKeys
    <3>6. CASE l \in IntervalKeys /\ r \in IntervalKeys
      BY <1>1, <2>1, <3>3, <3>6 DEF IntervalKeys
    <3> QED BY <3>1, <3>4, <3>5, <3>6
  <2> QED BY <2>3, <2>4
<1> QED BY <1>4, <1>5
=============================================================================
