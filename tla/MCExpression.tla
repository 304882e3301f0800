----------------------------- MODULE MCExpression ----------------------------
(***************************************************************************)
(* The operands and nodes TLC evaluates: the ends, zero and one of every   *)
(* integer type, fractions, NaN and minus zero, dates around month ends    *)
(* and leap days, short texts with blanks and wildcards, lists with        *)
(* repeated elements.  No combination is chosen by hand: every node meets  *)
(* every operand of its family.                                            *)
(***************************************************************************)
EXTENDS Expression

MCBits == [I8 |-> 4, U8 |-> 4, I16 |-> 5, U16 |-> 5, I32 |-> 6, U32 |-> 6, I64 |-> 8, U64 |-> 8, I128 |-> 10, U128 |-> 10]
MCDecimalMax == 600
MCFirstYear == -1

V(S) == {Val(v) : v \in S}
Rest(ops, S) == {[op |-> o, rest |-> r] : o \in ops, r \in S}
One(S) == {<<e>> : e \in S}
Two(S, T) == {<<a, b>> : a \in S, b \in T}
Three(S, T, U) == {<<a, b, c>> : a \in S, b \in T, c \in U}
None == {<<>>}
Types(S) == {Val(Mark(t)) : t \in S}
Ints(S) == {Val(Plain("I64", n)) : n \in S}

(* Numbers *)
Integers_of(t) == {Plain(t, n) : n \in {MinOf(t), 0, 1, 3, MaxOf(t)} \cup IF t \in Signed THEN {-1, -3} ELSE {}}
Floats_of(t) == {Plain(t, q) : q \in {-6, -1, 2, 4, 12, 500}} \cup {Plain(t, 0), MinusZero(t), NaN(t)}
Decimals == {Plain("Decimal", q) : q \in {-600, -3, 0, 4, 6, 600}}
Literals == {Number(0, 0), Number(4, 0), Number(4, 1), Number(-6, 1), Number(12, 0), Number(2000, 0)}
Some_of(t) == {Plain(t, n) : n \in {MinOf(t), 0, 1, MaxOf(t)} \cup IF t \in Signed THEN {-1} ELSE {}}
NumberValues ==
    UNION {Integers_of(t) : t \in {"I8", "U8", "I64", "I128"}} \cup UNION {Some_of(t) : t \in {"I16", "I32", "U16", "U32", "U64", "U128"}}
    \cup UNION {Floats_of(t) : t \in Float} \cup Decimals \cup {Null, Bool(TRUE)}
Numbers == V(NumberValues) \cup Literals
NumberArguments == V(Integers_of("I8") \cup Some_of("I64") \cup {Plain("U64", 3), Plain("U128", 1023), Plain("I16", 1)}
                     \cup {Plain("F64", 6), Plain("F64", 2), MinusZero("F64"), NaN("F64"), Plain("F32", -4), Plain("Decimal", 6), Plain("Decimal", 600), Null})
                   \cup {Number(4, 0), Number(6, 1), Number(0, 0)}
NumberNodes ==
    Rest(Arithmetic \cup {"Eq", "Lt", "GtEq", "BitwiseAnd", "BitwiseShiftLeft", "BitwiseShiftRight"}, One(NumberArguments))
    \cup Rest({"Minus", "Plus", "Factorial", "BitwiseNot", "ABS", "SIGN", "CEIL", "FLOOR", "TRUNC", "ROUND", "SQRT"}, None)
    \cup Rest({"DIV", "MOD", "GCD", "LCM"}, One(Ints({-128, -3, 0, 6})))
    \cup Rest({"CAST"}, One(Types(Numeric \cup {"Bool", "Str", "Inet", "Uuid"})))
    \cup Rest({"BETWEEN", "NOT BETWEEN"}, Two(Ints({0}), Ints({1, 3})))
    \cup Rest({"IN", "NOT IN"}, Two(Ints({1}), V({Plain("F64", 6), Null})))
    \cup Rest({"IS NULL", "IS NOT NULL"}, None)
    \cup Rest({"GREATEST", "NULLIF", "IFNULL", "COALESCE"}, One({Val(Plain("I64", 1)), Val(Null), Number(4, 0)}))
    \cup Rest({"CASE"}, Three(Ints({1}), {Number(4, 0)}, {Absent, Val(Null)}))
    \cup Rest({"POINT"}, One(Ints({1}) \cup V({MinusZero("F64")})))
    \cup Rest({"HEX", "CHR"}, None)

(* Points *)
PointAt(x, y) == [type |-> "Point", n |-> x, s |-> <<y>>]
Points == V({PointAt(x, y) : x \in {-4, 4}, y \in {Plain("F64", 0), MinusZero("F64"), Plain("F64", 6), NaN("F64")}} \cup {Null})
PointNodes == Rest({"GET_X", "GET_Y"}, None) \cup Rest({"Eq", "CALC_DISTANCE"}, One(Points))

(* Dates, times and intervals *)
Dates == {Plain("Date", DayNumber(y, m, d)) : y \in {0, 1, 4}, m \in {1, 12}, d \in {1, 31}}
         \cup {Plain("Date", DayNumber(4, 2, 29)), Plain("Date", DayNumber(3, 11, 30)), Plain("Date", FirstDay), Plain("Date", LastDay)}
Times_ == {Plain("Time", n) : n \in {0, 7, 37, DayTicks - 1}}
Stamps == {At(1, 1, 31, 9), At(4, 2, 29, 0), At(2, 12, 1, DayTicks - 1)}
Spans == {Month(n) : n \in {-32, -11, 0, 1, 2, 12, 13, 31}}
         \cup {Microsecond(n) : n \in {-128, -1, 0, 1, 5, 8, 16, 17, 24, 48, 49, 56, 64, 68, 81, 127}}
TemporalValues == Dates \cup Times_ \cup Stamps \cup Spans \cup {Null}
TemporalTexts == {TextLiteral(Text(v)) : v \in {Plain("Date", DayNumber(1, 1, 31)), Plain("Time", 7), At(1, 1, 31, 9)}}
TemporalNodes ==
    Rest({"Plus", "Minus"}, One(V(TemporalValues)))
    \cup Rest({"Eq", "Lt"}, One(V(TemporalValues) \cup TemporalTexts))
    \cup Rest({"Multiply", "Divide"}, One(V({Plain("I8", 3), Plain("I32", -1), Plain("I64", 2), Plain("I128", 2), Plain("U8", 2), Plain("F64", 6), Plain("F32", 0), Null})))
    \cup Rest({"Minus", "LAST_DAY"}, None)
    \cup Rest({"EXTRACT"}, One(Types({"Year", "Month", "Day", "Hour", "Minute", "Second"})))
    \cup Rest({"CAST"}, One(Types({"Date", "Time", "Timestamp", "Str", "Interval"})))
    \cup Rest({"FORMAT", "TO_DATE", "TO_TIMESTAMP", "TO_TIME"}, One(V({FormatOf("Date"), FormatOf("Time"), FormatOf("Timestamp")})))
    \cup Rest({"ADD_MONTH"}, One(Ints({-128, -1, 1, 13, 127})))
    \cup Rest({"TYPED"}, One(Types({"Date", "Timestamp", "Time"})))

(* Texts *)
TextsOf(n, chars) == UNION {[1..k -> chars] : k \in 0..n}
a == 1
b == 2
Chars3 == TextsOf(3, {Space, a, b})
SomeTexts == {<<>>, <<a>>, <<b, a>>, <<Space, a>>, <<a, a>>, <<a + 4, b>>}
Strs(S) == {Val(Str(t)) : t \in S}
TextValues == Strs(Chars3 \cup TextsOf(4, {a, b}) \cup {<<a + 4, Space, b>>, <<a, Newline, b>>, <<a, Percent>>})
              \cup {TextLiteral(Str(<<a, b, Space>>)), Val(Null), Number(4, 0)}
Trims == {Absent, Val(Null), Number(4, 0)} \cup Strs({<<a>>, <<a, Space>>, <<b>>})
SliceNodes ==
    Rest({"LTRIM", "RTRIM"}, One(Trims))
    \cup Rest({"TRIM"}, Two(Trims, Types({"Leading", "Trailing", "Both"})))
    \cup Rest({"TRIM"}, {<<Absent, Val(Mark("None"))>>})
    \cup Rest({"SUBSTR"}, Two(Ints({-2, 0, 1, 2, 4}) \cup {Number(8, 0), Val(Null)}, Ints({-1, 0, 1, 2, 9}) \cup {Absent}))
TextNodes ==
    SliceNodes
    \cup Rest({"LIKE", "ILIKE", "NOT LIKE"}, One(Strs(TextsOf(3, {a, Percent, Underscore}) \cup {<<a + 4, Percent>>})))
    \cup Rest({"POSITION"}, One(Strs(SomeTexts)))
    \cup Rest({"FIND_IDX"}, Two(Strs(SomeTexts), Ints({0, 1, 2, 3, 5}) \cup {Absent}))
    \cup Rest({"LEFT", "RIGHT"}, One(Ints({-1, 0, 1, 2, 5})))
    \cup Rest({"LPAD", "RPAD"}, Two(Ints({0, 2, 4, 7}), Strs({<<>>, <<b>>, <<a, b>>}) \cup {Absent}))
    \cup Rest({"REPLACE"}, Two(Strs({<<>>, <<a>>, <<a, b>>}), Strs({<<>>, <<b, b>>})))
    \cup Rest({"REPEAT"}, One(Ints({-1, 0, 2})))
    \cup Rest({"LOWER", "UPPER", "INITCAP", "REVERSE", "ASCII", "MD5", "HEX", "LENGTH"}, None)
    \cup Rest({"CONCAT", "StringConcat", "Eq", "Lt", "Plus"}, One(Strs({<<a>>}) \cup {TextLiteral(Str(<<a, b, Space>>)), Val(Null), Number(4, 0)}))
    \cup Rest({"CONCAT_WS"}, Two(Strs({<<a>>}), {Val(Null), Val(Plain("I64", 1))}))
    \cup Rest({"CAST"}, One(Types({"Bool", "I8", "F32", "Decimal", "Bytea", "Inet", "Uuid", "Map", "List", "Point"})))
SecondTextNodes ==
    Rest({"LTRIM", "RTRIM"}, One({Absent} \cup Strs({<<a>>})))
    \cup Rest({"SUBSTR"}, Two(Ints({1, 2}), Ints({1, 2}) \cup {Absent}))
    \cup Rest({"Eq"}, One({TextLiteral(Str(<<a>>)), Val(Str(<<a>>))}))

(* Lists, maps and the other types *)
Key(k) == Text(Mark(k))
Elements == {Plain("I64", 1), Plain("I8", 3), Plain("F64", 6), Str(<<a>>), Null}
Pair(v) == Map(<<Entry(Key("k"), v)>>)
Scalars == {Plain("I128", 511), Plain("U64", 255), Plain("Decimal", 6), Plain("Decimal", 512), Plain("Date", Epoch), Plain("Time", 7),
            At(1, 1, 31, 9), Month(13), Microsecond(81), Microsecond(-128), Plain("Uuid", 6), Marked("Inet", 3, "V4"), Marked("Inet", 9, "V6"),
            Holding("Bytea", <<Plain("Byte", 1), Plain("Byte", 2)>>), Bool(FALSE), Plain("I16", 5), Plain("F32", 6), NaN("F64"),
            [type |-> "Point", n |-> 4, s |-> <<Plain("F64", 2)>>]}
Sorts == {Plain("I64", 1), Plain("I64", 3), Str(<<a>>), Null}
ListValues == {List(s) : s \in UNION {[1..k -> Sorts] : k \in 0..3}}
              \cup {List(<<v>>) : v \in Elements \cup Scalars} \cup {Pair(v) : v \in Elements \cup Scalars}
              \cup {List(<<List(<<Plain("I64", 1)>>), Pair(Plain("I64", 3))>>), Pair(Pair(Plain("I8", 3)))}
ListOperands == V(ListValues \cup Scalars \cup {Null})
ListNodes ==
    Rest({"APPEND", "PREPEND"}, One(V({Plain("I64", 1), Null})))
    \cup Rest({"SKIP", "TAKE"}, One(Ints({-1, 0, 1, 2, 5})))
    \cup Rest({"SLICE"}, Two(Ints({-4, -1, 0, 1, 5}), Ints({0, 1, 5})))
    \cup Rest({"SPLICE"}, Three(Ints({0, 1, 2}), Ints({0, 1, 2, 5}), V({List(<<Plain("I64", 6)>>), Null}) \cup {Absent}))
    \cup Rest({"SORT"}, One({Absent, Val(AscText), Val(DescText), Val(Str(<<a>>))}))
    \cup Rest({"DEDUP", "IS_EMPTY", "LENGTH", "ENTRIES", "KEYS", "VALUES", "ARRAY"}, None)
    \cup Rest({"INDEX"}, {<<Val(Key("k"))>>, <<Val(Plain("I64", 0))>>, <<Val(Plain("I64", 0)), Val(Plain("I64", 0))>>})
    \cup Rest({"Arrow"}, One(V({Key("k"), Plain("I64", 1), Null, Bool(TRUE)})))
    \cup Rest({"UNWRAP"}, {<<Val(Holding("Path", <<Key("k")>>))>>, <<Val(Holding("Path", <<Key("k"), Key("k")>>))>>})
    \cup Rest({"Eq", "StringConcat"}, One(V({List(<<Plain("I64", 1)>>), Plain("Uuid", 6), Marked("Inet", 3, "V4")})))
    \cup Rest({"CAST"}, One(Types({"Str", "List", "Map", "Inet", "Uuid", "U32", "U128"})))
SecondListNodes == Rest({"CAST"}, One(Types({"List", "Map", "Inet", "Uuid", "Bytea", "Point", "Interval"})))

BoolNodes == Rest(Logical, One(V({Bool(TRUE), Bool(FALSE), Null}))) \cup Rest({"Not"}, None)
             \cup Rest({"Eq"}, One(V({Bool(TRUE), Plain("I64", 1)})))

MCFamilies == {"numbers", "points", "temporal", "text", "slices", "list", "bool"}
MCOperands ==
    [numbers |-> Numbers, points |-> Points, temporal |-> V(TemporalValues) \cup TemporalTexts, text |-> TextValues,
     slices |-> Strs(Chars3),
     list |-> ListOperands, bool |-> V({Bool(TRUE), Bool(FALSE), Null, Plain("I64", 1)})]
MCMaxDepth == [numbers |-> 1, points |-> 1, temporal |-> 1, text |-> 1, slices |-> 2, list |-> 2, bool |-> 2]
MCNodes ==
    [numbers |-> <<NumberNodes, {}>>, points |-> <<PointNodes, {}>>, temporal |-> <<TemporalNodes, {}>>, text |-> <<TextNodes, {}>>,
     slices |-> <<SliceNodes, SecondTextNodes, {}>>,
     list |-> <<ListNodes, SecondListNodes, {}>>, bool |-> <<BoolNodes, BoolNodes, {}>>]
MCColumns ==
    [numbers |-> <<Numeric \cup {"Inet", "Bool"}, {}>>, points |-> <<{"Point"}, {}>>, temporal |-> <<{"Date", "Timestamp", "Time", "Interval"}, {}>>,
     text |-> <<{"Str"}, {}>>, slices |-> <<{}, {"Str"}, {}>>, list |-> <<ColumnTypes, {}, {}>>, bool |-> <<{"Bool"}, {}, {}>>]
=============================================================================
