----------------------------- MODULE SqlGrammar -----------------------------
(***************************************************************************)
(* One shape for every tree the SQL front end passes on: the parser's       *)
(* syntax tree, GlueSQL's own, the query builder's nodes and the plan are   *)
(* all nodes [k, s, a]: a constructor, the word it carries and its children *)
(* in order.  A token of a text is a leaf.  An Option that is absent is     *)
(* None, a Vec is a List, and a Result that is an error is an Err, which    *)
(* every constructor passes on, as the operator ? does.                     *)
(***************************************************************************)
EXTENDS Naturals, Sequences

LOCAL INSTANCE TLC

N(k, s, a) == [k |-> k, s |-> s, a |-> a]
Leaf(k, s) == N(k, s, <<>>)
None == Leaf("None", "")
Err(why) == Leaf("Err", why)
IsErr(n) == n.k = "Err"

\* The node k of the children a, or the first error among them.
Mk(k, s, a) ==
    IF \E i \in DOMAIN a : IsErr(a[i])
    THEN a[CHOOSE i \in DOMAIN a : IsErr(a[i]) /\ \A j \in 1 .. (i - 1) : ~IsErr(a[j])]
    ELSE N(k, s, a)
List(a) == Mk("List", "", a)
Flag(b) == Leaf("Flag", IF b THEN "true" ELSE "false")

\* The place of x in the sequence q; 0 when it is not there.
At(q, x) == IF \E i \in DOMAIN q : q[i] = x THEN CHOOSE i \in DOMAIN q : q[i] = x ELSE 0

\* Tokens: an identifier, a number, a string and a keyword or a punctuation mark.
Id(s) == Leaf("id", s)
Num(s) == Leaf("num", s)
Str(s) == Leaf("str", s)
Kw(s) == Leaf("kw", s)
Ids(q) == [i \in DOMAIN q |-> Id(q[i])]

(***************************************************************************)
(* The eighty-five SQL functions of GlueSQL as the tables the code repeats  *)
(* them in: the enums of the syntax tree, of the query builder and of the   *)
(* plan, the builder's constructors and methods, the two builds, the        *)
(* conversion to a plan, the printing, the translation of a call, and the   *)
(* traversals.  A row gives the fields of a variant in the order the code   *)
(* takes them; a name ending in "?" is an Option and one in "*" a list.     *)
(***************************************************************************)

\* The rows of the variants S, all with the fields f.
Args(f, S) == [v \in S |-> f]

\* The variants of the enum Function, each with its fields in declared order.
Function_AbsToGcd ==
  Args(<<"expr">>, {"Abs", "Lower", "Initcap", "Upper", "Asin", "Acos", "Atan", "Ceil",
      "Round", "Trunc", "Floor", "Exp", "Ln", "Log2", "Log10"}) @@
  Args(<<"expr", "size">>, {"AddMonth", "Left", "Right"}) @@
  Args(<<"expr", "size", "fill?">>, {"Lpad", "Rpad"}) @@
  Args(<<"exprs*">>, {"Coalesce", "Concat"}) @@
  Args(<<"dividend", "divisor">>, {"Div", "Mod"}) @@
  [Replace |-> <<"expr", "old", "new">>, Cast |-> <<"expr", "data_type">>,
   ConcatWs |-> <<"separator", "exprs*">>, Custom |-> <<"name", "exprs*">>,
   IfNull |-> <<"expr", "then">>, NullIf |-> <<"expr1", "expr2">>, Rand |-> <<"expr?">>,
   Trim |-> <<"expr", "filter_chars?", "trim_where_field?">>,
   Extract |-> <<"field", "expr">>, Log |-> <<"antilog", "base">>,
   Gcd |-> <<"left", "right">>]

Function_LcmToDedup ==
  Args(<<"expr">>, {"Sin", "Cos", "Tan", "Sqrt", "Radians", "Degrees", "LastDay",
      "Reverse", "Sign", "Ascii", "Chr", "Md5", "Hex", "GetX", "GetY", "IsEmpty", "Length",
      "Entries", "Keys", "Values", "Dedup"}) @@
  Args(<<>>, {"Now", "CurrentDate", "CurrentTime", "CurrentTimestamp", "Pi",
      "GenerateUuid"}) @@
  Args(<<"expr", "chars?">>, {"Ltrim", "Rtrim"}) @@
  Args(<<"expr", "format">>, {"Format", "ToDate", "ToTimestamp", "ToTime"}) @@
  Args(<<"expr", "value">>, {"Append", "Prepend"}) @@
  Args(<<"expr", "size">>, {"Skip", "Take"}) @@
  [Lcm |-> <<"left", "right">>, Power |-> <<"expr", "power">>,
   Repeat |-> <<"expr", "num">>, Substr |-> <<"expr", "start", "count?">>,
   Unwrap |-> <<"expr", "selector">>, Greatest |-> <<"exprs*">>,
   Position |-> <<"from_expr", "sub_expr">>,
   FindIdx |-> <<"from_expr", "sub_expr", "start?">>, Sort |-> <<"expr", "order?">>,
   Slice |-> <<"expr", "start", "length">>, Point |-> <<"x", "y">>,
   CalcDistance |-> <<"geometry1", "geometry2">>,
   Splice |-> <<"list_data", "begin_index", "end_index", "values?">>]

Function == Function_AbsToGcd @@ Function_LcmToDedup

\* The variants of the builder's enum FunctionNode with their fields.
FunctionNode_AbsToRepeat ==
  Args(<<"expr">>, {"Abs", "Upper", "Ceil", "Round", "Trunc", "Floor", "Asin", "Acos",
      "Atan", "Sin", "Cos", "Tan", "Log2", "Log10", "Ln", "Reverse", "Sign", "Sqrt"}) @@
  Args(<<>>, {"Pi", "Now", "CurrentDate", "CurrentTime", "CurrentTimestamp",
      "GenerateUuid"}) @@
  Args(<<"expr", "size">>, {"Left", "Right", "Skip"}) @@
  Args(<<"left", "right">>, {"Gcd", "Lcm"}) @@
  [IfNull |-> <<"expr", "then">>, NullIf |-> <<"expr1", "expr2">>, Rand |-> <<"expr?">>,
   Log |-> <<"antilog", "base">>, Power |-> <<"expr", "power">>,
   Repeat |-> <<"expr", "num">>]

FunctionNode_ReplaceToValues ==
  Args(<<"expr">>, {"Exp", "Degrees", "Radians", "Lower", "Initcap", "Ascii", "Chr", "Md5",
      "Hex", "GetX", "GetY", "Length", "IsEmpty", "LastDay", "Entries", "Keys", "Values"}) @@
  Args(<<"expr", "size", "fill?">>, {"Lpad", "Rpad"}) @@
  Args(<<"exprs*">>, {"Coalesce", "Concat", "Greatest"}) @@
  Args(<<"expr", "chars?">>, {"Ltrim", "Rtrim"}) @@
  Args(<<"dividend", "divisor">>, {"Div", "Mod"}) @@
  Args(<<"expr", "format">>, {"Format", "ToDate", "ToTimestamp", "ToTime"}) @@
  [Replace |-> <<"expr", "old", "new">>, ConcatWs |-> <<"separator", "exprs*">>,
   Take |-> <<"expr", "size">>, Substr |-> <<"expr", "start", "count?">>,
   Position |-> <<"from_expr", "sub_expr">>,
   FindIdx |-> <<"from_expr", "sub_expr", "start?">>, Cast |-> <<"expr", "data_type">>,
   Extract |-> <<"field", "expr">>, Point |-> <<"x", "y">>,
   CalcDistance |-> <<"geometry1", "geometry2">>]

FunctionNode == FunctionNode_AbsToRepeat @@ FunctionNode_ReplaceToValues

\* The variants of the planner's enum FunctionPlan with their fields.
FunctionPlan_AbsToGcd ==
  Args(<<"expr">>, {"Abs", "Lower", "Initcap", "Upper", "Asin", "Acos", "Atan", "Ceil",
      "Round", "Trunc", "Floor", "Exp", "Ln", "Log2", "Log10"}) @@
  Args(<<"expr", "size">>, {"AddMonth", "Left", "Right"}) @@
  Args(<<"expr", "size", "fill?">>, {"Lpad", "Rpad"}) @@
  Args(<<"exprs*">>, {"Coalesce", "Concat"}) @@
  Args(<<"dividend", "divisor">>, {"Div", "Mod"}) @@
  [Replace |-> <<"expr", "old", "new">>, Cast |-> <<"expr", "data_type">>,
   ConcatWs |-> <<"separator", "exprs*">>, Custom |-> <<"name", "exprs*">>,
   IfNull |-> <<"expr", "then">>, NullIf |-> <<"expr1", "expr2">>, Rand |-> <<"expr?">>,
   Trim |-> <<"expr", "filter_chars?", "trim_where_field?">>,
   Extract |-> <<"field", "expr">>, Log |-> <<"antilog", "base">>,
   Gcd |-> <<"left", "right">>]

FunctionPlan_LcmToDedup ==
  Args(<<"expr">>, {"Sin", "Cos", "Tan", "Sqrt", "Radians", "Degrees", "LastDay",
      "Reverse", "Sign", "Ascii", "Chr", "Md5", "Hex", "GetX", "GetY", "IsEmpty", "Length",
      "Entries", "Keys", "Values", "Dedup"}) @@
  Args(<<>>, {"Now", "CurrentDate", "CurrentTime", "CurrentTimestamp", "Pi",
      "GenerateUuid"}) @@
  Args(<<"expr", "chars?">>, {"Ltrim", "Rtrim"}) @@
  Args(<<"expr", "format">>, {"Format", "ToDate", "ToTimestamp", "ToTime"}) @@
  Args(<<"expr", "value">>, {"Append", "Prepend"}) @@
  Args(<<"expr", "size">>, {"Skip", "Take"}) @@
  [Lcm |-> <<"left", "right">>, Power |-> <<"expr", "power">>,
   Repeat |-> <<"expr", "num">>, Substr |-> <<"expr", "start", "count?">>,
   Unwrap |-> <<"expr", "selector">>, Greatest |-> <<"exprs*">>,
   Position |-> <<"from_expr", "sub_expr">>,
   FindIdx |-> <<"from_expr", "sub_expr", "start?">>, Sort |-> <<"expr", "order?">>,
   Slice |-> <<"expr", "start", "length">>, Point |-> <<"x", "y">>,
   CalcDistance |-> <<"geometry1", "geometry2">>,
   Splice |-> <<"list_data", "begin_index", "end_index", "values?">>]

FunctionPlan == FunctionPlan_AbsToGcd @@ FunctionPlan_LcmToDedup

\* build_function: the fields of the node built into the fields of Function.
BuildFunction_AbsToLcm ==
  Args(<<"expr">>, {"Abs", "Upper", "Lower", "Initcap", "Ceil", "Round", "Trunc", "Floor",
      "Asin", "Acos", "Atan", "Sin", "Cos", "Tan", "Log2", "Log10", "Ln", "Reverse",
      "Sign", "Sqrt"}) @@
  Args(<<>>, {"Pi", "Now", "CurrentDate", "CurrentTime", "CurrentTimestamp"}) @@
  Args(<<"expr", "size">>, {"Left", "Right", "Skip"}) @@
  Args(<<"left", "right">>, {"Gcd", "Lcm"}) @@
  [IfNull |-> <<"expr", "then">>, NullIf |-> <<"expr1", "expr2">>, Rand |-> <<"expr?">>,
   Log |-> <<"antilog", "base">>, Power |-> <<"expr", "power">>]

BuildFunction_GenerateUuidToValues ==
  Args(<<"expr", "size", "fill?">>, {"Lpad", "Rpad"}) @@
  Args(<<"exprs*">>, {"Coalesce", "Concat", "Greatest"}) @@
  Args(<<"expr">>, {"Degrees", "Radians", "Exp", "Ascii", "Chr", "Md5", "Hex", "GetX",
      "GetY", "Length", "IsEmpty", "LastDay", "Entries", "Keys", "Values"}) @@
  Args(<<"expr", "chars?">>, {"Ltrim", "Rtrim"}) @@
  Args(<<"dividend", "divisor">>, {"Div", "Mod"}) @@
  Args(<<"expr", "format">>, {"Format", "ToDate", "ToTimestamp", "ToTime"}) @@
  [GenerateUuid |-> <<>>, Repeat |-> <<"expr", "num">>,
   Replace |-> <<"expr", "old", "new">>, ConcatWs |-> <<"separator", "exprs*">>,
   Take |-> <<"expr", "size">>, Substr |-> <<"expr", "start", "count?">>,
   Position |-> <<"from_expr", "sub_expr">>,
   FindIdx |-> <<"from_expr", "sub_expr", "start?">>, Cast |-> <<"expr", "data_type">>,
   Extract |-> <<"field", "expr">>, Point |-> <<"x", "y">>,
   CalcDistance |-> <<"geometry1", "geometry2">>]

BuildFunction == BuildFunction_AbsToLcm @@ BuildFunction_GenerateUuidToValues

\* build_function_plan: the fields of the node built into those of FunctionPlan.
BuildFunctionPlan_AbsToGenerateUuid ==
  Args(<<"expr">>, {"Abs", "Upper", "Lower", "Initcap", "Ceil", "Round", "Trunc", "Floor",
      "Asin", "Acos", "Atan", "Sin", "Cos", "Tan", "Log2", "Log10", "Ln", "Reverse",
      "Sign", "Sqrt"}) @@
  Args(<<>>, {"Pi", "Now", "CurrentDate", "CurrentTime", "CurrentTimestamp",
      "GenerateUuid"}) @@
  Args(<<"expr", "size">>, {"Left", "Right", "Skip"}) @@
  Args(<<"left", "right">>, {"Gcd", "Lcm"}) @@
  [IfNull |-> <<"expr", "then">>, NullIf |-> <<"expr1", "expr2">>, Rand |-> <<"expr?">>,
   Log |-> <<"antilog", "base">>, Power |-> <<"expr", "power">>]

BuildFunctionPlan_RepeatToValues ==
  Args(<<"expr", "size", "fill?">>, {"Lpad", "Rpad"}) @@
  Args(<<"exprs*">>, {"Coalesce", "Concat", "Greatest"}) @@
  Args(<<"expr">>, {"Degrees", "Radians", "Exp", "Ascii", "Chr", "Md5", "Hex", "GetX",
      "GetY", "Length", "IsEmpty", "LastDay", "Entries", "Keys", "Values"}) @@
  Args(<<"expr", "chars?">>, {"Ltrim", "Rtrim"}) @@
  Args(<<"dividend", "divisor">>, {"Div", "Mod"}) @@
  Args(<<"expr", "format">>, {"Format", "ToDate", "ToTimestamp", "ToTime"}) @@
  [Repeat |-> <<"expr", "num">>, Replace |-> <<"expr", "old", "new">>,
   ConcatWs |-> <<"separator", "exprs*">>, Take |-> <<"expr", "size">>,
   Substr |-> <<"expr", "start", "count?">>, Position |-> <<"from_expr", "sub_expr">>,
   FindIdx |-> <<"from_expr", "sub_expr", "start?">>, Cast |-> <<"expr", "data_type">>,
   Extract |-> <<"field", "expr">>, Point |-> <<"x", "y">>,
   CalcDistance |-> <<"geometry1", "geometry2">>]

BuildFunctionPlan == BuildFunctionPlan_AbsToGenerateUuid @@ BuildFunctionPlan_RepeatToValues

\* From<Function> for FunctionPlan: the fields of Function converted.
FromFunction_AbsToTan ==
  Args(<<"expr">>, {"Abs", "Lower", "Initcap", "Upper", "Asin", "Acos", "Atan", "Ceil",
      "Round", "Trunc", "Floor", "Exp", "Ln", "Log2", "Log10", "Sin", "Cos", "Tan"}) @@
  Args(<<"expr", "size">>, {"AddMonth", "Left", "Right"}) @@
  Args(<<"expr", "size", "fill?">>, {"Lpad", "Rpad"}) @@
  Args(<<"exprs*">>, {"Coalesce", "Concat"}) @@
  Args(<<"dividend", "divisor">>, {"Div", "Mod"}) @@
  Args(<<"left", "right">>, {"Gcd", "Lcm"}) @@
  [Replace |-> <<"expr", "old", "new">>, Cast |-> <<"expr", "data_type">>,
   ConcatWs |-> <<"separator", "exprs*">>, Custom |-> <<"name", "exprs*">>,
   IfNull |-> <<"expr", "then">>, NullIf |-> <<"expr1", "expr2">>, Rand |-> <<"expr?">>,
   Trim |-> <<"expr", "filter_chars?", "trim_where_field?">>,
   Extract |-> <<"field", "expr">>, Log |-> <<"antilog", "base">>]

FromFunction_SqrtToDedup ==
  Args(<<"expr">>, {"Sqrt", "Radians", "Degrees", "LastDay", "Reverse", "Sign", "Ascii",
      "Chr", "Md5", "Hex", "GetX", "GetY", "IsEmpty", "Length", "Entries", "Keys",
      "Values", "Dedup"}) @@
  Args(<<>>, {"Now", "CurrentDate", "CurrentTime", "CurrentTimestamp", "Pi",
      "GenerateUuid"}) @@
  Args(<<"expr", "chars?">>, {"Ltrim", "Rtrim"}) @@
  Args(<<"expr", "format">>, {"Format", "ToDate", "ToTimestamp", "ToTime"}) @@
  Args(<<"expr", "value">>, {"Append", "Prepend"}) @@
  Args(<<"expr", "size">>, {"Skip", "Take"}) @@
  [Power |-> <<"expr", "power">>, Repeat |-> <<"expr", "num">>,
   Substr |-> <<"expr", "start", "count?">>, Unwrap |-> <<"expr", "selector">>,
   Greatest |-> <<"exprs*">>, Position |-> <<"from_expr", "sub_expr">>,
   FindIdx |-> <<"from_expr", "sub_expr", "start?">>, Sort |-> <<"expr", "order?">>,
   Slice |-> <<"expr", "start", "length">>, Point |-> <<"x", "y">>,
   CalcDistance |-> <<"geometry1", "geometry2">>,
   Splice |-> <<"list_data", "begin_index", "end_index", "values?">>]

FromFunction == FromFunction_AbsToTan @@ FromFunction_SqrtToDedup

\* The free constructors: the variant each makes and the field of every parameter.
Constructor_AbsToPower ==
  [abs |-> <<"Abs", "expr">>, upper |-> <<"Upper", "expr">>, lower |-> <<"Lower", "expr">>,
   initcap |-> <<"Initcap", "expr">>, ifnull |-> <<"IfNull", "expr", "then">>,
   nullif |-> <<"NullIf", "expr1", "expr2">>, ceil |-> <<"Ceil", "expr">>,
   rand |-> <<"Rand", "expr?">>, round |-> <<"Round", "expr">>,
   trunc |-> <<"Trunc", "expr">>, coalesce |-> <<"Coalesce", "exprs*">>,
   concat |-> <<"Concat", "exprs*">>, concat_ws |-> <<"ConcatWs", "separator", "exprs*">>,
   floor |-> <<"Floor", "expr">>, asin |-> <<"Asin", "expr">>, acos |-> <<"Acos", "expr">>,
   atan |-> <<"Atan", "expr">>, sin |-> <<"Sin", "expr">>, cos |-> <<"Cos", "expr">>,
   tan |-> <<"Tan", "expr">>, pi |-> <<"Pi">>, generate_uuid |-> <<"GenerateUuid">>,
   now |-> <<"Now">>, current_date |-> <<"CurrentDate">>,
   current_time |-> <<"CurrentTime">>, current_timestamp |-> <<"CurrentTimestamp">>,
   left |-> <<"Left", "expr", "size">>, log |-> <<"Log", "antilog", "base">>,
   log2 |-> <<"Log2", "expr">>, log10 |-> <<"Log10", "expr">>, ln |-> <<"Ln", "expr">>,
   right |-> <<"Right", "expr", "size">>, reverse |-> <<"Reverse", "expr">>,
   sign |-> <<"Sign", "expr">>, skip |-> <<"Skip", "expr", "size">>,
   power |-> <<"Power", "expr", "power">>]

Constructor_SqrtToModulo ==
  [sqrt |-> <<"Sqrt", "expr">>, gcd |-> <<"Gcd", "left", "right">>,
   lcm |-> <<"Lcm", "left", "right">>, repeat |-> <<"Repeat", "expr", "num">>,
   replace |-> <<"Replace", "expr", "old", "new">>,
   lpad |-> <<"Lpad", "expr", "size", "fill?">>,
   rpad |-> <<"Rpad", "expr", "size", "fill?">>, degrees |-> <<"Degrees", "expr">>,
   radians |-> <<"Radians", "expr">>, take |-> <<"Take", "expr", "size">>,
   exp |-> <<"Exp", "expr">>, substr |-> <<"Substr", "expr", "start", "count?">>,
   ltrim |-> <<"Ltrim", "expr", "chars?">>, rtrim |-> <<"Rtrim", "expr", "chars?">>,
   divide |-> <<"Div", "dividend", "divisor">>,
   modulo |-> <<"Mod", "dividend", "divisor">>]

Constructor_FormatToValues ==
  [format |-> <<"Format", "expr", "format">>, to_date |-> <<"ToDate", "expr", "format">>,
   to_timestamp |-> <<"ToTimestamp", "expr", "format">>,
   to_time |-> <<"ToTime", "expr", "format">>,
   position |-> <<"Position", "from_expr", "sub_expr">>,
   find_idx |-> <<"FindIdx", "from_expr", "sub_expr", "start?">>,
   cast |-> <<"Cast", "expr", "data_type">>, extract |-> <<"Extract", "field", "expr">>,
   ascii |-> <<"Ascii", "expr">>, chr |-> <<"Chr", "expr">>, md5 |-> <<"Md5", "expr">>,
   hex |-> <<"Hex", "expr">>, point |-> <<"Point", "x", "y">>,
   get_x |-> <<"GetX", "expr">>, get_y |-> <<"GetY", "expr">>,
   greatest |-> <<"Greatest", "exprs*">>,
   calc_distance |-> <<"CalcDistance", "geometry1", "geometry2">>,
   length |-> <<"Length", "expr">>, is_empty |-> <<"IsEmpty", "expr">>,
   last_day |-> <<"LastDay", "expr">>, entries |-> <<"Entries", "expr">>,
   keys |-> <<"Keys", "expr">>, values |-> <<"Values", "expr">>]

Constructor == Constructor_AbsToPower @@ Constructor_SqrtToModulo @@
    Constructor_FormatToValues

\* The methods of ExprNode that call the constructor of their name: the arguments, the
\* receiver being self.
Method_AbsToLcm ==
  Args(<<"self">>, {"abs", "upper", "lower", "initcap", "ceil", "rand", "round", "trunc",
      "floor", "asin", "acos", "atan", "sin", "cos", "tan", "log2", "log10", "ln",
      "reverse", "sign", "sqrt"}) @@
  Args(<<"self", "another">>, {"ifnull", "nullif"}) @@
  Args(<<"self", "size">>, {"left", "right", "skip"}) @@
  Args(<<"self", "right">>, {"gcd", "lcm"}) @@
  [log |-> <<"self", "base">>, power |-> <<"self", "pwr">>]

Method_RepeatToValues ==
  Args(<<"self">>, {"degrees", "radians", "exp", "is_empty", "last_day", "entries", "keys",
      "values"}) @@
  Args(<<"self", "size", "fill">>, {"lpad", "rpad"}) @@
  Args(<<"self", "chars">>, {"rtrim", "ltrim"}) @@
  Args(<<"self", "format">>, {"to_date", "to_timestamp", "to_time", "position"}) @@
  [repeat |-> <<"self", "num">>, replace |-> <<"self", "old", "new">>,
   take |-> <<"self", "size">>, substr |-> <<"self", "start", "count">>,
   format |-> <<"self", "fmt">>, find_idx |-> <<"self", "sub", "start">>,
   cast |-> <<"self", "data_type">>, extract |-> <<"field", "self">>]

Method == Method_AbsToLcm @@ Method_RepeatToValues

\* Function::to_sql: the name printed and the fields printed in parentheses.
ToSql_AbsToRand ==
  [Abs |-> <<"ABS", "expr">>, AddMonth |-> <<"ADD_MONTH", "expr", "size">>,
   Initcap |-> <<"INITCAP", "expr">>, Lower |-> <<"LOWER", "expr">>,
   Upper |-> <<"UPPER", "expr">>, Left |-> <<"LEFT", "expr", "size">>,
   Right |-> <<"RIGHT", "expr", "size">>, Asin |-> <<"ASIN", "expr">>,
   Acos |-> <<"ACOS", "expr">>, Atan |-> <<"ATAN", "expr">>,
   Lpad |-> <<"LPAD", "expr", "size", "fill?">>,
   Rpad |-> <<"RPAD", "expr", "size", "fill?">>, Ceil |-> <<"CEIL", "expr">>,
   Coalesce |-> <<"COALESCE", "exprs*">>, Concat |-> <<"CONCAT", "exprs*">>,
   ConcatWs |-> <<"CONCAT_WS", "separator", "exprs*">>,
   IfNull |-> <<"IFNULL", "expr", "then">>, NullIf |-> <<"NULLIF", "expr1", "expr2">>,
   Rand |-> <<"RAND", "expr?">>]

ToSql_RoundToGreatest ==
  [Round |-> <<"ROUND", "expr">>, Trunc |-> <<"TRUNC", "expr">>,
   Floor |-> <<"FLOOR", "expr">>, Exp |-> <<"EXP", "expr">>, Ln |-> <<"LN", "expr">>,
   Log |-> <<"LOG", "antilog", "base">>, Log2 |-> <<"LOG2", "expr">>,
   Log10 |-> <<"LOG10", "expr">>, Div |-> <<"DIV", "dividend", "divisor">>,
   Mod |-> <<"MOD", "dividend", "divisor">>, Gcd |-> <<"GCD", "left", "right">>,
   Lcm |-> <<"LCM", "left", "right">>, Sin |-> <<"SIN", "expr">>,
   Cos |-> <<"COS", "expr">>, Tan |-> <<"TAN", "expr">>, Sqrt |-> <<"SQRT", "expr">>,
   Power |-> <<"POWER", "expr", "power">>, Radians |-> <<"RADIANS", "expr">>,
   Degrees |-> <<"DEGREES", "expr">>, Now |-> <<"NOW">>,
   CurrentDate |-> <<"CURRENT_DATE">>, CurrentTime |-> <<"CURRENT_TIME">>,
   CurrentTimestamp |-> <<"CURRENT_TIMESTAMP">>, Pi |-> <<"PI">>,
   LastDay |-> <<"LAST_DAY", "expr">>, Ltrim |-> <<"LTRIM", "expr", "chars?">>,
   Rtrim |-> <<"RTRIM", "expr", "chars?">>, Reverse |-> <<"REVERSE", "expr">>,
   Repeat |-> <<"REPEAT", "expr", "num">>, Replace |-> <<"REPLACE", "expr", "old", "new">>,
   Sign |-> <<"SIGN", "expr">>, Substr |-> <<"SUBSTR", "expr", "start", "count?">>,
   Unwrap |-> <<"UNWRAP", "expr", "selector">>, GenerateUuid |-> <<"GENERATE_UUID">>,
   Greatest |-> <<"GREATEST", "exprs*">>]

ToSql_FormatToDedup ==
  [Format |-> <<"FORMAT", "expr", "format">>, ToDate |-> <<"TO_DATE", "expr", "format">>,
   ToTimestamp |-> <<"TO_TIMESTAMP", "expr", "format">>,
   ToTime |-> <<"TO_TIME", "expr", "format">>,
   FindIdx |-> <<"FIND_IDX", "from_expr", "sub_expr", "start?">>,
   Ascii |-> <<"ASCII", "expr">>, Chr |-> <<"CHR", "expr">>, Md5 |-> <<"MD5", "expr">>,
   Hex |-> <<"HEX", "expr">>, Append |-> <<"APPEND", "expr", "value">>,
   Prepend |-> <<"PREPEND", "expr", "value">>, Skip |-> <<"SKIP", "expr", "size">>,
   Sort |-> <<"SORT", "expr", "order?">>, Slice |-> <<"SLICE", "expr", "start", "length">>,
   Take |-> <<"TAKE", "expr", "size">>, GetX |-> <<"GET_X", "expr">>,
   GetY |-> <<"GET_Y", "expr">>, Point |-> <<"POINT", "x", "y">>,
   CalcDistance |-> <<"CALC_DISTANCE", "geometry1", "geometry2">>,
   IsEmpty |-> <<"IS_EMPTY", "expr">>, Length |-> <<"LENGTH", "expr">>,
   Entries |-> <<"ENTRIES", "expr">>, Keys |-> <<"KEYS", "expr">>,
   Values |-> <<"VALUES", "expr">>,
   Splice |-> <<"SPLICE", "list_data", "begin_index", "end_index", "values?">>,
   Dedup |-> <<"DEDUP", "expr">>]

ToSql == ToSql_AbsToRand @@ ToSql_RoundToGreatest @@ ToSql_FormatToDedup

\* translate_function: the variant of a name and the field of every argument.
Translate_CoalesceToSqrt ==
  [COALESCE |-> <<"Coalesce", "exprs*">>, CONCAT |-> <<"Concat", "exprs*">>,
   CONCAT_WS |-> <<"ConcatWs", "separator", "exprs*">>,
   FIND_IDX |-> <<"FindIdx", "from_expr", "sub_expr", "start?">>,
   LOWER |-> <<"Lower", "expr">>, INITCAP |-> <<"Initcap", "expr">>,
   UPPER |-> <<"Upper", "expr">>, LEFT |-> <<"Left", "expr", "size">>,
   IFNULL |-> <<"IfNull", "expr", "then">>, NULLIF |-> <<"NullIf", "expr1", "expr2">>,
   RIGHT |-> <<"Right", "expr", "size">>, SQRT |-> <<"Sqrt", "expr">>]

Translate_PowerToLcm ==
  [POWER |-> <<"Power", "expr", "power">>, LPAD |-> <<"Lpad", "expr", "size", "fill?">>,
   RPAD |-> <<"Rpad", "expr", "size", "fill?">>, RAND |-> <<"Rand", "expr?">>,
   ROUND |-> <<"Round", "expr">>, TRUNC |-> <<"Trunc", "expr">>, EXP |-> <<"Exp", "expr">>,
   LN |-> <<"Ln", "expr">>, LOG |-> <<"Log", "antilog", "base">>,
   LOG2 |-> <<"Log2", "expr">>, LOG10 |-> <<"Log10", "expr">>, SIN |-> <<"Sin", "expr">>,
   COS |-> <<"Cos", "expr">>, TAN |-> <<"Tan", "expr">>, ASIN |-> <<"Asin", "expr">>,
   ACOS |-> <<"Acos", "expr">>, ATAN |-> <<"Atan", "expr">>,
   RADIANS |-> <<"Radians", "expr">>, DEGREES |-> <<"Degrees", "expr">>, PI |-> <<"Pi">>,
   NOW |-> <<"Now">>, CURRENT_DATE |-> <<"CurrentDate">>,
   CURRENT_TIME |-> <<"CurrentTime">>, CURRENT_TIMESTAMP |-> <<"CurrentTimestamp">>,
   GCD |-> <<"Gcd", "left", "right">>, LAST_DAY |-> <<"LastDay", "expr">>,
   LCM |-> <<"Lcm", "left", "right">>]

Translate_LtrimToUnwrap ==
  [LTRIM |-> <<"Ltrim", "expr", "chars?">>, RTRIM |-> <<"Rtrim", "expr", "chars?">>,
   DIV |-> <<"Div", "dividend", "divisor">>, MOD |-> <<"Mod", "dividend", "divisor">>,
   REVERSE |-> <<"Reverse", "expr">>, REPLACE |-> <<"Replace", "expr", "old", "new">>,
   REPEAT |-> <<"Repeat", "expr", "num">>,
   SUBSTR |-> <<"Substr", "expr", "start", "count?">>,
   UNWRAP |-> <<"Unwrap", "expr", "selector">>]

Translate_AbsToLength ==
  [ABS |-> <<"Abs", "expr">>, SIGN |-> <<"Sign", "expr">>,
   GENERATE_UUID |-> <<"GenerateUuid">>, FORMAT |-> <<"Format", "expr", "format">>,
   TO_DATE |-> <<"ToDate", "expr", "format">>,
   TO_TIMESTAMP |-> <<"ToTimestamp", "expr", "format">>,
   TO_TIME |-> <<"ToTime", "expr", "format">>,
   ADD_MONTH |-> <<"AddMonth", "expr", "size">>, ASCII |-> <<"Ascii", "expr">>,
   CHR |-> <<"Chr", "expr">>, MD5 |-> <<"Md5", "expr">>, HEX |-> <<"Hex", "expr">>,
   LENGTH |-> <<"Length", "expr">>]

Translate_AppendToDedup ==
  [APPEND |-> <<"Append", "expr", "value">>, PREPEND |-> <<"Prepend", "expr", "value">>,
   SKIP |-> <<"Skip", "expr", "size">>, SORT |-> <<"Sort", "expr", "order?">>,
   POINT |-> <<"Point", "x", "y">>, GET_X |-> <<"GetX", "expr">>,
   GET_Y |-> <<"GetY", "expr">>,
   CALC_DISTANCE |-> <<"CalcDistance", "geometry1", "geometry2">>,
   IS_EMPTY |-> <<"IsEmpty", "expr">>, SLICE |-> <<"Slice", "expr", "start", "length">>,
   GREATEST |-> <<"Greatest", "exprs*">>, ENTRIES |-> <<"Entries", "expr">>,
   KEYS |-> <<"Keys", "expr">>, VALUES |-> <<"Values", "expr">>,
   SPLICE |-> <<"Splice", "list_data", "begin_index", "end_index", "values?">>,
   DEDUP |-> <<"Dedup", "expr">>] @@
  Args(<<"Take", "expr", "size">>, {"TAKE"})

Translate == Translate_CoalesceToSqrt @@ Translate_PowerToLcm @@ Translate_LtrimToUnwrap @@
    Translate_AbsToLength @@ Translate_AppendToDedup

\* FunctionPlan::as_exprs: the expressions of a function in the order it yields them.
AsExprs_EmptyAndSingle ==
  Args(<<"expr">>, {"Abs", "Lower", "Initcap", "Upper", "Asin", "Acos", "Atan", "Cast",
      "Ceil", "Round", "Trunc", "Floor", "Exp", "Extract", "Ln", "Log2", "Log10", "Sin",
      "Cos", "Tan", "Sqrt", "Radians", "Degrees", "LastDay", "Reverse", "Sign", "Ascii",
      "Chr", "Md5", "Hex", "GetX", "GetY", "IsEmpty", "Length", "Entries", "Keys",
      "Values", "Dedup"}) @@
  Args(<<>>, {"Now", "CurrentDate", "CurrentTime", "CurrentTimestamp", "Pi",
      "GenerateUuid"}) @@
  [Rand |-> <<"expr?">>]

AsExprs_Several ==
  Args(<<"expr", "size">>, {"AddMonth", "Left", "Right", "Skip", "Take"}) @@
  Args(<<"expr", "size", "fill?">>, {"Lpad", "Rpad"}) @@
  Args(<<"exprs*">>, {"Coalesce", "Concat", "Custom", "Greatest"}) @@
  Args(<<"dividend", "divisor">>, {"Div", "Mod"}) @@
  Args(<<"left", "right">>, {"Gcd", "Lcm"}) @@
  Args(<<"expr", "chars?">>, {"Ltrim", "Rtrim"}) @@
  Args(<<"expr", "format">>, {"Format", "ToDate", "ToTimestamp", "ToTime"}) @@
  Args(<<"expr", "value">>, {"Append", "Prepend"}) @@
  [Replace |-> <<"expr", "old", "new">>, ConcatWs |-> <<"separator", "exprs*">>,
   IfNull |-> <<"expr", "then">>, NullIf |-> <<"expr1", "expr2">>,
   Trim |-> <<"expr", "filter_chars?">>, Log |-> <<"antilog", "base">>,
   Power |-> <<"expr", "power">>, Repeat |-> <<"expr", "num">>,
   Substr |-> <<"expr", "start", "count?">>, Unwrap |-> <<"expr", "selector">>,
   Position |-> <<"sub_expr", "from_expr">>,
   FindIdx |-> <<"from_expr", "sub_expr", "start?">>, Sort |-> <<"expr", "order?">>,
   Slice |-> <<"expr", "start", "length">>, Point |-> <<"x", "y">>,
   CalcDistance |-> <<"geometry1", "geometry2">>,
   Splice |-> <<"list_data", "begin_index", "end_index", "values?">>]

AsExprs == AsExprs_EmptyAndSingle @@ AsExprs_Several

\* visit_function_children: the expressions of a function in the order they are visited.
Visit_OneArgument ==
  Args(<<"expr">>, {"Abs", "Lower", "Initcap", "Upper", "Asin", "Acos", "Atan", "Ceil",
      "Round", "Trunc", "Floor", "Exp", "Ln", "Log2", "Log10", "Sin", "Cos", "Tan", "Sqrt",
      "Radians", "Degrees", "LastDay", "Reverse", "Sign", "Ascii", "Chr", "Md5", "Hex",
      "GetX", "GetY", "IsEmpty", "Length", "Entries", "Keys", "Values", "Dedup"})

Visit_Several ==
  Args(<<"expr", "size">>, {"AddMonth", "Left", "Right", "Skip", "Take"}) @@
  Args(<<"expr", "size", "fill?">>, {"Lpad", "Rpad"}) @@
  Args(<<"expr">>, {"Cast", "Extract"}) @@
  Args(<<"exprs*">>, {"Coalesce", "Concat", "Custom", "Greatest"}) @@
  Args(<<"dividend", "divisor">>, {"Div", "Mod"}) @@
  Args(<<"left", "right">>, {"Gcd", "Lcm"}) @@
  Args(<<>>, {"Now", "CurrentDate", "CurrentTime", "CurrentTimestamp", "Pi",
      "GenerateUuid"}) @@
  Args(<<"expr", "chars?">>, {"Ltrim", "Rtrim"}) @@
  Args(<<"expr", "format">>, {"Format", "ToDate", "ToTimestamp", "ToTime"}) @@
  Args(<<"expr", "value">>, {"Append", "Prepend"}) @@
  [Replace |-> <<"expr", "old", "new">>, ConcatWs |-> <<"separator", "exprs*">>,
   IfNull |-> <<"expr", "then">>, NullIf |-> <<"expr1", "expr2">>, Rand |-> <<"expr?">>,
   Trim |-> <<"expr", "filter_chars?">>, Log |-> <<"antilog", "base">>,
   Power |-> <<"expr", "power">>, Repeat |-> <<"expr", "num">>,
   Substr |-> <<"expr", "start", "count?">>, Unwrap |-> <<"expr", "selector">>,
   Position |-> <<"from_expr", "sub_expr">>,
   FindIdx |-> <<"from_expr", "sub_expr", "start?">>, Sort |-> <<"expr", "order?">>,
   Slice |-> <<"expr", "start", "length">>, Point |-> <<"x", "y">>,
   CalcDistance |-> <<"geometry1", "geometry2">>,
   Splice |-> <<"list_data", "begin_index", "end_index", "values?">>]

Visit == Visit_OneArgument @@ Visit_Several

\* is_function_deterministic: the functions it calls so when these fields are.
Deterministic ==
  Args(<<"expr">>, {"Abs", "Lower", "Initcap", "Upper", "Asin", "Acos", "Atan", "Cast",
      "Ceil", "Round", "Trunc", "Floor", "Exp", "Extract", "Ln", "Log2", "Log10", "Sin",
      "Cos", "Tan", "Sqrt", "Radians", "Degrees", "LastDay", "Reverse", "Sign", "Ascii",
      "Chr", "Md5", "Hex", "GetX", "GetY", "IsEmpty", "Length", "Entries", "Keys",
      "Values", "Dedup"}) @@
  Args(<<"expr", "size">>, {"AddMonth", "Left", "Right", "Skip", "Take"}) @@
  Args(<<"expr", "size", "fill?">>, {"Lpad", "Rpad"}) @@
  Args(<<"exprs*">>, {"Coalesce", "Concat", "Greatest"}) @@
  Args(<<"dividend", "divisor">>, {"Div", "Mod"}) @@
  Args(<<"left", "right">>, {"Gcd", "Lcm"}) @@
  Args(<<"expr", "chars?">>, {"Ltrim", "Rtrim"}) @@
  Args(<<"expr", "format">>, {"Format", "ToDate", "ToTimestamp", "ToTime"}) @@
  Args(<<"expr", "value">>, {"Append", "Prepend"}) @@
  [Replace |-> <<"expr", "old", "new">>, ConcatWs |-> <<"separator", "exprs*">>,
   IfNull |-> <<"expr", "then">>, NullIf |-> <<"expr1", "expr2">>,
   Trim |-> <<"expr", "filter_chars?">>, Log |-> <<"antilog", "base">>,
   Power |-> <<"expr", "power">>, Pi |-> <<>>, Repeat |-> <<"expr", "num">>,
   Substr |-> <<"expr", "start", "count?">>, Unwrap |-> <<"expr", "selector">>,
   Position |-> <<"from_expr", "sub_expr">>,
   FindIdx |-> <<"from_expr", "sub_expr", "start?">>, Sort |-> <<"expr", "order?">>,
   Slice |-> <<"expr", "start", "length">>, Point |-> <<"x", "y">>,
   CalcDistance |-> <<"geometry1", "geometry2">>,
   Splice |-> <<"list_data", "begin_index", "end_index", "values?">>]

\* function_may_return_null: NULL when every one of these fields is (NULLIF and a custom
\* function always may), or when any of them is.
NullWhenAll ==
  [Coalesce |-> <<"exprs*">>, IfNull |-> <<"expr", "then">>]

NullWhenAny ==
  Args(<<"expr">>, {"Abs", "Lower", "Initcap", "Upper", "Asin", "Acos", "Atan", "Cast",
      "Ceil", "Round", "Trunc", "Floor", "Exp", "Extract", "Ln", "Log2", "Log10", "Sin",
      "Cos", "Tan", "Sqrt", "Radians", "Degrees", "LastDay", "Reverse", "Sign", "Ascii",
      "Chr", "Md5", "Hex", "GetX", "GetY", "IsEmpty", "Length", "Entries", "Keys",
      "Values", "Dedup"}) @@
  Args(<<"expr", "size">>, {"AddMonth", "Left", "Right", "Skip", "Take"}) @@
  Args(<<"expr", "size", "fill?">>, {"Lpad", "Rpad"}) @@
  Args(<<"exprs*">>, {"Concat", "Greatest"}) @@
  Args(<<"dividend", "divisor">>, {"Div", "Mod"}) @@
  Args(<<"left", "right">>, {"Gcd", "Lcm"}) @@
  Args(<<"expr", "chars?">>, {"Ltrim", "Rtrim"}) @@
  Args(<<"expr", "format">>, {"Format", "ToDate", "ToTimestamp", "ToTime"}) @@
  Args(<<"expr", "value">>, {"Append", "Prepend"}) @@
  [Replace |-> <<"expr", "old", "new">>, ConcatWs |-> <<"separator", "exprs*">>,
   Trim |-> <<"expr", "filter_chars?">>, Log |-> <<"antilog", "base">>,
   Power |-> <<"expr", "power">>, Repeat |-> <<"expr", "num">>,
   Substr |-> <<"expr", "start", "count?">>, Unwrap |-> <<"expr", "selector">>,
   Position |-> <<"from_expr", "sub_expr">>,
   FindIdx |-> <<"from_expr", "sub_expr", "start?">>, Sort |-> <<"expr", "order?">>,
   Slice |-> <<"expr", "start", "length">>, Point |-> <<"x", "y">>,
   CalcDistance |-> <<"geometry1", "geometry2">>,
   Splice |-> <<"list_data", "begin_index", "end_index", "values?">>]

(***************************************************************************)
(* The types of the trees: the enums and structs of core/src/ast and of     *)
(* core/src/plan/statement, each variant with the kinds of its children.    *)
(* A bool or an operator of a variant is the word s of its node.            *)
(***************************************************************************)

One(c) == <<"one", c>>
Opt1(c) == <<"option", c>>
Many(c) == <<"vec", c>>
E == One("Expr")
Name == One("id")

UnaryOperator == {"Plus", "Minus", "Not", "Factorial", "BitwiseNot"}
BinaryOperator ==
    {"Plus", "Minus", "Multiply", "Divide", "Modulo", "StringConcat", "Gt", "Lt", "GtEq", "LtEq",
     "Eq", "NotEq", "And", "Or", "Xor", "BitwiseAnd", "BitwiseShiftLeft", "BitwiseShiftRight", "Arrow"}
IndexOperator == {"Gt", "Lt", "GtEq", "LtEq", "Eq"}
DataType ==
    {"Boolean", "Int8", "Int16", "Int32", "Int", "Int128", "Uint8", "Uint16", "Uint32", "Uint64",
     "Uint128", "Float32", "Float", "Text", "Bytea", "Inet", "Date", "Timestamp", "Time", "Interval",
     "Uuid", "Map", "List", "Decimal", "Point"}
DateTimeField == {"YEAR", "MONTH", "DAY", "HOUR", "MINUTE", "SECOND"}
TrimWhereField == {"BOTH", "LEADING", "TRAILING"}
AggregateFunction == {"Count", "Sum", "Max", "Min", "Avg", "Variance", "Stdev"}
AggregateFunctionPlan == {"Count", "Sum", "Max", "Min", "Avg", "Variance", "Stdev"}
Dictionary == {"GLUE_TABLES", "GLUE_TABLE_COLUMNS", "GLUE_INDEXES", "GLUE_OBJECTS"}

Expr ==
    [Identifier |-> <<>>, CompoundIdentifier |-> <<Name, Name>>, IsNull |-> <<E>>,
     IsNotNull |-> <<E>>, InList |-> <<E, Many("Expr")>>, InSubquery |-> <<E, One("Query")>>,
     Between |-> <<E, E, E>>, Like |-> <<E, E>>, ILike |-> <<E, E>>, BinaryOp |-> <<E, E>>,
     UnaryOp |-> <<E>>, Nested |-> <<E>>, Literal |-> <<>>, Value |-> <<>>,
     TypedString |-> <<One("DataType"), One("str")>>, Function |-> <<>>,
     Aggregate |-> <<One("CountArg"), One("Flag")>>, Exists |-> <<One("Query")>>,
     Subquery |-> <<One("Query")>>, Case |-> <<Opt1("Expr"), Many("When"), Opt1("Expr")>>,
     ArrayIndex |-> <<E, Many("Expr")>>,
     Interval |-> <<E, Opt1("DateTimeField"), Opt1("DateTimeField")>>, Array |-> <<Many("Expr")>>]
ExprPlan ==
    [Identifier |-> <<>>, CompoundIdentifier |-> <<Name, Name>>, IsNull |-> <<E>>,
     IsNotNull |-> <<E>>, InList |-> <<E, Many("Expr")>>, InSubquery |-> <<E, One("Query")>>,
     Between |-> <<E, E, E>>, Like |-> <<E, E>>, ILike |-> <<E, E>>, BinaryOp |-> <<E, E>>,
     UnaryOp |-> <<E>>, Nested |-> <<E>>, Literal |-> <<>>, Value |-> <<>>,
     TypedString |-> <<One("DataType"), One("str")>>, Function |-> <<>>,
     Aggregate |-> <<One("CountArg"), One("Flag"), Opt1("slot")>>, Exists |-> <<One("Query")>>,
     Subquery |-> <<One("Query")>>, Case |-> <<Opt1("Expr"), Many("When"), Opt1("Expr")>>,
     ArrayIndex |-> <<E, Many("Expr")>>,
     Interval |-> <<E, Opt1("DateTimeField"), Opt1("DateTimeField")>>, Array |-> <<Many("Expr")>>]

\* Query, SetExpr, Projection, Select, SelectItem, TableWithJoins, TableFactor, Dictionary,
\* TableAlias, Join, JoinOperator, JoinConstraint, OrderByExpr and Values.
Query ==
    [Query |-> [Query |-> <<One("SetExpr"), Many("OrderByExpr"), Opt1("Expr"), Opt1("Expr")>>],
     SetExpr |-> [Select |-> <<Many("SelectItem"), One("TableWithJoins"), Opt1("Expr"),
                               Many("Expr"), Opt1("Expr")>>,
                  Values |-> <<Many("Row")>>],
     SelectItem |-> [Expr |-> <<E, One("label")>>, QualifiedWildcard |-> <<Name>>, Wildcard |-> <<>>],
     TableWithJoins |-> [TableWithJoins |-> <<One("TableFactor"), Many("Join")>>],
     TableFactor |-> [Table |-> <<Name, Opt1("Alias")>>, Derived |-> <<One("Query"), One("Alias")>>,
                      Series |-> <<One("Alias"), E>>, Dictionary |-> <<One("Alias")>>],
     Join |-> [Join |-> <<One("TableFactor"), Opt1("Expr")>>],
     OrderByExpr |-> [OrderByExpr |-> <<E>>]]
QueryPlan ==
    [Query |-> [Query |-> <<One("SetExpr"), Many("OrderByExpr"), Opt1("Expr"), Opt1("Expr")>>],
     SetExpr |-> [Select |-> <<Many("SelectItem"), One("TableWithJoins"), Opt1("Expr"),
                               Many("Expr"), Opt1("Expr"), Opt1("slots")>>,
                  Values |-> <<Many("Row")>>],
     OrderByExpr |-> [OrderByExpr |-> <<E>>]]
ProjectionPlan ==
    [SelectItem |-> [Expr |-> <<E, One("label")>>, QualifiedWildcard |-> <<Name>>, Wildcard |-> <<>>]]
TableFactorPlan ==
    [TableWithJoins |-> [TableWithJoins |-> <<One("TableFactor"), Many("Join")>>],
     Index |-> [PrimaryKey |-> <<E>>, NonClustered |-> <<Name, Opt1("Asc"), Opt1("Cmp")>>],
     TableFactor |-> [Table |-> <<Name, Opt1("Alias"), Opt1("Index")>>,
                      Derived |-> <<One("Query"), One("Alias")>>,
                      Series |-> <<One("Alias"), E>>, Dictionary |-> <<One("Alias")>>]]
JoinPlan ==
    [Join |-> [Join |-> <<One("TableFactor"), Opt1("Expr"), One("Executor")>>],
     Executor |-> [NestedLoop |-> <<>>, Hash |-> <<E, E, Opt1("Expr")>>]]
Statement ==
    [ShowColumns |-> <<Name>>, Insert |-> <<Name, Many("id"), One("Query")>>,
     Query |-> <<One("SetExpr"), Many("OrderByExpr"), Opt1("Expr"), Opt1("Expr")>>,
     Update |-> <<Name, Many("Assignment"), Opt1("Expr")>>, Delete |-> <<Name, Opt1("Expr")>>,
     CreateTable |-> <<Name, One("Columns"), Opt1("Query"), Opt1("id"), Many("ForeignKey"),
                       Opt1("str")>>,
     CreateFunction |-> <<Many("Arg"), Name, One("AstExpr")>>, AlterTable |-> <<Name, One("AlterTable")>>,
     DropTable |-> <<Many("id"), One("Flag")>>, DropFunction |-> <<Many("id")>>,
     CreateIndex |-> <<Name, Name, One("IndexColumn")>>, DropIndex |-> <<Name, Name>>,
     StartTransaction |-> <<>>, Commit |-> <<>>, Rollback |-> <<>>, ShowVariable |-> <<>>,
     ShowIndexes |-> <<Name>>]
StatementPlan ==
    [ShowColumns |-> <<Name>>, Insert |-> <<Name, Many("id"), One("Query")>>,
     Query |-> <<One("SetExpr"), Many("OrderByExpr"), Opt1("Expr"), Opt1("Expr")>>,
     Update |-> <<Name, Many("Assignment"), Opt1("Expr")>>, Delete |-> <<Name, Opt1("Expr")>>,
     CreateTable |-> <<Name, One("Columns"), Opt1("Query"), Opt1("id"), Many("ForeignKey"),
                       Opt1("str")>>,
     CreateFunction |-> <<Many("Arg"), Name, One("AstExpr")>>, AlterTable |-> <<Name, One("AlterTable")>>,
     DropTable |-> <<Many("id"), One("Flag")>>, DropFunction |-> <<Many("id")>>,
     CreateIndex |-> <<Name, Name, One("IndexColumn")>>, DropIndex |-> <<Name, Name>>,
     StartTransaction |-> <<>>, Commit |-> <<>>, Rollback |-> <<>>, ShowVariable |-> <<>>,
     ShowIndexes |-> <<Name>>]
AlterTableOperation ==
    [AddColumn |-> <<One("ColumnDef")>>, DropColumn |-> <<Name>>, RenameColumn |-> <<Name, Name>>,
     RenameTable |-> <<Name>>]
\* AstExpr: what a schema keeps is an expression of the syntax tree, in a plan as well.
ColumnDef == <<One("DataType"), One("Flag"), Opt1("AstExpr"), Opt1("Unique"), Opt1("str")>>
OperateFunctionArg == <<One("DataType"), Opt1("AstExpr")>>
ForeignKey == <<Name, Name, Name, One("KeyName"), One("ReferentialAction"), One("ReferentialAction")>>

\* The kinds every grammar shares, and the two grammars.
Shared ==
    [CountArg |-> [Wildcard |-> <<>>], When |-> [When |-> <<E, E>>], Row |-> [List |-> <<>>],
     Cmp |-> [Cmp |-> <<E>>], Assignment |-> [Assignment |-> <<E>>],
     AlterTable |-> AlterTableOperation, ColumnDef |-> [ColumnDef |-> ColumnDef],
     Arg |-> [Arg |-> OperateFunctionArg], ForeignKey |-> [ForeignKey |-> ForeignKey],
     IndexColumn |-> [OrderByExpr |-> <<One("AstExpr")>>]]
Ast == Query @@ Shared @@ [Expr |-> Expr, Statement |-> Statement]
Plan == QueryPlan @@ ProjectionPlan @@ TableFactorPlan @@ JoinPlan @@ Shared
            @@ [Expr |-> ExprPlan, Statement |-> StatementPlan]

\* The words a node may carry, and the kinds of a function's fields.
WordsOf(k) ==
    CASE k = "UnaryOp" -> UnaryOperator
      [] k = "BinaryOp" -> BinaryOperator
      [] k \in {"InList", "InSubquery", "Between", "Like", "ILike", "Exists"} -> {"true", "false"}
      [] k = "Aggregate" -> AggregateFunction \cap AggregateFunctionPlan
      [] k = "Cmp" -> IndexOperator
      [] k = "DataType" -> DataType
      [] k = "DateTimeField" -> DateTimeField
      [] k = "TrimWhereField" -> TrimWhereField
FieldClass(f) ==
    CASE f = "data_type" -> One("DataType")
      [] f = "field" -> One("DateTimeField")
      [] f = "trim_where_field?" -> Opt1("TrimWhereField")
      [] f = "name" -> Name
      [] f = "exprs*" -> Many("Expr")
      [] f \in {"fill?", "chars?", "filter_chars?", "count?", "start?", "order?", "values?", "expr?"} ->
            Opt1("Expr")
      [] OTHER -> E

\* n is a tree of the kind c of the grammar g, functions having the fields of the table f.
RECURSIVE IsA(_, _, _, _)
ChildIs(g, f, m, n) ==
    CASE m[1] = "one" -> IsA(g, f, m[2], n)
      [] m[1] = "option" -> n = None \/ IsA(g, f, m[2], n)
      [] m[1] = "vec" -> n.k = "List" /\ \A i \in DOMAIN n.a : IsA(g, f, m[2], n.a[i])
ChildrenAre(g, f, q, n) == Len(q) = Len(n.a) /\ \A i \in DOMAIN q : ChildIs(g, f, q[i], n.a[i])
IsA(g, f, c, n) ==
    CASE c \in {"id", "str", "Flag", "Alias", "slot", "slots", "Asc", "Unique", "ReferentialAction"} ->
            n.k = c
      [] c = "AstExpr" -> IsA(Ast, Function, "Expr", n)
      [] c = "label" -> n.k \in {"id", "column", "rendered"}
      [] c = "KeyName" -> n.k \in {"id", "FK"}
      [] c \in {"DataType", "DateTimeField", "TrimWhereField"} -> n.k = c /\ n.s \in WordsOf(c)
      [] c = "CountArg" /\ n.k # "Wildcard" -> IsA(g, f, "Expr", n)
      [] c = "Columns" -> n = None \/ ChildIs(g, f, Many("ColumnDef"), n)
      [] c = "Row" -> ChildIs(g, f, Many("Expr"), n)
      [] c = "Expr" /\ n.k = "Literal" -> Len(n.a) = IF n.s = "quoted" THEN 1 ELSE 0
      [] c = "Expr" /\ n.k = "Function" ->
            n.s \in DOMAIN f /\ ChildrenAre(g, f, [i \in DOMAIN f[n.s] |-> FieldClass(f[n.s][i])], n)
      [] OTHER ->
            /\ n.k \in DOMAIN g[c]
            /\ n.k \in {"UnaryOp", "BinaryOp", "InList", "InSubquery", "Between", "Like", "ILike",
                         "Exists", "Aggregate", "Cmp"} => n.s \in WordsOf(n.k)
            /\ ChildrenAre(g, f, g[c][n.k], n)
IsAst(c, n) == IsA(Ast, Function, c, n)
IsPlan(c, n) == IsA(Plan, FunctionPlan, c, n)
=============================================================================
