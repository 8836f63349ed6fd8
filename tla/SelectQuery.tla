----------------------------- MODULE SelectQuery -----------------------------
(***************************************************************************)
(* sabi-sql: from the values of an INSERT to the bytes of a row, and from  *)
(* these to the answer of a SELECT (types.rs, planner/mod.rs,              *)
(* executor/mod.rs from 333).  One session, one table; transactions and    *)
(* the engine are the subject of QueryExecutor, here every stored row is   *)
(* visible.  CREATE TABLE and INSERT are actions.  A SELECT changes        *)
(* nothing: its plan and its execution are operators.                      *)
(*                                                                         *)
(* Abstractions.  An integer, and usize, has IntBits bits and takes two    *)
(* bytes in a row, a length takes one.  A text is its sequence of bytes;   *)
(* from_utf8 is left out, it can fail only for a row that is misread.      *)
(* Errors are not told apart.  Panics are: an `error' is returned, a       *)
(* `panic' ends the session.  Integer overflow panics in a debug build and *)
(* wraps in a release build (overflow_checks).  The parser builds no LIKE, *)
(* IN, CASE or function call that the evaluator knows, so these are left   *)
(* out; ORDER BY is parsed and ignored.                                    *)
(***************************************************************************)
EXTENDS Integers, Sequences, SequencesExt, FiniteSetsExt

CONSTANTS
    None,           \* Option::None
    IntBits,        \* width of i64 and usize, even
    Schemas,        \* the tables that may be created
    ColumnLists,    \* the column lists INSERT may give, None among them
    Batches,        \* the VALUES lists of INSERT: sequences of rows of expressions
    Queries,        \* the SELECT statements asked
    MaxRows         \* bound: rows stored

ASSUME SelectAssumption ==
    /\ IntBits \in {2, 4, 6, 8} /\ MaxRows \in Nat
    /\ None \in ColumnLists

VARIABLES
    overflow_checks,    \* how the program was compiled
    schema,             \* the table in the planner's catalog, or None
    stored,             \* the rows in the engine: key and value bytes
    inserted,           \* history: what the INSERTs said of each stored row
    outcome             \* how the last statement ended

vars == <<overflow_checks, schema, stored, inserted, outcome>>

------------------------------------------------------------------------------
(* types.rs: values and their bytes                                        *)

Null == [t |-> "null"]
Integer(n) == [t |-> "int", int |-> n]
Text(s) == [t |-> "text", text |-> s]
Boolean(b) == [t |-> "bool", bool |-> b]
Error == [t |-> "error"]
Panicked == [t |-> "panic"]

Failed(v) == v.t \in {"error", "panic"}

\* The first failure among the results of a loop that stops there, or `else'.
FirstFailure(results, else) ==
    LET bad == {i \in DOMAIN results : Failed(results[i])}
    IN  IF bad = {} THEN else ELSE results[Min(bad)]

Modulus == 2^IntBits
MinInt == -(2^(IntBits - 1))
MaxInt == 2^(IntBits - 1) - 1
MaxUsize == Modulus - 1
Wrap(n) == ((n - MinInt) % Modulus) + MinInt

Half == 2^(IntBits \div 2)
MaxByte == Max({7, Half - 1})

\* Mutation: the sign is kept apart from the digits.
Digits_Signed(n) == <<n % Half, n \div Half>>

\* i64::to_le_bytes and from_le_bytes.
Digits(n) == <<n % Half, (n % Modulus) \div Half>>
FromDigits(low, high) == Wrap(low + Half * high)

\* Value::to_bytes.
ToBytes(v) ==
    CASE v.t = "null" -> <<0>>
      [] v.t = "int"  -> <<1>> \o Digits(v.int)
      [] v.t = "text" -> <<2, Len(v.text)>> \o v.text
      [] v.t = "bool" -> <<3, IF v.bool THEN 1 ELSE 0>>

\* Value::from_bytes, the decoder of a lone value.
FromBytes(bytes) ==
    IF bytes = <<>> THEN Null
    ELSE CASE bytes[1] = 0 -> Null
           [] bytes[1] = 1 /\ Len(bytes) >= 3 -> Integer(FromDigits(bytes[2], bytes[3]))
           [] bytes[1] = 2 /\ Len(bytes) >= 2 /\ Len(bytes) >= 2 + bytes[2] ->
                  Text(SubSeq(bytes, 3, 2 + bytes[2]))
           [] bytes[1] = 3 /\ Len(bytes) >= 2 -> Boolean(bytes[2] # 0)
           [] OTHER -> Error

------------------------------------------------------------------------------
(* parser/mod.rs convert_expr: the expressions the parser can build        *)

Literal(v) == [node |-> "literal", value |-> v]
ColumnRef(name) == [node |-> "column", name |-> name]
BinaryExpr(left, op, right) ==
    [node |-> "binary", op |-> op, left |-> left, right |-> right]
UnaryExpr(op, e) == [node |-> "unary", op |-> op, arg |-> e]

\* [NOT] BETWEEN.
BetweenExpr(negated, e, low, high) ==
    LET between == [node |-> "between", arg |-> e, low |-> low, high |-> high]
    IN  IF negated THEN UnaryExpr("not", between) ELSE between

------------------------------------------------------------------------------
(* evaluate_expression                                                     *)

Truth(v) ==
    CASE v.t = "null" -> FALSE
      [] v.t = "bool" -> v.bool
      [] v.t = "int"  -> v.int # 0
      [] v.t = "text" -> v.text # <<>>

\* PartialOrd of two values of one type.
Less(l, r) ==
    CASE l.t = "int"  -> l.int < r.int
      [] l.t = "bool" -> ~l.bool /\ r.bool
      [] l.t = "text" ->
            \/ IsStrictPrefix(l.text, r.text)
            \/ \E i \in DOMAIN l.text \cap DOMAIN r.text :
                  /\ l.text[i] < r.text[i]
                  /\ \A j \in 1..(i - 1) : l.text[j] = r.text[j]

Compared(op, l, r) ==
    CASE op = "<"  -> Less(l, r)
      [] op = ">=" -> ~Less(l, r)
      [] op = ">"  -> Less(r, l)
      [] op = "<=" -> ~Less(r, l)

\* compare_values.
Compare(op, l, r) ==
    IF Null \in {l, r} THEN Null
    ELSE IF l.t # r.t THEN Error ELSE Boolean(Compared(op, l, r))

\* An i64 operation: what the build makes of a result out of range.
InRange(n) ==
    IF n \in MinInt..MaxInt THEN Integer(n)
    ELSE IF overflow_checks THEN Panicked ELSE Integer(Wrap(n))

\* Rust divides towards zero; it panics for zero, and for MIN / -1 in any build.
Divide(a, b) ==
    IF b = 0 \/ (a = MinInt /\ b = -1) THEN Panicked
    ELSE LET q == (IF a < 0 THEN -a ELSE a) \div (IF b < 0 THEN -b ELSE b)
         IN  Integer(IF (a < 0) # (b < 0) THEN -q ELSE q)

\* arithmetic_op.
Arithmetic(op, l, r) ==
    IF l.t # "int" \/ r.t # "int" THEN Error
    ELSE CASE op = "+" -> InRange(l.int + r.int)
           [] op = "-" -> InRange(l.int - r.int)
           [] op = "*" -> InRange(l.int * r.int)
           [] op = "/" -> Divide(l.int, r.int)

Comparisons == {"<", "<=", ">", ">="}
Operations == {"+", "-", "*", "/"}

Binary(op, l, r) ==
    CASE op = "="  -> Boolean(l = r)
      [] op = "<>" -> Boolean(l # r)
      [] op \in Comparisons -> Compare(op, l, r)
      [] op = "and" -> Boolean(Truth(l) /\ Truth(r))
      [] op = "or"  -> Boolean(Truth(l) \/ Truth(r))
      [] op \in Operations -> Arithmetic(op, l, r)

Unary(op, v) ==
    CASE op = "not" -> Boolean(~Truth(v))
      [] op = "neg" -> IF v.t = "int" THEN InRange(-v.int) ELSE Error
      [] op = "is null" -> Boolean(v = Null)
      [] op = "is not null" -> Boolean(v # Null)

Between(v, low, high) ==
    LET ge == Compare(">=", v, low)
        le == Compare("<=", v, high)
    IN  FirstFailure(<<ge, le>>, Boolean(Truth(ge) /\ Truth(le)))

\* Both operands of AND and OR are evaluated, left to right.
RECURSIVE Eval(_, _)
Eval(e, context) ==
    CASE e.node = "literal" -> e.value
      [] e.node = "column" ->
            IF e.name \in DOMAIN context THEN context[e.name] ELSE Error
      [] e.node = "binary" ->
            LET l == Eval(e.left, context)
                r == Eval(e.right, context)
            IN  FirstFailure(<<l, r>>, Binary(e.op, l, r))
      [] e.node = "unary" ->
            LET v == Eval(e.arg, context)
            IN  IF Failed(v) THEN v ELSE Unary(e.op, v)
      [] e.node = "between" ->
            LET v == Eval(e.arg, context)
                low == Eval(e.low, context)
                high == Eval(e.high, context)
            IN  FirstFailure(<<v, low, high>>, Between(v, low, high))

\* The values of an INSERT are evaluated in an empty context.
Constant(e) == Eval(e, <<>>)

------------------------------------------------------------------------------
(* INSERT                                                                  *)

Names(sch) == [i \in DOMAIN sch.columns |-> sch.columns[i].name]

\* Iterator::position, from 1; 0 for None.
Position(names, name) ==
    LET at == {i \in DOMAIN names : names[i] = name}
    IN  IF at = {} THEN 0 ELSE Min(at)

\* The names that the values of a row are for.
Targets(cols) == IF cols = None THEN Names(schema) ELSE cols

\* plan_insert: the values are counted in the first row only.
PlanInsert(cols, rows) ==
    /\ Len(Targets(cols)) = Len(rows[1])
    /\ ToSet(Targets(cols)) \subseteq ToSet(Names(schema))

\* Mutation: key columns are looked up where the schema has them.
BuildRowKey_SchemaOrder(cols, row) ==
    [i \in DOMAIN schema.key |->
        LET at == Position(Names(schema), schema.key[i])
        IN  IF at = 0 \/ at > Len(row) THEN Error ELSE Constant(row[at])]

\* The key columns of the row, or the failure in place of one.
BuildRowKey(cols, row) ==
    [i \in DOMAIN schema.key |->
        LET at == Position(Targets(cols), schema.key[i])
        IN  IF at = 0 \/ at > Len(row) THEN Error ELSE Constant(row[at])]

\* serialize_row before it concatenates: `values[i]' panics behind the end.
SerializeRow(cols, row) ==
    [i \in DOMAIN Targets(cols) |->
        LET column == schema.columns[Position(Names(schema), Targets(cols)[i])]
            v == IF i > Len(row) THEN Panicked ELSE Constant(row[i])
        IN  IF Failed(v) \/ v.t \in {"null", column.type} THEN v ELSE Error]

\* Each part of a key behind its length; the values of a row one after the other.
KeyBytes(values) ==
    FlattenSeq([i \in DOMAIN values |-> <<Len(ToBytes(values[i]))>> \o ToBytes(values[i])])
RowBytes(values) == FlattenSeq([i \in DOMAIN values |-> ToBytes(values[i])])

\* One turn of the loop of execute_insert: the row for the engine, or a failure.
Encode(cols, row) ==
    LET key == BuildRowKey(cols, row)
        values == SerializeRow(cols, row)
        failure == FirstFailure(key \o values, Null)
    IN  IF Failed(failure) THEN failure
        ELSE [t |-> "row", key |-> KeyBytes(key), bytes |-> RowBytes(values)]

\* What the statement says of the row, by column.
Meant(cols, row) ==
    [at \in {i \in DOMAIN row : i =< Len(Targets(cols))} |->
        [name |-> Targets(cols)[at], value |-> Constant(row[at])]]

CreateTable(sch) ==
    /\ schema = None
    /\ schema' = sch
    /\ outcome' = "ok"
    /\ UNCHANGED <<overflow_checks, stored, inserted>>

\* execute_insert: rows are stored up to the first failure.
Insert(cols, rows) ==
    /\ schema # None /\ outcome # "panic"
    /\ Len(stored) + Len(rows) =< MaxRows
    /\ LET encoded == [i \in DOMAIN rows |-> Encode(cols, rows[i])]
           n == Max({k \in 0..Len(rows) : \A i \in 1..k : ~Failed(encoded[i])})
       IN  IF ~PlanInsert(cols, rows)
           THEN outcome' = "error" /\ UNCHANGED <<stored, inserted>>
           ELSE /\ stored' = stored \o SubSeq(encoded, 1, n)
                /\ inserted' = inserted \o [i \in 1..n |-> Meant(cols, rows[i])]
                /\ outcome' = IF n = Len(rows) THEN "ok" ELSE encoded[n + 1].t
    /\ UNCHANGED <<overflow_checks, schema>>

Init ==
    /\ overflow_checks \in BOOLEAN
    /\ schema = None /\ stored = <<>> /\ inserted = <<>>
    /\ outcome = "ok"

Next ==
    \/ \E sch \in Schemas : CreateTable(sch)
    \/ \E cols \in ColumnLists, rows \in Batches : Insert(cols, rows)

Spec == Init /\ [][Next]_vars

------------------------------------------------------------------------------
(* SELECT                                                                  *)

\* Mutation: the cursor does not step over the text either.
TextEnd_Stays(c, length) == c + 2

\* Where the cursor is behind a text whose tag is behind c bytes.
TextEnd(c, length) == c + 2 + length

\* One turn of the loop of deserialize_row: the value whose tag is behind the
\* first c bytes, and how many bytes are consumed then.  The Boolean case does
\* not step over the byte it reads.
DecodeAt(bytes, c) ==
    LET tag == bytes[c + 1]
        rest == Len(bytes) - (c + 1)
        length == bytes[c + 2]
    IN  CASE tag = 0 -> [value |-> Null, next |-> c + 1]
          [] tag = 1 /\ rest >= 2 ->
                [value |-> Integer(FromDigits(bytes[c + 2], bytes[c + 3])), next |-> c + 3]
          [] tag = 2 /\ rest >= 1 /\ rest >= 1 + length ->
                [value |-> Text(SubSeq(bytes, c + 3, c + 2 + length)),
                 next |-> TextEnd(c, length)]
          [] tag = 3 /\ rest >= 1 -> [value |-> Boolean(bytes[c + 2] # 0), next |-> c + 1]
          [] OTHER -> [value |-> Error, next |-> c]

\* At most `columns' values; fewer if the bytes end; an Error ends the row.
RECURSIVE DecodeFrom(_, _, _)
DecodeFrom(bytes, c, columns) ==
    IF columns = 0 \/ c >= Len(bytes) THEN <<>>
    ELSE LET d == DecodeAt(bytes, c)
         IN  <<d.value>> \o IF Failed(d.value) THEN <<>>
                            ELSE DecodeFrom(bytes, d.next, columns - 1)

DeserializeRow(bytes) == DecodeFrom(bytes, 0, Len(schema.columns))

\* resolve_select_items: an alias takes the place of the name.
ItemColumns(item) ==
    CASE item.name = "*" -> Names(schema)
      [] item.name # "*" -> <<IF item.alias = None THEN item.name ELSE item.alias>>

ItemKnown(item) == item.name \in ToSet(Names(schema)) \cup {"*"}

ResolveSelectItems(items) ==
    FlattenSeq([i \in DOMAIN items |-> ItemColumns(items[i])])

\* Mutation: the values are taken as they come.
Project_InOrder(row, columns) ==
    [i \in DOMAIN SelectSeq(columns, LAMBDA c : c \in ToSet(Names(schema))) |->
        IF i > Len(row) THEN Panicked ELSE row[i]]

\* The selected values of a row: names that are not in the schema are dropped,
\* `row[idx]' panics where the row is too short.
Project(row, columns) ==
    LET known == SelectSeq(columns, LAMBDA c : c \in ToSet(Names(schema)))
    IN  [i \in DOMAIN known |->
            LET at == Position(Names(schema), known[i])
            IN  IF at > Len(row) THEN Panicked ELSE row[at]]

\* evaluate_filter: columns and values are paired by position; of two equal
\* names the later one counts.
Context(row, columns) ==
    LET paired == {i \in DOMAIN columns : i =< Len(row)}
    IN  [c \in {columns[i] : i \in paired} |->
            row[Max({i \in paired : columns[i] = c})]]

Accepts(where, row, columns) ==
    IF where = None THEN Boolean(TRUE)
    ELSE LET v == Eval(where, Context(row, columns))
         IN  IF Failed(v) THEN v ELSE Boolean(Truth(v))

\* One turn of the loop of execute_scan.
ScanRow(bytes, columns, where) ==
    LET row == DeserializeRow(bytes)
        selected == Project(row, columns)
        accepted == Accepts(where, selected, columns)
    IN  FirstFailure(row \o selected \o <<accepted>>,
                     [t |-> "row", values |-> selected, keep |-> accepted.bool])

\* range_scan with two empty bounds finds the rows with an empty key only.
ExecuteScan(columns, where) ==
    LET found == SelectSeq(stored, LAMBDA r : r.key = <<>>)
        scanned == [i \in DOMAIN found |-> ScanRow(found[i].bytes, columns, where)]
        kept == SelectSeq(scanned, LAMBDA r : r.keep)
    IN  FirstFailure(scanned, [t |-> "rows", rows |-> [i \in DOMAIN kept |-> kept[i].values]])

\* The Filter node asks the same question again, and takes an error for no.
ExecuteFilter(result, columns, where) ==
    IF Failed(result) \/ where = None THEN result
    ELSE [result EXCEPT !.rows = SelectSeq(@,
             LAMBDA row : LET v == Accepts(where, row, columns)
                          IN  ~Failed(v) /\ v.bool)]

\* `i as usize' for an integer literal, the default for anything else.
AsUsize(e, default) ==
    IF e = None \/ e.node # "literal" \/ e.value.t # "int" THEN default
    ELSE e.value.int % Modulus

\* Mutation: the offset is not compared with the number of rows.
Slice_Unguarded(rows, limit, offset) ==
    LET sum == offset + limit
        end == Min({sum % Modulus, Len(rows)})
    IN  IF (sum > MaxUsize /\ overflow_checks) \/ offset > end THEN Panicked
        ELSE [t |-> "rows", rows |-> SubSeq(rows, offset + 1, end)]

\* Offset and limit: the sum may overflow, and a slice that ends before it
\* begins is a panic in any build.
Slice(rows, limit, offset) ==
    LET sum == offset + limit
        end == Min({sum % Modulus, Len(rows)})
    IN  IF offset >= Len(rows) THEN [t |-> "rows", rows |-> <<>>]
        ELSE IF (sum > MaxUsize /\ overflow_checks) \/ offset > end THEN Panicked
        ELSE [t |-> "rows", rows |-> SubSeq(rows, offset + 1, end)]

ExecuteLimit(result, limit, offset) ==
    IF Failed(result) \/ (limit = None /\ offset = None) THEN result
    ELSE Slice(result.rows, AsUsize(limit, MaxUsize), AsUsize(offset, 0))

\* plan_select and the execution of its plan.
Answer(q) ==
    LET columns == ResolveSelectItems(q.items)
        filtered == ExecuteFilter(ExecuteScan(columns, q.where), columns, q.where)
    IN  IF \E i \in DOMAIN q.items : ~ItemKnown(q.items[i]) THEN Error
        ELSE ExecuteLimit(filtered, q.limit, q.offset)

------------------------------------------------------------------------------
(* What SQL asks for: a reference for SELECT                               *)

\* Kleene's three truth values.
Rank(v) == IF v = Null THEN 1 ELSE IF Truth(v) THEN 2 ELSE 0
OfRank(n) == IF n = 1 THEN Null ELSE Boolean(n = 2)

Exact(n) == IF n \in MinInt..MaxInt THEN Integer(n) ELSE Panicked

RefBinary(op, l, r) ==
    CASE op = "and" -> OfRank(Min({Rank(l), Rank(r)}))
      [] op = "or"  -> OfRank(Max({Rank(l), Rank(r)}))
      [] op \notin {"and", "or"} ->
            IF Null \in {l, r} THEN Null
            ELSE CASE op = "="  -> Boolean(l = r)
                   [] op = "<>" -> Boolean(l # r)
                   [] op \in Comparisons ->
                         IF l.t = r.t THEN Boolean(Compared(op, l, r)) ELSE Error
                   [] op \in Operations ->
                         IF l.t # "int" \/ r.t # "int" THEN Error
                         ELSE CASE op = "+" -> Exact(l.int + r.int)
                                [] op = "-" -> Exact(l.int - r.int)
                                [] op = "*" -> Exact(l.int * r.int)
                                [] op = "/" -> Divide(l.int, r.int)

RefUnary(op, v) ==
    CASE op = "is null" -> Boolean(v = Null)
      [] op = "is not null" -> Boolean(v # Null)
      [] op = "not" -> OfRank(2 - Rank(v))
      [] op = "neg" -> IF v = Null THEN Null
                       ELSE IF v.t = "int" THEN Exact(-v.int) ELSE Error

RECURSIVE RefEval(_, _)
RefEval(e, row) ==
    CASE e.node = "literal" -> e.value
      [] e.node = "column" -> IF e.name \in DOMAIN row THEN row[e.name] ELSE Error
      [] e.node = "binary" ->
            LET l == RefEval(e.left, row)
                r == RefEval(e.right, row)
            IN  FirstFailure(<<l, r>>, RefBinary(e.op, l, r))
      [] e.node = "unary" ->
            LET v == RefEval(e.arg, row)
            IN  IF Failed(v) THEN v ELSE RefUnary(e.op, v)
      [] e.node = "between" ->
            RefEval(BinaryExpr(BinaryExpr(e.low, "<=", e.arg), "and",
                               BinaryExpr(e.arg, "<=", e.high)), row)

\* The row an INSERT meant, by column name.
MeantRow(i) ==
    [c \in {inserted[i][j].name : j \in DOMAIN inserted[i]} |->
        inserted[i][Position([j \in DOMAIN inserted[i] |-> inserted[i][j].name], c)].value]

RefTruth(q, i) == IF q.where = None THEN Boolean(TRUE) ELSE RefEval(q.where, MeantRow(i))

RefAnswer(q) ==
    LET truth == [i \in DOMAIN inserted |-> RefTruth(q, i)]
        hits == SelectSeq([i \in DOMAIN inserted |-> i],
                          LAMBDA i : truth[i] # Null /\ Truth(truth[i]))
        columns == ResolveSelectItems(q.items)
        rows == [k \in DOMAIN hits |-> [c \in DOMAIN columns |-> MeantRow(hits[k])[columns[c]]]]
        offset == AsUsize(q.offset, 0)
        end == IF q.limit = None THEN Len(rows)
               ELSE Min({Len(rows), offset + AsUsize(q.limit, Len(rows))})
    IN  FirstFailure(truth, [t |-> "rows", rows |-> SubSeq(rows, offset + 1, end)])

RECURSIVE Parts(_)
Parts(e) ==
    {e} \cup CASE e.node = "binary" -> Parts(e.left) \cup Parts(e.right)
               [] e.node = "unary" -> Parts(e.arg)
               [] e.node = "between" -> Parts(e.arg) \cup Parts(e.low) \cup Parts(e.high)
               [] e.node \in {"literal", "column"} -> {}

WhereParts(q) == IF q.where = None THEN {} ELSE Parts(q.where)
Atom(e) == e.node \in {"literal", "column"}

\* Only here does NULL count as in SQL: no =, <>, NOT or arithmetic.
NullSafe(q) ==
    \A e \in WhereParts(q) :
        \/ Atom(e)
        \/ e.node = "binary" /\ e.op \in {"and", "or"}
        \/ e.node = "binary" /\ e.op \in Comparisons /\ Atom(e.left) /\ Atom(e.right)
        \/ e.node = "unary" /\ e.op \in {"is null", "is not null"} /\ Atom(e.arg)
        \/ e.node = "between" /\ Atom(e.arg) /\ Atom(e.low) /\ Atom(e.high)

NoNulls(q) ==
    /\ \A i \in DOMAIN inserted : \A j \in DOMAIN inserted[i] : inserted[i][j].value # Null
    /\ Literal(Null) \notin WhereParts(q)

\* The columns behind a Boolean are misread.
BooleanLast == \A i \in 1..(Len(schema.columns) - 1) : schema.columns[i].type # "bool"

InSchemaOrder(i) == [j \in DOMAIN inserted[i] |-> inserted[i][j].name] = Names(schema)

\* offset + limit is more than a usize holds.
LimitOverflows(q) ==
    /\ q.limit # None \/ q.offset # None
    /\ AsUsize(q.offset, 0) + AsUsize(q.limit, MaxUsize) > MaxUsize

Supported(q) ==
    /\ schema.key = <<>> /\ BooleanLast
    /\ \A i \in DOMAIN inserted : InSchemaOrder(i)
    /\ \A i \in DOMAIN q.items : ItemKnown(q.items[i]) /\ q.items[i].alias = None
    /\ \A e \in WhereParts(q) :
          e.node = "column" => e.name \in ToSet(ResolveSelectItems(q.items))
    /\ NullSafe(q) \/ NoNulls(q)
    /\ \A i \in DOMAIN inserted : RefTruth(q, i) # Panicked
    /\ ~LimitOverflows(q)

------------------------------------------------------------------------------
(* Properties                                                              *)

Bytes == 0..MaxByte

\* Type invariant; the engine is given bytes, and as many rows as were accepted.
TypeOK ==
    /\ overflow_checks \in BOOLEAN
    /\ schema \in Schemas \cup {None}
    /\ outcome \in {"ok", "error", "panic"}
    /\ Len(stored) = Len(inserted) /\ Len(stored) =< MaxRows
    /\ \A i \in DOMAIN stored :
          stored[i].key \in Seq(Bytes) /\ stored[i].bytes \in Seq(Bytes)

\* In a table with key columns two rows have the same key exactly if the INSERTs
\* gave them the same values in these columns, whatever the column lists were;
\* and no key is empty (build_row_key).
KeyIdentifiesRow ==
    schema # None /\ schema.key # <<>> =>
        \A i, k \in DOMAIN stored :
            /\ stored[i].key # <<>>
            /\ stored[i].key = stored[k].key <=>
                  \A c \in ToSet(schema.key) : MeantRow(i)[c] = MeantRow(k)[c]

\* deserialize_row gives back what serialize_row was given, value by value, up to
\* and with the first Boolean, and integers keep their sign; Value::from_bytes, the
\* other decoder, reads the first column of a row, and any single value, alike.
DecodesToBoolean ==
    \A i \in DOMAIN stored :
        LET row == DeserializeRow(stored[i].bytes)
        IN  /\ FromBytes(stored[i].bytes) = Head(row)
            /\ \A j \in DOMAIN inserted[i] :
                  /\ FromBytes(ToBytes(inserted[i][j].value)) = inserted[i][j].value
                  /\ (\A k \in 1..(j - 1) : inserted[i][k].value.t # "bool") =>
                        j =< Len(row) /\ row[j] = inserted[i][j].value

\* A SELECT panics only over a row that lacks a column or has one behind a
\* Boolean, over arithmetic, or when offset and limit overflow together.
PanicsExplained ==
    schema # None =>
        \A q \in Queries : Answer(q) = Panicked =>
            \/ \E i \in DOMAIN inserted : Len(inserted[i]) < Len(schema.columns)
            \/ ~BooleanLast
            \/ \E e \in WhereParts(q) :
                  e.node \in {"binary", "unary"} /\ e.op \in Operations \cup {"neg"}
            \/ LimitOverflows(q)

\* Where the query and the table stay inside what the executor supports, a SELECT
\* answers as SQL with three-valued logic does: codec, projection by name, WHERE
\* evaluated twice, OFFSET and LIMIT together.
SelectCorrect ==
    schema # None => \A q \in Queries : Supported(q) => Answer(q) = RefAnswer(q)

==============================================================================
