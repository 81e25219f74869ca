------------------------------ MODULE CsvLite ------------------------------
(***************************************************************************)
(* csvlite, one of the programs the harness built (src/csvlite): it reads  *)
(* a CSV whose first row is the header, keeps the rows a --where predicate *)
(* accepts, and writes the chosen columns, as CSV or with --json as        *)
(* objects. A cell, a name or a selector is a member of Text, which lists  *)
(* the strings there are in their order as text; NumberOf gives the ones   *)
(* that float() parses, and Digits are the ones made of digits only.       *)
(***************************************************************************)
EXTENDS Integers, Sequences, LogOps

CONSTANTS
    Text,
    NumberOf,
    NaN,
    Digits,
    ColumnSpecs, \* the column argument: selectors, <<>> when there is none
    Wheres,      \* predicates: column, op and value; op "none" without the flag, "broken" without an operator
    CsvInputs    \* what stdin may hold: rows of cells, the header first

Comparisons == {"==", "!=", "<", "<=", ">", ">="}

TextCells == {Text[i] : i \in DOMAIN Text}

ASSUME CsvAssumption ==
    /\ Text \in Seq(TextCells) /\ "" \in TextCells
    /\ DOMAIN NumberOf \subseteq TextCells /\ Digits \subseteq DOMAIN NumberOf /\ "" \notin Digits
    /\ NaN \notin Int /\ \A n \in DOMAIN NumberOf : NumberOf[n] \in Int \cup {NaN}
    /\ \A d \in Digits : NumberOf[d] \in Nat
    /\ \A w \in Wheres : w.op \in Comparisons \cup {"none", "broken"} /\ w.value \in TextCells
    /\ \A s \in ColumnSpecs : s \in Seq(TextCells)
    /\ \A input \in CsvInputs : input \in Seq(Seq(TextCells))

VARIABLES
    command,   \* flag "known" or "unknown", spec, where, json
    csvStep,
    rows,      \* what was read
    indices,   \* the columns select_columns chose
    kept,      \* the data rows that passed
    printed,   \* what was written, the header first
    csvExit    \* the exit code

csvVars == <<command, csvStep, rows, indices, kept, printed, csvExit>>

CsvTypeOK ==
    /\ csvStep \in {"args", "read", "select", "filter", "write", "ended"}
    /\ rows \in CsvInputs \cup {<<>>}
    /\ \A k \in DOMAIN indices : indices[k] \in DOMAIN rows[1]
    /\ csvExit \in {0, 2, 4, 5}

-----------------------------------------------------------------------------
Place(cell) == CHOOSE i \in DOMAIN Text : Text[i] = cell

\* NaN is unequal to every number and before or after none
Ordered(a, op, b) ==
    IF a = NaN \/ b = NaN THEN op = "!="
    ELSE \/ op = "==" /\ a = b
         \/ op = "!=" /\ a # b
         \/ op = "<" /\ a < b
         \/ op = "<=" /\ a <= b
         \/ op = ">" /\ a > b
         \/ op = ">=" /\ a >= b

\* Fault: a cell that is a number is compared as one, whatever the value is
CompareByCell(cell, op, value) ==
    IF cell \in DOMAIN NumberOf
    THEN Ordered(NumberOf[cell], op, IF value \in DOMAIN NumberOf THEN NumberOf[value] ELSE NaN)
    ELSE Ordered(Place(cell), op, Place(value))

\* compare_cell: as numbers when both are, as text otherwise
Compare(cell, op, value) ==
    IF {cell, value} \subseteq DOMAIN NumberOf
    THEN Ordered(NumberOf[cell], op, NumberOf[value])
    ELSE Ordered(Place(cell), op, Place(value))

\* a short row is padded
Cell(row, i) == IF i \in DOMAIN row THEN row[i] ELSE ""

\* the first column of that name
Column(header, name) ==
    CHOOSE i \in DOMAIN header : header[i] = name /\ \A j \in 1 .. i - 1 : header[j] # name

Named(header, name) == \E i \in DOMAIN header : header[i] = name

\* select_columns: digits are a 1-based index, anything else is a name
Selectable(header, selector) ==
    IF selector \in Digits THEN NumberOf[selector] \in DOMAIN header ELSE Named(header, selector)

Position(header, selector) ==
    IF selector \in Digits THEN NumberOf[selector] ELSE Column(header, selector)

\* _project_row
Project(row) == [k \in DOMAIN indices |-> Cell(row, indices[k])]

\* dict(zip(...)): of two columns of one name the last stays
Record(row) ==
    LET name(k) == rows[1][indices[k]]
        last(n) == CHOOSE k \in DOMAIN indices : name(k) = n /\ \A j \in DOMAIN indices : name(j) = n => j <= k
    IN  [n \in {name(k) : k \in DOMAIN indices} |-> Cell(row, indices[last(n)])]

-----------------------------------------------------------------------------
Commands == [flag : {"known", "unknown"}, spec : ColumnSpecs, where : Wheres, json : BOOLEAN]

CsvStart(c) ==
    /\ command = c
    /\ csvStep = "args"
    /\ rows = <<>> /\ indices = <<>> /\ kept = <<>> /\ printed = <<>> /\ csvExit = 0

CsvInit == \E c \in Commands : CsvStart(c)

Goes(step) == csvStep' = step /\ UNCHANGED <<command, csvExit>>

CsvFails(code) ==
    /\ csvStep' = "ended" /\ csvExit' = code
    /\ UNCHANGED <<command, rows, indices, kept, printed>>

\* _parse_args: no column argument, or an empty selector in it, or a flag it
\* does not know
BadUsage ==
    \/ command.flag = "unknown"
    \/ command.spec = <<>>
    \/ \E k \in DOMAIN command.spec : command.spec[k] = ""

ParseArgs ==
    /\ csvStep = "args" /\ ~BadUsage
    /\ Goes("read") /\ UNCHANGED <<rows, indices, kept, printed>>

RefuseUsage == csvStep = "args" /\ BadUsage /\ CsvFails(2)

\* _read_rows
ReadRows ==
    /\ csvStep = "read"
    /\ rows' \in CsvInputs
    /\ Goes("select") /\ UNCHANGED <<indices, kept, printed>>

CannotRead == csvStep = "read" /\ CsvFails(4)

Header == IF rows = <<>> THEN <<>> ELSE rows[1]

Unknown == \E k \in DOMAIN command.spec : ~Selectable(Header, command.spec[k])

SelectColumns ==
    /\ csvStep = "select" /\ ~Unknown
    /\ indices' = [k \in DOMAIN command.spec |-> Position(Header, command.spec[k])]
    /\ Goes("filter") /\ UNCHANGED <<rows, kept, printed>>

RefuseColumns == csvStep = "select" /\ Unknown /\ CsvFails(5)

\* parse_predicate and _resolve_where_column
BadPredicate ==
    \/ command.where.op = "broken"
    \/ command.where.op # "none" /\ ~Named(Header, command.where.column)

Passes(row) ==
    \/ command.where.op = "none"
    \/ Compare(Cell(row, Column(Header, command.where.column)), command.where.op, command.where.value)

FilterRows ==
    /\ csvStep = "filter" /\ ~BadPredicate
    /\ kept' = Keep(Tail(rows), {row \in Held(Tail(rows)) : Passes(row)})
    /\ Goes("write") /\ UNCHANGED <<rows, indices, printed>>

RefusePredicate == csvStep = "filter" /\ BadPredicate /\ CsvFails(5)

\* main: the header and the rows, or the objects without it
WriteRows ==
    /\ csvStep = "write"
    /\ printed' = IF command.json THEN [k \in DOMAIN kept |-> Record(kept[k])]
                  ELSE <<Project(Header)>> \o [k \in DOMAIN kept |-> Project(kept[k])]
    /\ Goes("ended") /\ UNCHANGED <<rows, indices, kept>>

CsvNext ==
    \/ ParseArgs \/ RefuseUsage
    \/ ReadRows \/ CannotRead
    \/ SelectColumns \/ RefuseColumns
    \/ FilterRows \/ RefusePredicate
    \/ WriteRows

CsvSpec == CsvInit /\ [][CsvNext]_csvVars

-----------------------------------------------------------------------------
Opposite ==
    [op \in Comparisons |-> CASE op = "==" -> "!=" [] op = "!=" -> "==" [] op = "<" -> ">="
                            [] op = ">=" -> "<" [] op = ">" -> "<=" [] op = "<=" -> ">"]

\* a comparison that is neither true nor false: "<" and ">=" both drop the row
Undecided(cell, value) ==
    /\ {cell, value} \subseteq DOMAIN NumberOf
    /\ NaN \in {NumberOf[cell], NumberOf[value]}

(***************************************************************************)
(* A predicate and its opposite divide the rows: each row passes exactly   *)
(* one of them, whether its cell is compared as a number or as text, unless*)
(* the comparison is with NaN and not == or != (cli.py:252); and what is   *)
(* printed are the rows that pass, in the order of the input, one for one  *)
(* in both formats: an object holds under each name the cell the CSV has   *)
(* in the last of the columns of that name. A command that fails prints    *)
(* nothing, and blames the arguments before the input and the input before *)
(* the query.                                                              *)
(***************************************************************************)
SelectionMeans ==
    csvStep = "ended" =>
        /\ csvExit # 0 => printed = <<>>
        /\ csvExit = 2 <=> BadUsage
        /\ csvExit = 5 => Unknown \/ BadPredicate
        /\ csvExit = 0 /\ command.where.op # "none" =>
              LET op == command.where.op
                  cell(row) == Cell(row, Column(Header, command.where.column))
                  passes(row) == \E k \in DOMAIN kept : kept[k] = row
              IN  \A i \in 2 .. Len(rows) :
                     IF Undecided(cell(rows[i]), command.where.value)
                     THEN passes(rows[i]) <=> op = "!="
                     ELSE passes(rows[i]) # Compare(cell(rows[i]), Opposite[op], command.where.value)
        /\ csvExit = 0 => Len(printed) = Len(kept) + (IF command.json THEN 0 ELSE 1)
        /\ csvExit = 0 /\ command.json =>
              \A i \in DOMAIN kept, k \in DOMAIN indices :
                  (\A j \in DOMAIN indices : Header[indices[j]] = Header[indices[k]] => j <= k)
                      => printed[i][Header[indices[k]]] = Project(kept[i])[k]
=============================================================================
