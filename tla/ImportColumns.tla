--------------------------- MODULE ImportColumns ---------------------------
(***************************************************************************)
(* What an import makes of an uploaded file (modules/mysql_import.py):     *)
(* labels and rows, a name and a type for each column, the primary key of  *)
(* the form, and the values that go to MySQL.                              *)
(*                                                                         *)
(* Labels and names are sequences of letters, a cell is the kind of text   *)
(* or JSON value that the code tells apart.                                *)
(***************************************************************************)
EXTENDS Naturals, Sequences, FiniteSets, SequencesExt

CONSTANTS
    Uploads,     \* the files of this instance: [csv, header, labels, rows]
    LowerCase,   \* [letter -> letter]: lower() of a letter
    Plain,       \* [letter -> letter]: what sanitizing leaves of it, in lower case
    Numeral,     \* the letters 1, 2, 3, ... in order
    LetterOf,    \* [{"column", "my_row_id"} -> letter]: names the code uses itself
    MaxName,     \* letters in a MySQL name
    FormNames,   \* names that a user writes into the form, in lower case
    FormTypes,   \* types that a user writes into it, "other" for one not inferred
    KeyRoom,     \* VARCHAR(255) columns in a key of InnoDB: 3
    RowRoom      \* VARCHAR(255) columns in a row of MySQL: 64

\* Texts, as a CSV file has them, and values that only JSON has.
Texts == {"yes", "int", "big_int", "float", "date", "datetime", "zulu", "text",
          "long", "wide", "huge"}
Values == {"true", "number", "real", "document"}
Cells == {"empty"} \cup Texts \cup Values

Alphabet == DOMAIN Plain

\* There are as many numerals as columns.
ASSUME NameAssumption ==
    /\ MaxName \in Nat \ {0} /\ {KeyRoom, RowRoom} \subseteq Nat
    /\ Plain \in [Alphabet -> Alphabet] /\ LowerCase \in [Alphabet -> Alphabet]
    /\ Numeral \in Seq(Alphabet) /\ IsInjective(Numeral)
    /\ \A n \in DOMAIN Numeral : LowerCase[Numeral[n]] = Numeral[n]
    /\ LetterOf["column"] \in Alphabet

\* The keys of JSON objects are distinct as they are written and none is empty;
\* their rows have the same keys.
ASSUME UploadAssumption == \A file \in Uploads :
    /\ file.labels \in Seq(Seq(Alphabet)) /\ file.rows \in Seq(Seq(Cells))
    /\ \A r \in DOMAIN file.rows : Len(file.rows[r]) <= Len(Numeral)
    /\ Len(file.labels) <= Len(Numeral)
    /\ ~file.csv => /\ IsInjective(file.labels) /\ <<>> \notin ToSet(file.labels)
                    /\ \A r \in DOMAIN file.rows : Len(file.rows[r]) <= Len(file.labels)

VARIABLES sheet, grid, columns, stored
columnVars == <<sheet, grid, columns, stored>>

Nothing == [status |-> "none"]

-----------------------------------------------------------------------------
(* Labels and rows: parse_csv_upload, parse_json_upload.                   *)

Lower(label) == [i \in DOMAIN label |-> LowerCase[label[i]]]
Generated(i) == <<LetterOf["column"], Numeral[i]>>

Shortened(name, longest) == IF Len(name) <= longest THEN name ELSE SubSeq(name, 1, longest)
Candidate(base, n, longest) == Shortened(IF n = 1 THEN base ELSE Append(base, Numeral[n]), longest)

\* The first of base, base_2, base_3, ..., cut to the longest name, that is not taken.
FirstFree(base, taken, longest) ==
    LET free == {n \in DOMAIN Numeral : Lower(Candidate(base, n, longest)) \notin taken}
    IN IF free = {} THEN <<>>
       ELSE Candidate(base, CHOOSE n \in free : \A m \in free : n <= m, longest)

\* Names in turn: each is the first one free of its base.
InTurn(bases, longest) ==
    LET name[i \in DOMAIN bases] ==
            FirstFree(bases[i], {Lower(name[j]) : j \in 1 .. i - 1}, longest[i])
    IN name

\* Mutant of UniqueLabels: an empty label gets one, equal ones stay.
EqualLabels(labels) ==
    [i \in DOMAIN labels |-> IF labels[i] = <<>> THEN Generated(i) ELSE labels[i]]

\* _make_unique_labels.
UniqueLabels(labels) ==
    LET label == [i \in DOMAIN labels |-> IF labels[i] = <<>> THEN Generated(i) ELSE labels[i]]
    IN InTurn(label, [i \in DOMAIN labels |-> Len(label[i]) + 1])

\* Rows of a CSV file without a value are left out; a row longer than the labels
\* adds labels, which are not compared with the ones before.
Skipped(file, n) == file.csv /\ \A i \in DOMAIN file.rows[n] : file.rows[n][i] = "empty"
Filled(file) ==
    LET filled[n \in 0 .. Len(file.rows)] ==
            IF n = 0 THEN <<>>
            ELSE IF Skipped(file, n) THEN filled[n - 1]
            ELSE Append(filled[n - 1], file.rows[n])
    IN filled[Len(file.rows)]
Width(rows) == CHOOSE n \in {0} \cup {Len(rows[r]) : r \in DOMAIN rows} :
                   \A r \in DOMAIN rows : Len(rows[r]) <= n
Headers(file) ==
    LET first == IF ~file.csv THEN file.labels
                 ELSE IF file.header THEN UniqueLabels(file.labels)
                 ELSE [i \in DOMAIN file.labels |-> Generated(i)]
        width == Width(Filled(file))
    IN first \o [i \in 1 .. (IF width > Len(first) THEN width - Len(first) ELSE 0)
                     |-> Generated(Len(first) + i)]

\* A row is a dictionary over the labels there are when it is read: of equal ones
\* the last one's value stays.
Labelled(file, r) ==
    {i \in DOMAIN Headers(file) :
        i <= Len(file.labels) \/ \E q \in 1 .. r : i <= Len(Filled(file)[q])}
LastUnder(file, r, label) ==
    {i \in Labelled(file, r) : /\ Headers(file)[i] = label
                            /\ \A j \in Labelled(file, r) : j > i => Headers(file)[j] # label}
Line(file, r) ==
    [label \in ToSet(Headers(file)) |->
        IF \E i \in LastUnder(file, r, label) : i <= Len(Filled(file)[r])
        THEN Filled(file)[r][CHOOSE i \in LastUnder(file, r, label) : TRUE] ELSE "empty"]
Parsed(file) == [status |-> "parsed", headers |-> Headers(file),
                 rows |-> [r \in DOMAIN Filled(file) |-> Line(file, r)]]

Parse ==
    /\ grid = Nothing
    /\ grid' = Parsed(sheet)
    /\ UNCHANGED <<sheet, columns, stored>>

-----------------------------------------------------------------------------
(* Names and types: build_import_column_definitions.                       *)

Sanitized(label) ==
    Shortened([i \in DOMAIN label |-> Plain[label[i]]], MaxName)

\* A candidate is cut to the length of a name: from a name of full length the
\* suffix is cut off again, and the loop of the code finds no free name (<<>>).
ImportNames(labels) ==
    InTurn([i \in DOMAIN labels |-> Sanitized(labels[i])], [i \in DOMAIN labels |-> MaxName])

BoolLike == {"yes", "true"}
IntLike == {"int", "big_int", "number"}
FloatLike == IntLike \cup {"float", "real"}
DatetimeLike == {"datetime", "zulu"}

\* Mutant of InferredType: one number makes a column of numbers.
InferredTypeOfSome(values) ==
    LET of == values \ {"empty"}
    IN IF of = {} THEN "VARCHAR" ELSE IF of \subseteq {"document"} THEN "JSON"
       ELSE IF of \cap IntLike # {} THEN "BIGINT" ELSE IF of \cap FloatLike # {} THEN "DOUBLE"
       ELSE IF of \subseteq DatetimeLike THEN "DATETIME" ELSE "LONGTEXT"

\* infer_import_column_type; lengths are counted in characters.
InferredType(values) ==
    LET of == values \ {"empty"}
    IN IF of = {} THEN "VARCHAR"
       ELSE IF of \subseteq {"document"} THEN "JSON"
       ELSE IF of \subseteq BoolLike THEN "TINYINT"
       ELSE IF of \subseteq IntLike THEN "BIGINT"
       ELSE IF of \subseteq FloatLike THEN "DOUBLE"
       ELSE IF of \subseteq DatetimeLike THEN "DATETIME"
       ELSE IF of \subseteq {"date"} THEN "DATE"
       ELSE IF "huge" \in of THEN "LONGTEXT"
       ELSE IF of \cap {"long", "wide"} # {} THEN "TEXT" ELSE "VARCHAR"

Column(label) == {grid.rows[r][label] : r \in DOMAIN grid.rows}

Define ==
    /\ grid # Nothing /\ columns = Nothing
    /\ LET names == ImportNames(grid.headers)
       IN columns' = [status |-> "defined", names |-> names,
                      types |-> [i \in DOMAIN names |-> InferredType(Column(grid.headers[i]))],
                      nulls |-> [i \in DOMAIN names |->
                                   "empty" \in Column(grid.headers[i]) \/ grid.rows = <<>>],
                      keys |-> {}, mode |-> "none", edited |-> {}]
    /\ UNCHANGED <<sheet, grid, stored>>

-----------------------------------------------------------------------------
(* The form of the import: validate_mysql_import_request.                  *)

MyRowId == <<LetterOf["my_row_id"]>>
KeyType(type) == type \notin {"TEXT", "LONGTEXT", "JSON"}

\* quote_identifier takes letters, digits, "_" and "$", and any number of them.
Identifier(name) == name # <<>> /\ \A k \in DOMAIN name : Plain[name[k]] = name[k]

Refuses(c) ==
    \/ \E i \in DOMAIN c.names : ~Identifier(c.names[i])
    \/ Cardinality(ToSet(c.names)) < Len(c.names)
    \/ \E i \in c.keys : ~KeyType(c.types[i])
    \/ c.mode = "columns" /\ c.keys = {}
    \/ c.mode = "my_row_id" /\ MyRowId \in ToSet(c.names)

\* A column of the key is never NULL; keys count in the mode "columns" only.
SubmitForm(mode, names, types, nulls, chosen) ==
    /\ columns.status = "defined" /\ <<>> \notin ToSet(columns.names)
    /\ chosen # {} => mode = "columns"
    /\ LET form(status) ==
               [status |-> status, names |-> names, types |-> types,
                nulls |-> [i \in DOMAIN names |-> i \notin chosen /\ nulls[i]],
                keys |-> chosen, mode |-> mode,
                edited |-> {i \in DOMAIN names : types[i] # columns.types[i] \/ nulls[i] # columns.nulls[i]}]
       IN columns' = form(IF Refuses(form("valid")) THEN "refused" ELSE "valid")
    /\ UNCHANGED <<sheet, grid, stored>>

\* Why the server does not make the table of a form.  The bytes of other types than
\* VARCHAR(255) are left out; an "other" type may be one it does not know.
TableErrors == {"no_name", "long_name", "same_name", "bad_key", "long_key", "long_row", "unknown_type"}
NoTable(c, why) ==
    LET varchar == {i \in DOMAIN c.names : c.types[i] = "VARCHAR"}
    IN CASE why = "no_name" -> <<>> \in ToSet(c.names)
         [] why = "long_name" -> \E i \in DOMAIN c.names : Len(c.names[i]) > MaxName
         [] why = "same_name" ->
                ~IsInjective(c.names \o (IF c.mode = "my_row_id" THEN <<MyRowId>> ELSE <<>>))
         [] why = "bad_key" -> \E i \in c.keys : ~KeyType(c.types[i]) \/ c.nulls[i]
         [] why = "long_key" -> Cardinality(varchar \cap c.keys) > KeyRoom
         [] why = "long_row" -> Cardinality(varchar) > RowRoom
         [] why = "unknown_type" -> \E i \in DOMAIN c.names : c.types[i] = "other"

-----------------------------------------------------------------------------
(* The values: _coerce_import_cell_value and the server.                   *)

\* What a cell becomes: itself, NULL, or an exception of int() or float().
Coerced(cell, type) ==
    IF cell = "empty" THEN "null"
    ELSE IF \/ type = "TINYINT" /\ cell \notin BoolLike \cup IntLike \cup {"real"}
            \/ type = "BIGINT" /\ cell \notin IntLike \cup {"true", "real"}
            \/ type = "DOUBLE" /\ cell \notin FloatLike \cup {"true"}
    THEN "error" ELSE cell

\* What MySQL in strict mode does not take: numbers beyond 64 bits, the zone "Z",
\* more bytes than a TEXT has.
Taken(value, type) ==
    /\ value # "error"
    /\ type \in {"TINYINT", "BIGINT"} => value # "big_int"
    /\ type = "DATETIME" => value \in {"null", "date", "datetime"}
    /\ type = "DATE" => value \in {"null", "date", "datetime"}
    /\ type = "VARCHAR" => value \notin {"long", "wide", "huge"}
    /\ type = "TEXT" => value \notin {"wide", "huge"}
    /\ type = "JSON" => value \in Values \cup {"null", "int", "float"}

\* What a value of a column becomes whose type the user has changed, the code and the
\* server decide from more than its kind: it is refused, or "converted".
Retyped(i) == columns.types[i] # InferredType(Column(grid.headers[i]))
Value(r, i) ==
    LET cell == grid.rows[r][grid.headers[i]]
    IN IF cell # "empty" /\ Retyped(i) THEN "converted" ELSE Coerced(cell, columns.types[i])
Accepted(r, i) ==
    /\ Retyped(i) \/ Taken(Value(r, i), columns.types[i])
    /\ Value(r, i) = "null" => columns.nulls[i]
AllAccepted == \A r \in DOMAIN grid.rows, i \in DOMAIN grid.headers : Accepted(r, i)

\* Two rows may have the same values in the columns of the key: kinds do not tell.
KeyMayRepeat == columns.keys # {} /\ \E r, q \in DOMAIN grid.rows : r # q

\* The table and the rows of run_mysql_import: one that is refused rolls all back.
Store ==
    /\ columns.status = "valid" /\ stored = Nothing
    /\ \/ \E why \in TableErrors :
             NoTable(columns, why) /\ stored' = [status |-> "no_table", why |-> why]
       \/ /\ \A why \in TableErrors \ {"unknown_type"} : ~NoTable(columns, why)
          /\ \/ /\ AllAccepted
                /\ stored' = [status |-> "stored",
                              rows |-> [r \in DOMAIN grid.rows |->
                                           [i \in DOMAIN grid.headers |-> Value(r, i)]]]
             \/ /\ ~AllAccepted \/ KeyMayRepeat \/ \E i \in DOMAIN grid.headers : Retyped(i)
                /\ stored' = [status |-> "rolled_back"]
    /\ UNCHANGED <<sheet, grid, columns>>

ColumnInit == sheet \in Uploads /\ grid = Nothing /\ columns = Nothing /\ stored = Nothing
ColumnNext ==
    \/ Parse \/ Define \/ Store
    \/ /\ columns.status = "defined"
       /\ \E mode \in {"none", "columns", "my_row_id"}, chosen \in SUBSET DOMAIN columns.names,
             names \in [DOMAIN columns.names -> FormNames \cup ToSet(columns.names)],
             types \in [DOMAIN columns.names -> FormTypes \cup ToSet(columns.types)],
             nulls \in [DOMAIN columns.names -> BOOLEAN] : SubmitForm(mode, names, types, nulls, chosen)
ColumnSpec == ColumnInit /\ [][ColumnNext]_columnVars

-----------------------------------------------------------------------------
Grown == \E i, j \in DOMAIN grid.headers : i # j /\ grid.headers[i] = grid.headers[j]
Exact == {"big_int", "zulu", "wide"}

\* Every cell of the file reaches the table, in its row and column and, where the type
\* is the one inferred, as it is, unless a row longer than the labels has added a
\* label that was there already.
CellsKept ==
    (stored.status = "stored" /\ ~Grown) =>
        \E line \in [DOMAIN stored.rows -> DOMAIN sheet.rows] :
            /\ \A r, q \in DOMAIN stored.rows : r < q => line[r] < line[q]
            /\ \A l \in DOMAIN sheet.rows :
                  (\E r \in DOMAIN stored.rows : line[r] = l) <=> ~Skipped(sheet, l)
            /\ \A r \in DOMAIN stored.rows : \A i \in DOMAIN sheet.rows[line[r]] :
                  stored.rows[r][i] = LET cell == sheet.rows[line[r]][i]
                                      IN CASE cell = "empty" -> "null"
                                           [] cell # "empty" /\ Retyped(i) -> "converted"
                                           [] OTHER -> cell

\* The labels of a header are made distinct, so that only added ones can collide.
OnlyAddedLabelsCollide ==
    grid # Nothing =>
        \A i, j \in DOMAIN grid.headers :
            i < j /\ grid.headers[i] = grid.headers[j] => j > Len(sheet.labels)

\* Columns are offered distinct names of MySQL's length, however alike the labels
\* are; none is found only for a label that leaves no room for a suffix.
NamesDistinct ==
    columns.status = "defined" =>
        \A i, j \in DOMAIN columns.names :
            /\ Len(columns.names[i]) <= MaxName
            /\ i # j /\ columns.names[i] # <<>> => columns.names[i] # columns.names[j]
            /\ columns.names[i] = <<>> => Len(grid.headers[i]) >= MaxName

\* A file imported with the types and NULLs inferred from it goes in, whatever its
\* values, except for numbers, times and lengths that the inference does not look at,
\* a value missing in a column chosen for the key, and rows that repeat a key.
InferenceFits ==
    stored.status = "rolled_back" =>
        \/ KeyMayRepeat
        \/ \E i \in DOMAIN grid.headers :
              \/ i \in columns.edited
              \/ Column(grid.headers[i]) \cap Exact # {}
              \/ i \in columns.keys /\ "empty" \in Column(grid.headers[i])

\* An accepted form makes a table: names, the one of the added key included, and the
\* key never stop it, only sizes that the form does not look at and a type written
\* into it that is none.
FormMakesTable ==
    /\ columns.status = "valid" => (columns.mode = "columns" <=> columns.keys # {})
    /\ stored.status = "no_table" =>
          stored.why \in {"long_name", "long_key", "long_row", "unknown_type"}

\* From the labels to the stored rows no two columns of a file become one and no
\* cell moves to another column.
CellsInTheirColumns == CellsKept /\ OnlyAddedLabelsCollide /\ NamesDistinct

\* What the preview infers and the form accepts, the server accepts, but for the
\* reasons listed: neither looks at sizes, at repeated keys or at what a user changes.
FormFits == InferenceFits /\ FormMakesTable
=============================================================================
