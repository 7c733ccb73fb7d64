----------------------------- MODULE TableEdits -----------------------------
(***************************************************************************)
(* The one ALTER TABLE that a form of DB Admin or HeatWave management      *)
(* turns into (modules/mysql_pages.py, heatwave_pages.py): columns renamed,*)
(* the primary key dropped and added, columns marked NOT SECONDARY.  The   *)
(* form may be older than the table: what it says of the current key is    *)
(* not trusted, the handler reads the indexes again.                       *)
(***************************************************************************)
EXTENDS Naturals, Sequences, FiniteSets, SequencesExt

CONSTANTS
    Columns,      \* the columns of the table, in order
    ColumnNames,  \* names a form may give to columns, Unnamed among them
    Folded,       \* [ColumnNames -> ...]: the name in lower case, as MySQL compares
    Unnamed,      \* an empty field
    BadPosition   \* a position that is not a number

ASSUME ColumnAssumption ==
    /\ Columns \in Seq(ColumnNames \ {Unnamed}) /\ IsInjective(Columns)
    /\ BadPosition \notin Nat

VARIABLES
    edit,     \* the table's key and excluded columns, and the submitted form
    altered   \* what became of it

ColumnSet == ToSet(Columns)
Positions == 0 .. Len(Columns) \cup {BadPosition}

Edits == [key : UNION {{s \in [1 .. n -> ColumnSet] : IsInjective(s)} : n \in 0 .. Len(Columns)},
          excluded : SUBSET ColumnSet,
          rename : [ColumnSet -> ColumnNames], present : BOOLEAN,
          selected : SUBSET ColumnSet, position : [ColumnSet -> Positions],
          exclude : SUBSET ColumnSet]

IndexOf(c) == CHOOSE i \in DOMAIN Columns : Columns[i] = c

\* A position below 1 counts as 1, one that is no number as the column's own.
PositionOf(form, c) ==
    IF form.position[c] = BadPosition THEN IndexOf(c)
    ELSE IF form.position[c] = 0 THEN 1 ELSE form.position[c]

\* Two columns of the submitted key, in the order of their positions.
Precedes(form, c, d) ==
    \/ PositionOf(form, c) < PositionOf(form, d)
    \/ PositionOf(form, c) = PositionOf(form, d) /\ IndexOf(c) < IndexOf(d)

\* Mutant of SelectedKey: the order of the columns in the table.
SelectedKeyInOrder(form) == SetToSortSeq(form.selected, LAMBDA c, d : IndexOf(c) < IndexOf(d))

\* The submitted key: the selected columns, sorted.
SelectedKey(form) ==
    CHOOSE s \in [1 .. Cardinality(form.selected) -> form.selected] :
        \A i, j \in DOMAIN s : i < j => Precedes(form, s[i], s[j])

Renamed(form, s) == [i \in DOMAIN s |-> form.rename[s[i]]]

\* Mutant of NamesRefused: names are compared as they are written.
NamesRefusedExactly(form) ==
    \/ \E c \in ColumnSet : form.rename[c] = Unnamed
    \/ \E c, d \in ColumnSet : c # d /\ form.rename[c] = form.rename[d]

\* _build_db_admin_change_requests: names must be there and stay unique.
NamesRefused(form) ==
    \/ \E c \in ColumnSet : form.rename[c] = Unnamed
    \/ \E c, d \in ColumnSet : c # d /\ Folded[form.rename[c]] = Folded[form.rename[d]]

PositionsRefused(form) ==
    form.present /\ \E c, d \in form.selected :
                       c # d /\ PositionOf(form, c) = PositionOf(form, d)

ChangeClauses(form) == {c \in ColumnSet : form.rename[c] # c}

\* Mutant of KeyClauses: the desired key is named as before the rename.
KeyClausesOldNames(form) ==
    IF ~form.present \/ form.key = SelectedKey(form)
    THEN [drop |-> FALSE, add |-> <<>>]
    ELSE [drop |-> form.key # <<>>, add |-> SelectedKey(form)]

\* _build_db_admin_primary_key_clauses: the keys compared under the new names.
KeyClauses(form) ==
    LET desired == Renamed(form, SelectedKey(form))
    IN IF ~form.present \/ Renamed(form, form.key) = desired
       THEN [drop |-> FALSE, add |-> <<>>]
       ELSE [drop |-> form.key # <<>>, add |-> desired]

\* Mutant of ExclusionClauses: columns are marked and never unmarked.
ExclusionClausesOnlyAdd(form) == form.exclude \ form.excluded

\* _build_not_secondary_modify_clauses: the columns whose marking changes.
ExclusionClauses(form) ==
    {c \in ColumnSet : (c \in form.exclude) # (c \in form.excluded)}

\* The table after the statement; MySQL reads the new names in ADD PRIMARY KEY.
AfterAlter(form) ==
    LET clauses == KeyClauses(form)
    IN [names |-> [c \in ColumnSet |-> IF c \in ChangeClauses(form) THEN form.rename[c] ELSE c],
        key |-> IF clauses.add # <<>> THEN clauses.add
                ELSE IF clauses.drop THEN <<>> ELSE Renamed(form, form.key)]

AfterExclusion(form) ==
    (form.excluded \ ExclusionClauses(form)) \cup (form.exclude \cap ExclusionClauses(form))

Unanswered == [status |-> "none"]
Refused == [status |-> "refused"]

EditInit == edit \in Edits /\ altered = Unanswered

\* modify_table_columns of handle_db_admin_action.
ModifyColumns ==
    /\ altered = Unanswered
    /\ altered' = IF \/ NamesRefused(edit) \/ PositionsRefused(edit)
                     \/ ChangeClauses(edit) = {} /\ KeyClauses(edit) = [drop |-> FALSE, add |-> <<>>]
                  THEN Refused
                  ELSE [status |-> "altered", table |-> AfterAlter(edit)]
    /\ UNCHANGED edit

\* exclude_columns_update of handle_heatwave_management_action.
ExcludeColumns ==
    /\ altered = Unanswered
    /\ altered' = [status |-> "excluded", table |-> AfterExclusion(edit),
                   changed |-> Cardinality(ExclusionClauses(edit))]
    /\ UNCHANGED edit

EditNext == ModifyColumns \/ ExcludeColumns
EditSpec == EditInit /\ [][EditNext]_<<edit, altered>>

-----------------------------------------------------------------------------
\* An accepted form leaves the columns named as submitted, no two of them equal
\* to MySQL, and the primary key that of the form under the new names: renaming
\* a column of the key, or swapping two, does not lose or reorder it.
AlteredAsSubmitted ==
    altered.status = "altered" =>
        LET names == altered.table.names  key == altered.table.key
        IN /\ names = edit.rename
           /\ \A c, d \in ColumnSet : c # d => Folded[names[c]] # Folded[names[d]]
           /\ edit.present => /\ ToSet(key) = {names[c] : c \in edit.selected}
                              /\ \A i, j \in DOMAIN key, c, d \in edit.selected :
                                    /\ i < j /\ key[i] = names[c] /\ key[j] = names[d]
                                    => PositionOf(edit, c) < PositionOf(edit, d)
           /\ ~edit.present => key = [i \in DOMAIN edit.key |-> names[edit.key[i]]]

\* After an update of the exclusions exactly the chosen columns are excluded,
\* and the message counts the columns that changed.
ExcludedAsChosen ==
    altered.status = "excluded" =>
        /\ altered.table = edit.exclude
        /\ altered.changed = Cardinality(edit.exclude \ edit.excluded)
                             + Cardinality(edit.excluded \ edit.exclude)

\* The one ALTER that a form becomes does what the form says and nothing else,
\* for the form of the columns and for the one of the exclusions.
FormsTakeEffect == AlteredAsSubmitted /\ ExcludedAsChosen
=============================================================================
