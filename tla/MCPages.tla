------------------------------ MODULE MCPages ------------------------------
(* What a user sends from a page, in one run of TLC: operations of MySQL   *)
(* Shell (Submission) and their option forms (OptionForm), scripts of the  *)
(* SQL workspace (SqlWorkspace), logins (LoginLimiter), files to import    *)
(* (ImportColumns) and the one ALTER of a form (TableEdits).  The modules  *)
(* share no variable and no property speaks of two of them, so part picks  *)
(* the one that moves while the others keep an initial state: all          *)
(* behaviours of each are there, without the product of their states.      *)
EXTENDS MCSubmission, OptionForm, SqlWorkspace, LoginLimiter, ImportColumns, TableEdits

CONSTANTS ca, cb, cB, n0

VARIABLE part

\* Two tabs with the simplest scripts, or one with any and with Explain.
OneStatementEach == \A t \in WorkTabs :
    work[t].pc = "running" =>
        work[t].action = "Execute" /\ work[t].script = <<"sql">> /\ ~work[t].checkbox
OneTab == Len(entries) < 2 /\ Cardinality({t \in WorkTabs : work[t] # Idle}) < 2

\* Column labels are words over these letters; "!" is one that sanitizing replaces.
Letters == {"a", "A", "b", "!", "column", "my_row_id", "1", "2", "3", "4"}
LowerLetter == [l \in Letters |-> IF l = "A" THEN "a" ELSE l]
PlainLetter == [l \in Letters |-> IF l \in {"A", "!"} THEN "a" ELSE l]
Numerals == <<"1", "2", "3", "4">>
OwnLetter == [x \in {"column", "my_row_id"} |-> x]

Labels == {<<>>, <<"a">>, <<"A">>, <<"!">>, <<"a", "2">>, <<"!", "2">>, <<"column", "3">>,
           <<"my_row_id">>}
SomeRows == {<<<<"int", "text", "date">>>>,
             <<<<"int", "text">>, <<"empty", "yes">>>>,
             <<<<"int", "text">>, <<"int", "text", "date">>>>,
             <<<<"empty", "empty">>, <<"int">>>>}
File(csv, header, labels, lines) ==
    [csv |-> csv, header |-> header, labels |-> labels, rows |-> lines]

\* Labels that collide, rows that are longer or shorter than the header, and every
\* column of three cells.
MCUploads ==
    {File(TRUE, TRUE, <<l, m>>, lines) : l \in Labels, m \in Labels, lines \in SomeRows \cup {<<>>}}
    \cup {File(TRUE, FALSE, <<<<"a">>, <<"a">>>>, lines) : lines \in SomeRows}
    \cup {File(FALSE, TRUE, <<l, m>>, <<<<"empty", "empty">>, <<"int", "text">>>>) :
              l \in Labels \ {<<>>}, m \in Labels \ {<<>>}}
    \cup {File(FALSE, TRUE, <<<<"a">>>>, <<<<x>>, <<y>>, <<z>>>>) :
              x \in Cells, y \in Cells, z \in Cells}

\* The keys of a JSON object are distinct.
DistinctKeys(file) == file.csv \/ \A i, j \in DOMAIN file.labels :
                                     file.labels[i] = file.labels[j] => i = j
Files == {file \in MCUploads : DistinctKeys(file)}
AnyFile == File(TRUE, TRUE, <<<<"a">>, <<"b">>>>, <<>>)

\* Forms that change types, one name and one NULL of three files.
EditedFiles == {File(TRUE, TRUE, <<<<"a">>, <<"b">>>>, lines) :
                    lines \in {<<<<"int", "text">>>>, <<<<"text", "text">>, <<"int", "empty">>>>}}
               \cup {File(TRUE, TRUE, <<<<"a">>, <<"b">>, <<"1">>>>, <<<<"int", "text", "date">>>>)}
WrittenNames == {<<>>, <<"a">>, <<"!">>, <<"my_row_id">>, <<"a", "2", "2">>}
OneOf(f, g) == \A i, j \in DOMAIN f : f[i] # g[i] /\ f[j] # g[j] => i = j

TwoColumns == <<ca, cb>>
LowerCaseName == [n \in ColumnNames |-> IF n = cB THEN cb ELSE n]

\* What neither of the two forms reads is left out of the other one's inputs.
ModifyForms == {form \in Edits : form.excluded = {} /\ form.exclude = {}}
ExcludeForms == {form \in Edits : /\ ~form.present /\ form.selected = {} /\ form.key = <<>>
                                  /\ form.rename = [c \in ColumnSet |-> c]
                                  /\ form.position = [c \in ColumnSet |-> 1]}
AnyForm == CHOOSE form \in ExcludeForms : TRUE

tableVars == <<edit, altered>>

PagesInit ==
    /\ part \in {"submission", "registry", "form", "tabs", "script", "logins", "sheet", "sheet_form", "table"}
    /\ Init /\ WorkspaceInit /\ LimiterInit
    /\ OptionInit /\ (part # "form" => profile = NoOptions)
    /\ sheet \in (CASE part = "sheet" -> Files [] part = "sheet_form" -> EditedFiles [] OTHER -> {AnyFile})
    /\ grid = Nothing /\ columns = Nothing /\ stored = Nothing
    /\ edit \in (IF part = "table" THEN ModifyForms \cup ExcludeForms ELSE {AnyForm})
    /\ altered = Unanswered

\* Previews and submissions, with files that can be read and written; of the two PARs
\* only the one that the form names expires.
SubmissionMoves ==
    /\ part = "submission"
    /\ Environment \/ \E t \in Threads : ThreadStep(t)
    /\ par'[e2] = "expired" => par[e2] = "expired"
    /\ UNCHANGED <<optionVars, workspaceVars, limiterVars, columnVars, tableVars, part>>

\* The registry of PARs with every fault; the Dump/Load page only lists them.
RegistryMoves ==
    /\ part = "registry" /\ Next
    /\ profiles' \in {profiles, [n \in Names |-> c1]}
    /\ \A t \in Threads : pc'[t] # "plan" /\ kind'[t] # "submit"
    /\ UNCHANGED <<optionVars, workspaceVars, limiterVars, columnVars, tableVars, part>>

Form(A) ==
    /\ part = "form" /\ A
    /\ UNCHANGED <<vars, workspaceVars, limiterVars, columnVars, tableVars, part>>
FormMoves == Form(SaveProfile) \/ Form(DeleteProfile) \/ Form(Dump)

Workspace(A) ==
    /\ part \in {"tabs", "script"} /\ A
    /\ IF part = "tabs" THEN OneStatementEach' ELSE OneTab'
    /\ UNCHANGED <<vars, optionVars, limiterVars, columnVars, tableVars, part>>
WorkspaceMoves == \E t \in WorkTabs :
    \/ Workspace(SubmitText(t)) \/ Workspace(ExplainRefused(t)) \/ Workspace(Execute(t))
    \/ Workspace(StatementFails(t)) \/ Workspace(ExecuteGenerated(t)) \/ Workspace(Explain(t))
    \/ Workspace(FinishRequest(t)) \/ Workspace(ClearHistory(t)) \/ Workspace(Arrive(t))

Logins(A) ==
    /\ part = "logins" /\ A
    /\ UNCHANGED <<vars, optionVars, workspaceVars, columnVars, tableVars, part>>
LoginMoves ==
    \/ \E a \in Attempts :
          \/ \E k \in Identities : Logins(TryLogin(a, k))
          \/ Logins(RefuseForm(a)) \/ Logins(LoginFails(a)) \/ Logins(LoginConnects(a))
          \/ Logins(LoginDone(a))
    \/ Logins(TimePasses)

Sheet(A) ==
    /\ part \in {"sheet", "sheet_form"} /\ A
    /\ UNCHANGED <<vars, optionVars, workspaceVars, limiterVars, tableVars, part>>
SheetMoves ==
    \/ Sheet(Parse) \/ Sheet(Define) \/ Sheet(Store)
    \/ /\ columns.status = "defined"
       /\ \E mode \in {"none", "columns", "my_row_id"}, chosen \in SUBSET DOMAIN columns.names :
             \/ Sheet(SubmitForm(mode, columns.names, columns.types, columns.nulls, chosen))
             \/ /\ part = "sheet_form"
                /\ \E names \in [DOMAIN columns.names -> FormNames \cup ToSet(columns.names)],
                      types \in [DOMAIN columns.names -> FormTypes \cup ToSet(columns.types)],
                      nulls \in [DOMAIN columns.names -> BOOLEAN] :
                      /\ OneOf(names, columns.names) /\ OneOf(nulls, columns.nulls)
                      /\ Sheet(SubmitForm(mode, names, types, nulls, chosen))

Table(A) ==
    /\ part = "table" /\ A
    /\ UNCHANGED <<vars, optionVars, workspaceVars, limiterVars, columnVars, part>>
TableMoves == Table(ModifyColumns) \/ Table(ExcludeColumns)

\* The bounds of the others end them; Submission is checked for deadlock.
OthersRest ==
    /\ part \notin {"submission", "registry"}
    /\ UNCHANGED <<vars, optionVars, workspaceVars, limiterVars, columnVars, tableVars, part>>

PagesSpec ==
    /\ PagesInit
    /\ [][\/ SubmissionMoves \/ RegistryMoves \/ FormMoves \/ WorkspaceMoves \/ LoginMoves \/ SheetMoves
          \/ TableMoves \/ OthersRest]_<<vars, optionVars, workspaceVars, limiterVars,
                                         columnVars, tableVars, part>>
=============================================================================
