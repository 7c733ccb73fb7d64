---------------------------- MODULE ImportPlans ----------------------------
(***************************************************************************)
(* Import of files into MySQL (modules/mysql_import.py and                 *)
(* mysql_import_routes.py): a preview leaves a plan file and its id in the *)
(* browser's cookie, an import reads the plan and makes a table of it.     *)
(*                                                                         *)
(* Plan files are created under their final name and written after that;   *)
(* every load and save first removes the files of anybody that cannot be   *)
(* read or have expired.  Tabs of one browser share the cookie: a request  *)
(* works on the copy it came with and its answer sends that copy back.     *)
(* CREATE and DROP TABLE commit by themselves, rows when the import ends.  *)
(***************************************************************************)
EXTENDS Naturals, FiniteSets

CONSTANTS
    Tabs,          \* tabs of the browser, one request at a time each
    PlanIds,       \* ids of plans, each used at most once
    NoPlan, NoTab,
    ImportFaults   \* the failures that occur in this instance

ASSUME ImportAssumption ==
    /\ NoPlan \notin PlanIds /\ NoTab \notin Tabs
    /\ ImportFaults \subseteq {"write_error", "row_error", "process", "expiry"}

VARIABLES
    planFile,    \* [PlanIds -> {"none", "half", "written", "expired", "gone"}]
    planCookie,  \* the plan id in the browser's cookie
    tab,         \* [Tabs -> the request being served]
    database,    \* whether the database that imports go to exists
    target,      \* the table that the imports make in it
    announced,   \* history: plans whose preview was answered
    finished,    \* history: plans whose import was answered as done
    vanished     \* history: [PlanIds -> why the file went]

importVars == <<planFile, planCookie, tab, database, target, announced, finished, vanished>>
importHistory == <<announced, finished, vanished>>

TabSteps == {"idle", "sweep", "act", "write", "database", "drop", "create", "insert",
          "commit", "delete", "answer"}
Endings == {"show", "failed", "previewed", "imported", "cleared"}

\* sent: the request's copy of the cookie, as it changes it; plan: the plan it
\* has loaded; doomed: files it has found to be removed, and what they were then;
\* answered (history): the plans whose import had been answered when it came.
AnyTab == [at : TabSteps, existing : PlanIds \cup {NoPlan}, sent : PlanIds \cup {NoPlan},
           plan : PlanIds \cup {NoPlan}, doomed : SUBSET (PlanIds \X {"half", "expired"}), replace : BOOLEAN,
           ending : Endings, answered : SUBSET PlanIds]
IdleTab == [at |-> "idle", existing |-> NoPlan, sent |-> NoPlan, plan |-> NoPlan,
            doomed |-> {}, replace |-> FALSE, ending |-> "show", answered |-> {}]

\* The table: who made it last (or dropped it to make it), whether an import that
\* replaces has dropped it so far, how its maker ended, and whose rows are committed.
NoTable == [there |-> FALSE, maker |-> NoTab, replaced |-> FALSE, fate |-> "none", rows |-> {}]

ImportInit ==
    /\ planFile = [p \in PlanIds |-> "none"]
    /\ planCookie = NoPlan
    /\ database \in BOOLEAN
    /\ tab = [t \in Tabs |-> IdleTab]
    /\ target = NoTable
    /\ announced = {} /\ finished = {}
    /\ vanished = [p \in PlanIds |-> "not"]

Step(t, from, to) == tab[t].at = from /\ tab' = [tab EXCEPT ![t].at = to]
Ends(t, ending) == tab' = [tab EXCEPT ![t].at = "answer", ![t].ending = ending]

-----------------------------------------------------------------------------
(* Plan files.                                                             *)

\* Mutant of Unwanted: a plan is taken as expired until its hour is over.
UnwantedUnexpired ==
    {<<p, planFile[p]>> : p \in {q \in PlanIds : planFile[q] \in {"half", "written"}}}

\* cleanup_expired_mysql_import_plans: half a file is no JSON.
Unwanted == {<<p, planFile[p]>> : p \in {q \in PlanIds : planFile[q] \in {"half", "expired"}}}

\* Files leave the directory: the ones a sweep has found unwanted, and one that
\* its request has no more use for.
RemoveFiles(doomed, used) ==
    LET goes == {p \in PlanIds : planFile[p] # "none" /\ (p \in used \/ \E d \in doomed : d[1] = p)}
    IN /\ planFile' = [p \in PlanIds |-> IF p \in goes THEN "gone" ELSE planFile[p]]
       /\ vanished' = [p \in PlanIds |->
                         IF p \notin goes \/ planFile[p] = "gone" THEN vanished[p]
                         ELSE IF p \in used THEN "used" ELSE (CHOOSE d \in doomed : d[1] = p)[2]]

\* A request arrives with the cookie of the browser.
OpenImport(t) ==
    /\ tab[t].at = "idle"
    /\ tab' = [tab EXCEPT ![t] = [IdleTab EXCEPT !.existing = planCookie, !.sent = planCookie,
                                     !.at = IF planCookie = NoPlan THEN "act" ELSE "sweep",
                                     !.doomed = IF planCookie = NoPlan THEN {} ELSE Unwanted,
                                     !.answered = finished]]
    /\ UNCHANGED <<planFile, planCookie, database, target, importHistory>>

\* load_mysql_import_plan: what was found unwanted is removed, then the plan is
\* read; without it the id leaves the cookie.
LoadPlan(t) ==
    /\ tab[t].at = "sweep"
    /\ RemoveFiles(tab[t].doomed, {})
    /\ LET found == planFile'[tab[t].existing] = "written"
       IN tab' = [tab EXCEPT ![t].at = "act", ![t].doomed = {},
                             ![t].plan = IF found THEN tab[t].existing ELSE NoPlan,
                             ![t].sent = IF found THEN @ ELSE NoPlan]
    /\ UNCHANGED <<planCookie, database, target, announced, finished>>

\* GET, an action that is not one, or a preview of a file that is refused.
ShowPage(t) ==
    /\ tab[t].at = "act" /\ Ends(t, "show")
    /\ UNCHANGED <<planFile, planCookie, database, target, importHistory>>

ClearPlan(t) ==
    /\ tab[t].at = "act"
    /\ RemoveFiles(Unwanted, {tab[t].existing} \cap PlanIds)
    /\ tab' = [tab EXCEPT ![t].at = "answer", ![t].sent = NoPlan, ![t].ending = "cleared"]
    /\ UNCHANGED <<planCookie, database, target, announced, finished>>

\* save_mysql_import_plan sweeps and creates the file; nothing is in it yet.
CreatePlan(t) ==
    /\ tab[t].at = "act"
    /\ \E p \in PlanIds :
         /\ planFile[p] = "none"
         /\ LET swept == {d[1] : d \in Unwanted}
            IN /\ planFile' = [q \in PlanIds |-> IF q = p THEN "half"
                                                 ELSE IF q \in swept THEN "gone" ELSE planFile[q]]
               /\ vanished' = [q \in PlanIds |-> IF q \in swept THEN planFile[q] ELSE vanished[q]]
         /\ tab' = [tab EXCEPT ![t].at = "write", ![t].plan = p]
    /\ UNCHANGED <<planCookie, database, target, announced, finished>>

\* The text is written; a file that was unlinked meanwhile stays so, and nobody
\* notices: ensure_private_regular_file accepts that there is none.
WritePlan(t) ==
    /\ Step(t, "write", "delete")
    /\ planFile' = [planFile EXCEPT ![tab[t].plan] = IF @ = "half" THEN "written" ELSE @]
    /\ UNCHANGED <<planCookie, database, target, importHistory>>

WriteFails(t) ==
    /\ "write_error" \in ImportFaults /\ tab[t].at = "write"
    /\ RemoveFiles({}, {tab[t].plan}) /\ Ends(t, "failed")
    /\ UNCHANGED <<planCookie, database, target, announced, finished>>

\* Mutant of DeletePlan: only a preview deletes.
DeletePlanOfPreview(t) ==
    /\ tab[t].at = "delete"
    /\ LET preview == tab[t].plan # tab[t].existing
       IN /\ RemoveFiles(Unwanted, IF preview THEN {tab[t].existing} \cap PlanIds ELSE {})
          /\ tab' = [tab EXCEPT ![t].at = "answer",
                                ![t].sent = IF preview THEN tab[t].plan ELSE NoPlan,
                                ![t].ending = IF preview THEN "previewed" ELSE "imported"]
    /\ UNCHANGED <<planCookie, database, target, announced, finished>>

\* After a preview the plan before it is deleted, after an import the plan; the
\* cookie gets the new id or none.
DeletePlan(t) ==
    /\ tab[t].at = "delete"
    /\ LET preview == tab[t].plan # tab[t].existing
       IN /\ RemoveFiles(Unwanted, {tab[t].existing} \cap PlanIds)
          /\ tab' = [tab EXCEPT ![t].at = "answer",
                                ![t].sent = IF preview THEN tab[t].plan ELSE NoPlan,
                                ![t].ending = IF preview THEN "previewed" ELSE "imported"]
    /\ UNCHANGED <<planCookie, database, target, announced, finished>>

-----------------------------------------------------------------------------
(* The import of a loaded plan.                                            *)

\* validate_mysql_import_request: the database must exist or be created with the
\* table, the table must not exist or be replaced.
Validate(t, new, replace) ==
    /\ tab[t].at = "act" /\ tab[t].plan # NoPlan /\ tab[t].plan = tab[t].existing
    /\ IF (target.there /\ ~replace) \/ (~database /\ ~new)
       THEN Ends(t, "failed")
       ELSE tab' = [tab EXCEPT ![t].replace = replace,
                               ![t].at = IF new THEN "database"
                                         ELSE IF replace THEN "drop" ELSE "create"]
    /\ UNCHANGED <<planFile, planCookie, database, target, importHistory>>

\* CREATE DATABASE IF NOT EXISTS, on a connection of its own.
CreateDatabase(t) ==
    /\ Step(t, "database", IF tab[t].replace THEN "drop" ELSE "create")
    /\ database' = TRUE
    /\ UNCHANGED <<planFile, planCookie, target, importHistory>>

\* Rows not yet committed keep other sessions from dropping the table.
Inserting == \E u \in Tabs : tab[u].at = "commit"

DropTarget(t) ==
    /\ ~Inserting /\ Step(t, "drop", "create")
    /\ target' = [NoTable EXCEPT !.maker = t, !.replaced = TRUE, !.fate = "running"]
    /\ UNCHANGED <<planFile, planCookie, database, importHistory>>

\* How the import of a tab ended, as far as the table it made is concerned.
WithFate(t, fate) == IF target.maker = t /\ target.fate = "running" THEN fate ELSE target.fate

\* Mutant of ImportFails: the import rolls back and goes on as if it had ended.
ImportFailsSilently(t) ==
    /\ tab' = [tab EXCEPT ![t].at = "delete"]
    /\ target' = [target EXCEPT !.fate = WithFate(t, "done")]
    /\ UNCHANGED <<planFile, planCookie, database, importHistory>>

\* The exception is raised again after the rollback, and flashed.
ImportFails(t) ==
    /\ Ends(t, "failed")
    /\ target' = [target EXCEPT !.fate = WithFate(t, "told")]
    /\ UNCHANGED <<planFile, planCookie, database, importHistory>>

\* Mutant of CreateTarget: CREATE TABLE IF NOT EXISTS.
CreateTargetIfAbsent(t) ==
    /\ Step(t, "create", "insert")
    /\ target' = IF target.there THEN target
                 ELSE [target EXCEPT !.there = TRUE, !.maker = t, !.fate = "running"]
    /\ UNCHANGED <<planFile, planCookie, database, importHistory>>

CreateTarget(t) ==
    /\ ~target.there /\ Step(t, "create", "insert")
    /\ target' = [target EXCEPT !.there = TRUE, !.maker = t, !.fate = "running"]
    /\ UNCHANGED <<planFile, planCookie, database, importHistory>>

\* Another import has made the table since it was validated or dropped.
CreateFails(t) == tab[t].at = "create" /\ target.there /\ ImportFails(t)

InsertRows(t) ==
    /\ target.there /\ Step(t, "insert", "commit")
    /\ UNCHANGED <<planFile, planCookie, database, target, importHistory>>

\* A value that cannot be converted, or one that the table refuses, in any batch;
\* or another import has dropped the table.
InsertFails(t) ==
    /\ tab[t].at = "insert"
    /\ "row_error" \in ImportFaults \/ ~target.there
    /\ ImportFails(t)

CommitRows(t) ==
    /\ Step(t, "commit", "delete")
    /\ target' = [target EXCEPT !.rows = @ \cup {<<t, tab[t].plan>>}, !.fate = WithFate(t, "done")]
    /\ UNCHANGED <<planFile, planCookie, database, importHistory>>

-----------------------------------------------------------------------------
\* Every handler but a plain page flashes a message, which sends the cookie; a
\* plain page does when the id has left the copy.
AnswerImport(t) ==
    /\ tab[t].at = "answer"
    /\ \/ planCookie' = tab[t].sent
       \/ tab[t].ending = "show" /\ tab[t].sent = tab[t].existing /\ UNCHANGED planCookie
    /\ announced' = IF tab[t].ending = "previewed" THEN announced \cup {tab[t].sent} ELSE announced
    /\ finished' = IF tab[t].ending = "imported" THEN finished \cup {tab[t].existing} ELSE finished
    /\ tab' = [tab EXCEPT ![t] = IdleTab]
    /\ UNCHANGED <<planFile, database, target, vanished>>

\* The hour of a plan is over.
PlanExpires(p) ==
    /\ "expiry" \in ImportFaults /\ planFile[p] = "written"
    /\ planFile' = [planFile EXCEPT ![p] = "expired"]
    /\ UNCHANGED <<planCookie, tab, database, target, importHistory>>

\* The web process ends: requests are cut off, rows not committed are gone.
ImportCut ==
    /\ "process" \in ImportFaults /\ \E t \in Tabs : tab[t].at # "idle"
    /\ tab' = [t \in Tabs |-> IdleTab]
    /\ target' = [target EXCEPT !.fate = IF @ = "running" THEN "cut" ELSE @]
    /\ UNCHANGED <<planFile, planCookie, database, importHistory>>

ImportStep(t) ==
    \/ OpenImport(t) \/ LoadPlan(t) \/ ShowPage(t) \/ ClearPlan(t)
    \/ CreatePlan(t) \/ WritePlan(t) \/ WriteFails(t) \/ DeletePlan(t)
    \/ \E new, replace \in BOOLEAN : Validate(t, new, replace)
    \/ CreateDatabase(t) \/ DropTarget(t) \/ CreateTarget(t) \/ CreateFails(t)
    \/ InsertRows(t) \/ InsertFails(t) \/ CommitRows(t) \/ AnswerImport(t)

ImportNext == (\E t \in Tabs : ImportStep(t)) \/ (\E p \in PlanIds : PlanExpires(p)) \/ ImportCut
ImportSpec == ImportInit /\ [][ImportNext]_importVars

-----------------------------------------------------------------------------
\* A plan that the user was told is loaded goes only when it is used, cleared,
\* replaced by another preview or expired - or when another request's clean-up
\* has read it half written (write_new_private_text does not write by rename).
DraftsKept ==
    \A p \in announced : planFile[p] = "gone" => vanished[p] \in {"used", "expired", "half"}

\* A plan whose import was answered as done is spent: its file is gone, and no
\* request that comes after that answer has the plan in hand, whatever an older
\* copy of the cookie brings back.  Requests that overlap may both have it: two
\* posts that loaded the plan before either deletes it both import it, and so
\* does a post after a process that ended between the commit and the deletion.
ImportedPlansSpent ==
    /\ \A p \in finished : planFile[p] = "gone"
    /\ \A t \in Tabs : tab[t].plan \notin tab[t].answered

\* Rows of an import are in a table that another made only after an import that
\* replaces has dropped the table: without "Replace Table", imports into one new
\* table do not mix, however the checks for it and its creation interleave.
RowsOfTheMaker == \A r \in target.rows : r[1] # target.maker => target.replaced

\* A table that a replacing import has dropped, or made and left empty, is that
\* import's: it still runs, its failure was told, or the process ended under it.
EmptyTableAccounted == target.rows = {} => target.fate # "done"

\* Imports in two tabs do not revive, mix or hide one another's work: a plan whose
\* import was answered is not imported by a later request, rows stay with the
\* table they were meant for, and an empty table in place of the old one is never
\* called a success.
ImportsSeparate == ImportedPlansSpent /\ RowsOfTheMaker /\ EmptyTableAccounted
=============================================================================
