---------------------------- MODULE SchemaAdmin ----------------------------
(***************************************************************************)
(* DB Admin and HeatWave management: requests that change the tables of a  *)
(* schema (modules/db_admin_queries.py, mysql_pages.py, heatwave_pages.py).*)
(*                                                                         *)
(* A request reads the schema, makes a plan of DDL statements from what it *)
(* has read, and executes them one by one.  MySQL commits each DDL         *)
(* statement by itself: between two of them other administrators see and   *)
(* change the schema, and a statement that fails leaves the ones before it *)
(* done.                                                                   *)
(***************************************************************************)
EXTENDS Naturals, Sequences, FiniteSets, SequencesExt

CONSTANTS
    Admins,         \* sessions of administrators, one request at a time each
    Tables,
    ForeignKeys,    \* the constraints of the schema
    ChildOf,        \* [ForeignKeys -> Tables]: the table that has the constraint
    ParentOf,       \* [ForeignKeys -> Tables]: the table it refers to
    AutoIncrement,  \* tables with an AUTO_INCREMENT column
    Lakehouse,      \* tables of the Lakehouse engine
    SchemaWorks,    \* the requests that occur in this instance
    SchemaFaults    \* the failures that occur in this instance

AllSchemaWorks == {"convert", "drop_tables", "drop_database", "fix", "modify",
                   "load", "unload"}

ASSUME SchemaAssumption ==
    /\ IsFiniteSet(Tables) /\ IsFiniteSet(ForeignKeys)
    /\ ChildOf \in [ForeignKeys -> Tables] /\ ParentOf \in [ForeignKeys -> Tables]
    /\ AutoIncrement \subseteq Tables /\ Lakehouse \subseteq Tables
    /\ SchemaWorks \subseteq AllSchemaWorks
    /\ SchemaFaults \subseteq {"ddl_error", "process"}

\* The character set is the one of the text column that foreign keys use;
\* "rapid" is SECONDARY_ENGINE = RAPID, "loaded" that the data is in HeatWave.
Table == [charset : {"old", "new"}, key : {"none", "auto", "row_id", "chosen"},
          row_id : BOOLEAN, engine : {"none", "rapid", "loaded"}]

Statement == {"drop_fk", "add_fk"} \X ForeignKeys
        \cup {"convert", "drop_table", "check_key", "key_auto", "key_row_id", "key_add",
              "key_replace", "key_drop", "rapid", "load", "unload"} \X Tables

VARIABLES
    there,        \* the tables that exist
    table,        \* [Tables -> Table]
    constraints,  \* the foreign keys that exist
    checks,       \* [Admins -> BOOLEAN]: FOREIGN_KEY_CHECKS of the session's connection
    asked,        \* [Admins -> what is being served]
    plan,         \* [Admins -> Seq(Statement)]: what is left to execute
    told,         \* history: half-done changes whose request ended with an error
    cut,          \* history: half-done changes whose request the process' end cut off
    unchecked     \* history: foreign keys altered by a request that asked for no checks

server == <<there, table, constraints>>
history == <<told, cut, unchecked>>
schemaVars == <<server, checks, asked, plan, history>>

\* What a request knows besides its plan: whether it disabled the checks, the
\* foreign keys it has dropped and not yet recreated, the tables it has fixed.
AnyRequest == [work : SchemaWorks \cup {"none"}, off : BOOLEAN,
               dropped : SUBSET ForeignKeys, fixed : SUBSET Tables]
NoRequest == [work |-> "none", off |-> FALSE, dropped |-> {}, fixed |-> {}]

SchemaInit ==
    /\ there = Tables
    /\ table = [x \in Tables |-> [charset |-> "old", key |-> "none", row_id |-> FALSE,
                                  engine |-> "none"]]
    /\ constraints = ForeignKeys
    /\ checks = [a \in Admins |-> TRUE]
    /\ asked = [a \in Admins |-> NoRequest]
    /\ plan = [a \in Admins |-> <<>>]
    /\ told = {} /\ cut = {} /\ unchecked = {}

-----------------------------------------------------------------------------
(* Reading the schema and making the plan.                                 *)

Each(do, S) == LET s == SetToSeq(S) IN [i \in 1 .. Len(s) |-> <<do, s[i]>>]

Start(a, work, statements) ==
    /\ asked[a].work = "none" /\ work \in SchemaWorks /\ statements # <<>>
    /\ asked' = [asked EXCEPT ![a].work = work]
    /\ plan' = [plan EXCEPT ![a] = statements]
    /\ UNCHANGED <<server, checks, history>>

\* _fetch_foreign_key_definitions: the constraints that the tables have; those
\* that refer to the tables are not fetched.
Outgoing(X) == {f \in constraints : ChildOf[f] \in X}

\* Mutant of ConversionPlan: only what is dropped first is recreated.
ConversionPlanShort(X, drop) ==
    LET fks == IF drop THEN Outgoing(X) ELSE {}
    IN Each("drop_fk", fks) \o Each("convert", X)

\* build_db_admin_charset_collation_plan: drop, alter, recreate.
ConversionPlan(X, drop) ==
    LET fks == IF drop THEN Outgoing(X) ELSE {}
    IN Each("drop_fk", fks) \o Each("convert", X) \o Each("add_fk", fks)

\* modify_db_admin_charset_collation; the checks are switched off, if asked
\* for, before the first statement.
PlanConversion(a) ==
    \E X \in SUBSET there \ {{}}, drop, off \in BOOLEAN :
        /\ asked[a].work = "none" /\ "convert" \in SchemaWorks
        /\ asked' = [asked EXCEPT ![a].work = "convert", ![a].off = off]
        /\ plan' = [plan EXCEPT ![a] = ConversionPlan(X, drop)]
        /\ checks' = [checks EXCEPT ![a] = @ /\ ~off]
        /\ UNCHANGED <<server, history>>

PlanDropTables(a) ==
    \E X \in SUBSET there \ {{}} : Start(a, "drop_tables", Each("drop_table", X))

\* _build_missing_primary_key_report: the rows that can be fixed.
Fixable == {x \in there : /\ table[x].key = "none" /\ x \notin Lakehouse
                          /\ x \in AutoIncrement \/ ~table[x].row_id}

PlanFixes(a) == \E X \in SUBSET Fixable : Start(a, "fix", Each("check_key", X))

\* modify_table_columns, as far as the primary key goes: whether the statement
\* drops the key depends on the indexes read before.
PlanModify(a) ==
    \E x \in there, desired \in {"none", "chosen"} :
        LET clause == IF table[x].key = "none" THEN "key_add"
                      ELSE IF desired = "none" THEN "key_drop" ELSE "key_replace"
        IN /\ table[x].key # desired
           /\ Start(a, "modify", << <<clause, x>> >>)

\* table_load: the engine is configured first unless the table has it.
PlanLoad(a) ==
    \E x \in there :
        Start(a, "load", IF table[x].engine = "none" THEN << <<"rapid", x>>, <<"load", x>> >>
                         ELSE << <<"load", x>> >>)

PlanUnload(a) == \E x \in there : Start(a, "unload", << <<"unload", x>> >>)

DropDatabase(a) ==
    /\ "drop_database" \in SchemaWorks /\ asked[a].work = "none" /\ there # {}
    /\ there' = {} /\ constraints' = {}
    /\ UNCHANGED <<table, checks, asked, plan, history>>

-----------------------------------------------------------------------------
(* The statements, as MySQL executes them.                                 *)

Touching(x) == {f \in constraints : x \in {ChildOf[f], ParentOf[f]}}

\* A table whose data is loaded into HeatWave takes no other DDL.
Alterable(x) == x \in there /\ table[x].engine # "loaded"

DropForeignKey(a, f) ==
    /\ f \in constraints /\ Alterable(ChildOf[f])
    /\ constraints' = constraints \ {f}
    /\ asked' = [asked EXCEPT ![a].dropped = @ \cup {f}]
    /\ UNCHANGED <<there, table, unchecked>>

AddForeignKey(a, f) ==
    /\ f \notin constraints /\ Alterable(ChildOf[f]) /\ ParentOf[f] \in there
    /\ table[ChildOf[f]].charset = table[ParentOf[f]].charset
    /\ constraints' = constraints \cup {f}
    /\ asked' = [asked EXCEPT ![a].dropped = @ \ {f}]
    /\ UNCHANGED <<there, table, unchecked>>

Convert(a, x) ==
    /\ Alterable(x)
    /\ checks[a] => Touching(x) = {}
    /\ table' = [table EXCEPT ![x].charset = "new"]
    /\ unchecked' = IF asked[a].off THEN unchecked \cup Touching(x) ELSE unchecked
    /\ UNCHANGED <<there, constraints, asked>>

DropTable(a, x) ==
    /\ x \in there
    /\ checks[a] => \A f \in constraints : ParentOf[f] = x => ChildOf[f] = x
    /\ there' = there \ {x}
    /\ constraints' = {f \in constraints : ChildOf[f] # x}
    /\ UNCHANGED <<table, asked, unchecked>>

SetTable(x, field, value) == table' = [table EXCEPT ![x][field] = value]

\* ADD PRIMARY KEY of a fix, with the column it needs in the same statement.
AddKey(a, x, kind) ==
    /\ Alterable(x) /\ table[x].key = "none"
    /\ kind = "row_id" => ~table[x].row_id
    /\ table' = [table EXCEPT ![x].key = kind, ![x].row_id = @ \/ kind = "row_id"]
    /\ asked' = [asked EXCEPT ![a].fixed = @ \cup {x}]
    /\ UNCHANGED <<there, constraints, unchecked>>

ChangeKey(a, x, old, new) ==
    /\ Alterable(x) /\ (table[x].key = "none") = old
    /\ SetTable(x, "key", new)
    /\ UNCHANGED <<there, constraints, asked, unchecked>>

ChangeEngine(x, from, to) ==
    /\ x \in there /\ table[x].engine \in from
    /\ SetTable(x, "engine", to)
    /\ UNCHANGED <<there, constraints, asked, unchecked>>

Do(a, do, x) ==
    \/ do = "drop_fk" /\ DropForeignKey(a, x)
    \/ do = "add_fk" /\ AddForeignKey(a, x)
    \/ do = "convert" /\ Convert(a, x)
    \/ do = "drop_table" /\ DropTable(a, x)
    \/ do = "key_auto" /\ AddKey(a, x, "auto")
    \/ do = "key_row_id" /\ AddKey(a, x, "row_id")
    \/ do = "key_add" /\ ChangeKey(a, x, TRUE, "chosen")
    \/ do = "key_replace" /\ ChangeKey(a, x, FALSE, "chosen")
    \/ do = "key_drop" /\ ChangeKey(a, x, FALSE, "none")
    \/ do = "rapid" /\ ChangeEngine(x, {"none", "rapid"}, "rapid")
    \/ do = "load" /\ ChangeEngine(x, {"rapid"}, "loaded")
    \/ do = "unload" /\ ChangeEngine(x, {"loaded"}, "rapid")

-----------------------------------------------------------------------------
(* Executing the plan.                                                     *)

\* Mutant of Reset: the checks stay as the request has set them.
ResetKeepingChecks(a) == asked' = [asked EXCEPT ![a] = NoRequest] /\ UNCHANGED checks

Reset(a) ==
    /\ asked' = [asked EXCEPT ![a] = NoRequest]
    /\ checks' = [checks EXCEPT ![a] = TRUE]

\* What stays undone if the request of a ends here.
HalfDone(a) ==
    {<<"add_fk", f>> : f \in asked[a].dropped}
        \cup {s \in ToSet(plan[a]) : asked[a].work = "load" /\ Len(plan[a]) = 1}

Execute(a) ==
    /\ plan[a] # <<>>
    /\ LET s == Head(plan[a])
       IN /\ Do(a, s[1], s[2])
          /\ told' = IF s[1] = "unload" THEN told \cup {<<"load", s[2]>>} ELSE told \ {s}
    /\ plan' = [plan EXCEPT ![a] = Tail(@)]
    /\ UNCHANGED <<checks, cut>>

\* Mutant of CheckKey: a fix takes away the key that the table has by now.
CheckKeyReplacing(a) ==
    /\ plan[a] # <<>> /\ Head(plan[a])[1] = "check_key"
    /\ LET x == Head(plan[a])[2]
       IN plan' = [plan EXCEPT ![a] = << <<IF table[x].key = "none" THEN "key_add" ELSE "key_drop", x>> >>
                                          \o Tail(@)]
    /\ UNCHANGED <<server, checks, asked, history>>

\* fix_table_without_primary_key: the state of the key, read just before the
\* statement that adds one.
CheckKey(a) ==
    /\ plan[a] # <<>> /\ Head(plan[a])[1] = "check_key"
    /\ LET x == Head(plan[a])[2]
           kind == IF x \in AutoIncrement THEN "key_auto" ELSE "key_row_id"
           refused == \/ x \notin there \/ table[x].key # "none" \/ x \in Lakehouse
                      \/ kind = "key_row_id" /\ table[x].row_id
       IN plan' = [plan EXCEPT ![a] = (IF refused THEN <<>> ELSE << <<kind, x>> >>) \o Tail(@)]
    /\ UNCHANGED <<server, checks, asked, history>>

\* Mutant of Fail: an error in the middle is logged, and the rest goes on.
FailSilently(a) ==
    /\ plan[a] # <<>> /\ "ddl_error" \in SchemaFaults /\ asked[a].work # "fix"
    /\ plan' = [plan EXCEPT ![a] = Tail(@)]
    /\ UNCHANGED <<server, checks, asked, history>>

\* A statement fails: MySQL refuses it, or gives up on it.  The request ends
\* with an error; modify_db_admin_charset_collation switches the checks on again.
Fail(a) ==
    /\ plan[a] # <<>> /\ "ddl_error" \in SchemaFaults /\ asked[a].work # "fix"
    /\ told' = told \cup HalfDone(a)
    /\ plan' = [plan EXCEPT ![a] = <<>>]
    /\ Reset(a)
    /\ UNCHANGED <<server, cut, unchecked>>

\* _build_missing_primary_key_fix_result: a fix that fails is counted, and the
\* next table has its turn.
FixFails(a) ==
    /\ plan[a] # <<>> /\ "ddl_error" \in SchemaFaults /\ asked[a].work = "fix"
    /\ plan' = [plan EXCEPT ![a] = Tail(@)]
    /\ UNCHANGED <<server, checks, asked, history>>

Answer(a) ==
    /\ asked[a].work # "none" /\ plan[a] = <<>>
    /\ Reset(a)
    /\ UNCHANGED <<server, plan, history>>

\* The web process ends in the middle of the requests; the connections close.
ProcessEnds ==
    /\ "process" \in SchemaFaults /\ \E a \in Admins : asked[a].work # "none"
    /\ cut' = cut \cup UNION {HalfDone(a) : a \in Admins}
    /\ asked' = [a \in Admins |-> NoRequest] /\ plan' = [a \in Admins |-> <<>>]
    /\ checks' = [a \in Admins |-> TRUE]
    /\ UNCHANGED <<server, told, unchecked>>

SchemaNext ==
    \/ \E a \in Admins :
          \/ PlanConversion(a) \/ PlanDropTables(a) \/ PlanFixes(a) \/ PlanModify(a)
          \/ PlanLoad(a) \/ PlanUnload(a) \/ DropDatabase(a)
          \/ Execute(a) \/ CheckKey(a) \/ Fail(a) \/ FixFails(a) \/ Answer(a)
    \/ ProcessEnds

SchemaSpec == SchemaInit /\ [][SchemaNext]_schemaVars

-----------------------------------------------------------------------------
(* Properties.                                                             *)

\* The schema and the requests are well-formed.
SchemaTypeOK ==
    /\ there \subseteq Tables /\ table \in [Tables -> Table]
    /\ constraints \subseteq ForeignKeys /\ unchecked \subseteq ForeignKeys
    /\ checks \in [Admins -> BOOLEAN] /\ asked \in [Admins -> AnyRequest]
    /\ plan \in [Admins -> Seq(Statement)]
    /\ told \cup cut \subseteq Statement

Pending(s) == \E a \in Admins : s \in ToSet(plan[a])

\* A foreign key that a conversion has dropped is back, or about to be
\* recreated by the conversion that dropped it, or its administrator got an
\* error (or no answer, if the process ended), or one of its tables is gone:
\* modify_db_admin_charset_collation never loses a key and reports success.
ForeignKeysAccounted ==
    \A f \in ForeignKeys \ constraints :
        \/ ~{ChildOf[f], ParentOf[f]} \subseteq there
        \/ <<"add_fk", f>> \in told \cup cut
        \/ \E a \in Admins : f \in asked[a].dropped /\ <<"add_fk", f>> \in ToSet(plan[a])

\* Columns joined by a foreign key have one character set, except where a
\* request asked for FOREIGN_KEY_CHECKS off: the setting never reaches another
\* request over the cached connection.
KeysCompatible ==
    \A f \in constraints \ unchecked :
        table[ChildOf[f]].charset = table[ParentOf[f]].charset

\* A table with the engine but without its data is one that somebody unloaded,
\* is about to load, or got an error for.
LoadsAccounted ==
    \A x \in there : table[x].engine = "rapid" =>
        <<"load", x>> \in told \cup cut \/ Pending(<<"load", x>>)

\* What a sequence of DDL leaves half-done was told to the administrator who
\* started it, or is still being worked on: no key and no load is lost silently.
HalfDoneAccounted == ForeignKeysAccounted /\ LoadsAccounted

\* Only an administrator's change of the key takes or replaces a primary key;
\* a fix that comes late leaves the key somebody else has added meanwhile.
FixesKeepKeys ==
    [][\A x \in Tables :
          table[x].key # "none" /\ table'[x].key # table[x].key =>
              \E a \in Admins : asked[a].work = "modify" /\ plan'[a] # plan[a]]_schemaVars

=============================================================================
