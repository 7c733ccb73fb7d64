--------------------------- MODULE HeatWaveStatus ---------------------------
(***************************************************************************)
(* What the console says of tables in HeatWave (heatwave_pages.py, with    *)
(* the inventory query of dashboard_queries.py).                           *)
(*                                                                         *)
(* The server loads and unloads tables while a page makes three queries,   *)
(* one after the other: the tables HeatWave tracks, the tables configured  *)
(* for it, the Lakehouse tables.  Each may fail, which the page shows as   *)
(* an empty answer.  The dashboard, the table page and the management page *)
(* derive their counts from the answers separately.                        *)
(*                                                                         *)
(* Progress is in hundredths of the unit the server reports, percent or    *)
(* fraction.  A status is a name; the code also reads numbers there.  The  *)
(* code finds a table by its name in lower case, and the management page a *)
(* schema: the tables here have names that differ in more than case, so a  *)
(* key stands for one table.                                               *)
(***************************************************************************)
EXTENDS Integers, FiniteSets

CONSTANTS
    HTables,       \* tables of the server
    SchemaOf,      \* [HTables -> schema names]
    SystemSchemas,
    PartProgress,  \* hundredths of a percent a table in loading reports
    MaxMoves,      \* bound: changes of the server from its state at the start
    None           \* NULL, or no such column

ASSUME HeatWaveAssumption ==
    /\ PartProgress \subseteq 0 .. 9998
    /\ None \notin Int \cup {"loaded"}
    /\ DOMAIN SchemaOf = HTables
    /\ IsFiniteSet(HTables)

Servers == [columns : SUBSET {"progress", "status", "stamps"},
            unit : {"percent", "fraction"},
            words : {"rpd", "plain"}]

VARIABLES
    server,      \* what this version of the server reports
    configured,  \* tables with SECONDARY_ENGINE=RAPID
    lakehouse,   \* tables of the Lakehouse engine
    rpd,         \* [HTables -> ...]: their entry in rpd_table_id and rpd_tables
    page,        \* the answers the page has
    reading,     \* the query it makes next
    moves        \* changes of the server so far

heatwaveVars == <<server, configured, lakehouse, rpd, page, reading, moves>>

Loads == {[state |-> "loading", progress |-> p] : p \in PartProgress}
Absent == [state |-> "absent", progress |-> 0]
Known == [state |-> "known", progress |-> 0]    \* in rpd_table_id, not in rpd_tables
Available == [state |-> "avail", progress |-> 10000]
Stale == [state |-> "stale", progress |-> 10000]

RpdEntries == {Absent, Known, Available, Stale} \cup Loads

NoPage == [inventory |-> {}, configured |-> {}, lakehouse |-> {}, errors |-> {}]

HeatWaveInit ==
    /\ server \in Servers
    /\ configured \in SUBSET HTables
    /\ lakehouse \in SUBSET HTables
    /\ rpd \in [HTables -> RpdEntries]
    /\ moves = 0
    /\ page = NoPage
    /\ reading = "inventory"

-----------------------------------------------------------------------------
(* The server.                                                             *)

Move == moves < MaxMoves /\ moves' = moves + 1

RpdChanges(t) ==
    /\ \E e \in CASE rpd[t] = Absent -> IF t \in configured THEN {Known} \cup Loads ELSE {}
                [] rpd[t] = Known -> {Absent} \cup Loads
                [] rpd[t] \in Loads -> {Absent, Known, Available} \cup Loads
                [] rpd[t] = Available -> {Absent, Stale}
                [] rpd[t] = Stale -> {Absent} :
           rpd' = [rpd EXCEPT ![t] = e]
    /\ Move
    /\ UNCHANGED <<server, configured, lakehouse, page, reading>>

Configure(t) ==
    /\ rpd[t] = Absent
    /\ configured' \in {configured \cup {t}, configured \ {t}}
    /\ Move
    /\ UNCHANGED <<server, lakehouse, rpd, page, reading>>

Word(state) ==
    IF server.words = "rpd"
    THEN CASE state = "avail" -> "AVAIL_RPDGSTABSTATE"
           [] state = "loading" -> "LOADING_RPDGSTABSTATE"
           [] OTHER -> "STALE_RPDGSTABSTATE"
    ELSE CASE state = "avail" -> "loaded" [] state = "loading" -> "loading"
           [] OTHER -> "stale"

\* A row of the LEFT JOIN.
InventoryRow(t) ==
    LET joined == rpd[t] # Known
        has(column) == joined /\ column \in server.columns
    IN [table |-> t,
        progress |-> IF ~has("progress") THEN None
                     ELSE IF server.unit = "percent" THEN rpd[t].progress
                     ELSE rpd[t].progress \div 100,
        status |-> IF has("status") THEN Word(rpd[t].state) ELSE None,
        ended |-> has("stamps") /\ rpd[t].state # "loading",
        was |-> rpd[t].state]   \* history

-----------------------------------------------------------------------------
(* The page.                                                               *)

ReadInventory ==
    /\ reading = "inventory"
    /\ \/ page' = [NoPage EXCEPT !.inventory =
                       {InventoryRow(t) : t \in {u \in HTables : rpd[u] # Absent}}]
       \/ page' = [NoPage EXCEPT !.errors = {"inventory"}]
    /\ reading' = "configured"
    /\ UNCHANGED <<server, configured, lakehouse, rpd, moves>>

ReadConfigured ==
    /\ reading = "configured"
    /\ \/ page' = [page EXCEPT !.configured =
                       {t \in configured : SchemaOf[t] \notin SystemSchemas}]
       \/ page' = [page EXCEPT !.errors = @ \cup {"configured"}]
    /\ reading' = "lakehouse"
    /\ UNCHANGED <<server, configured, lakehouse, rpd, moves>>

ReadLakehouse ==
    /\ reading = "lakehouse"
    /\ \/ page' = [page EXCEPT !.lakehouse = lakehouse]
       \/ page' = [page EXCEPT !.errors = @ \cup {"lakehouse"}]
    /\ reading' = "shown"
    /\ UNCHANGED <<server, configured, lakehouse, rpd, moves>>

NextPage ==
    /\ reading = "shown"
    /\ page' = NoPage
    /\ reading' = "inventory"
    /\ UNCHANGED <<server, configured, lakehouse, rpd, moves>>

HeatWaveNext ==
    \/ ReadInventory \/ ReadConfigured \/ ReadLakehouse \/ NextPage
    \/ \E t \in HTables : RpdChanges(t) \/ Configure(t)

HeatWaveSpec == HeatWaveInit /\ [][HeatWaveNext]_heatwaveVars

-----------------------------------------------------------------------------
(* Rows and their state.                                                   *)

\* Mutant of Percent: every value is taken for a fraction.
PercentOfFraction(v) == 100 * v

\* _normalize_progress_value: up to 1 it is a fraction, beyond a percentage.
Percent(v) == IF v <= 100 THEN 100 * v ELSE v

SaysLoaded == {"loaded"}
Normal == {"AVAIL_RPDGSTABSTATE"}

\* _derive_load_state; the start time does not matter for it.
LoadState(row) ==
    IF row.progress # None
    THEN IF Percent(row.progress) >= 9999 THEN "loaded"
         ELSE IF Percent(row.progress) > 0 THEN "partial" ELSE "not_loaded"
    ELSE IF row.status \in SaysLoaded \/ row.ended THEN "loaded" ELSE "partial"

\* _derive_health_class.
Health(row) ==
    CASE row.status # None /\ row.status \notin Normal -> "error"
      [] OTHER -> [loaded |-> "loaded", partial |-> "progress",
                   not_loaded |-> "neutral"][LoadState(row)]

Tracked == {row.table : row \in page.inventory}

RowFor(t) == CHOOSE row \in page.inventory : row.table = t

\* Mutant of TableState: a table that HeatWave does not track is being loaded.
TableStatePartial(t) ==
    IF t \in Tracked THEN LoadState(RowFor(t)) ELSE "partial"

\* The state of a table in the lists of configured and of Lakehouse tables.
TableState(t) == IF t \in Tracked THEN LoadState(RowFor(t)) ELSE "not_loaded"

\* What the pages count: tables, and those in each state.
Counts(tables, state) ==
    [metric \in {"heatwave", "loaded", "partial", "not_loaded"} |->
        Cardinality({t \in tables : metric \in {"heatwave", state[t]}})]

(* The dashboard: a row for each schema.                                   *)

In(schema, tables) == {t \in tables : SchemaOf[t] = schema}

\* Mutant of DashboardTables: only what HeatWave tracks is counted.
DashboardTablesTracked(schema) == In(schema, Tracked)

DashboardTables(schema) == In(schema, page.configured \cup Tracked)

\* tracked_states_by_key, of which a table that is not tracked has no entry.
TrackedStates == [t \in Tracked |-> LoadState(RowFor(t))]
DashboardState(t) == IF t \in DOMAIN TrackedStates THEN TrackedStates[t] ELSE "not_loaded"

DashboardRow(schema) ==
    Counts(DashboardTables(schema), [t \in HTables |-> DashboardState(t)])

DashboardSchemas ==
    {SchemaOf[t] : t \in page.configured \cup page.lakehouse \cup Tracked} \ SystemSchemas

DashboardTotal(metric) ==
    LET total[schemas \in SUBSET DashboardSchemas] ==
            IF schemas = {} THEN 0
            ELSE LET schema == CHOOSE x \in schemas : TRUE
                 IN DashboardRow(schema)[metric] + total[schemas \ {schema}]
    IN total[DashboardSchemas]

(* The management page of a schema.                                        *)

ManagementRow(schema) ==
    Counts(In(schema, page.configured) \cup In(schema, Tracked),
           [t \in HTables |-> TableState(t)])

(* The table page.                                                         *)

InState(s) == {row \in page.inventory : LoadState(row) = s}

NotLoadedConfigured == {t \in page.configured : TableState(t) # "loaded"}

\* Mutant of NeedAttention: tables that are not tracked are left out.
NeedAttentionTracked ==
    {t \in page.lakehouse : t \in Tracked
                            /\ Health(RowFor(t)) # "loaded"}

\* Lakehouse tables that are not healthy.
NeedAttention ==
    {t \in page.lakehouse : \/ t \notin Tracked
                            \/ LoadState(RowFor(t)) # "loaded"
                            \/ Health(RowFor(t)) # "loaded"}

-----------------------------------------------------------------------------

\* A table that a list or a count gives as loaded was loaded when it was read,
\* whichever columns and units this version of the server has.  (1 percent,
\* 100 in PartProgress, is the exception: it is read as the fraction 1.)
LoadedIsAvailable ==
    \A row \in page.inventory : LoadState(row) = "loaded" => row.was \in {"avail", "stale"}

\* The three views, computed separately, tell the same: the dashboard and the
\* management page of every schema, the totals and the table page.
ViewsAgree ==
    reading = "shown" =>
        /\ \A schema \in DashboardSchemas : DashboardRow(schema) = ManagementRow(schema)
        /\ DashboardTotal("heatwave") =
               DashboardTotal("loaded") + DashboardTotal("partial") + DashboardTotal("not_loaded")
        /\ (\A t \in Tracked : SchemaOf[t] \notin SystemSchemas) =>
               /\ DashboardTotal("loaded") = Cardinality(InState("loaded"))
               /\ DashboardTotal("heatwave") - DashboardTotal("loaded") =
                      Cardinality(NotLoadedConfigured \cup
                          {row.table : row \in InState("partial") \cup InState("not_loaded")})

\* A configured or Lakehouse table that HeatWave does not have, or has not loaded,
\* when the page is made is never missing from the list of what to look at.
NothingOverlooked ==
    reading = "shown" =>
        \A t \in HTables :
            (\A row \in page.inventory : row.table = t => row.was \notin {"avail", "stale"}) =>
                /\ t \in page.configured => t \in NotLoadedConfigured
                /\ t \in page.lakehouse => t \in NeedAttention

\* The status of tables is truthful on every page: what it calls loaded was, its
\* views agree, and what is missing from HeatWave is among what to look at.
StatusTruthful == LoadedIsAvailable /\ ViewsAgree /\ NothingOverlooked
=============================================================================
