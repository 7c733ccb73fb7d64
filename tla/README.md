# Verification of DB Console

TLA+ specifications of DB Console (the Flask application of `app.py`,
`modules/` and `dbconsole_update_worker.py`), the configurations that check them
with TLC, and theorems about them that TLAPS checks. Paths without a directory
are below `modules/` of the repository.

Run `tlc -config X.cfg M` for a run and `tlapm M.tla` on the modules named
`..._proofs` for the proofs.
`PROJECT.json` lists components, runs, mutants, hazards, findings, theorems and,
for each definition, the lines of code it stands for.

## 1. The system

DB Console is one gunicorn worker process with eight threads. State lives in

- private files, mode 0600, replaced by rename (`runtime_util.py`), some of them
  rewritten under a file lock (`flock`), most read without one;
- dictionaries of the web process (server sessions, login failures), guarded by
  thread locks, and the browser's signed cookie;
- Object Storage: buckets, and Pre-Authenticated Requests (PARs) that give access
  to one prefix of a bucket;
- the MySQL servers it manages.

Long work is done by processes it starts and loses sight of: one worker per MySQL
Shell job, which starts `mysqlsh`, and one worker for an update of the
application.

| Component | State | Operations | What is hard |
|---|---|---|---|
| MySQL Shell jobs (`mysqlsh_jobs.py`, `mysqlsh_job_worker.py`, `mysqlsh_python_runner.py`) | `job.json`, the request file with the database password, processes | submit, list (sweep and purge), cancel, clean up; worker and mysqlsh | every request sweeps from stale reads; four parties finalize a PAR; workers and the web process die |
| Review, PAR registry, option profiles (`mysqlsh_routes.py`, `mysqlsh_par_store.py`, `mysqlsh_option_profiles.py`, `mysqlsh_configuration_routes.py`) | one review per server session, registry and profile files | preview, submit, create, revoke, purge, save, delete | tabs share the review; lost updates; a PAR exists before it is registered |
| Auto-update (`update_util.py`, `update_service.py`, `dbconsole_update_worker.py`) | one status file | start, poll, worker steps, restart | everybody overwrites the whole file from an old copy; zombies; a restart that never happens |
| Sessions and MySQL connections (`session_util.py`, `mysql_util.py`, `query_service.py`) | registry of sessions, one cached connection each, cookie | login, logout, borrow, clean-up | entries are closed while borrowed, cookies are stale, connections fail |
| DB admin (`db_admin_queries.py`, `mysql_pages.py`) | tables and events on the server | DDL sequences, one ALTER from a form, bulk changes of events | each DDL commits; plans and selections go stale; names swap |
| HeatWave (`heatwave_pages.py`, `heatwave_routes.py`) | tables on the server | load, unload, exclude columns, status pages | two statements, the second may fail; three queries at three moments |
| File import (`mysql_import.py`) | plan files, tables | plan, run, clean up | plan files are written in place; DDL commits |
| Login limiter (`auth_routes.py`) | failures per address and user | check, record, clear | check and record are apart |
| Stores (`profile_store.py`, `object_storage_util.py`, `config_services.py`) | profiles, OCI keys | edit | no lock; two files for one thing |
| OCI client (`oci_util.py`) | none | PARs, uploads, listings | paging while others change the bucket, 404 as success |
| SQL workspace (`sql_workspace.py`) | the connection's session, history in the cookie | run, explain | a lexer of its own; session variables outlive the request; tabs share a cookie |
| Option forms (`mysqlsh_option_form.py`) | none | show, build, merge | an option lost or changed on the way |
| Dashboards, monitoring, status variables | none | reports | pure classification |
| Wiring (`app.py`), scripts, templates | none | - | - |

They interact as follows. A page request finds its session entry and borrows its
MySQL connection. The Dump/Load page reads option profiles and the registry,
keeps a review in the session, and submits a job, whose worker later revokes the
PAR and removes it from the registry. The PAR page revokes PARs too. An update
refuses to start while jobs are active, and ends by replacing the web process.

The properties that make the components correct, whether or not they are checked
yet: a job's recorded result, PAR and secrets agree with what really happened,
and every job ends; a job is what its preview displayed; a live PAR can be found;
an update reports completion only of completed work, and ends; a connection is
used by one request at a time, on its own server; a DDL sequence that fails
reports what it left behind; an edit of a store is kept unless another overlaps it;
what a page says, a form submits or a scanner reads is what the server has, gets
and reads.

## 2. The modules

The modules named `..._proofs` extend the modules they have theorems about;
`MC...` modules instantiate for TLC. Common conventions: a thread is at a point
`pc[t]` (or a request at `.at`), every unlocked read, every locked rewrite and
every remote call is a step of its own, `Requests` (`Works`) says which requests
occur in an instance and `Faults` which failures. Comments that start with "Mutant
of" mark plausible bugs that the properties are known to notice; they are part of
no next-state relation.

Every component is a module of its own with variables of its own. Four `MC`
modules put several of them into one run of TLC:

| Module | Components | What they have in common |
|---|---|---|
| `MCStatus` | MysqlshJobs, HeatWaveStatus, ExternalLakehouse, UpdateRepo, SqlText | read step by step while others change it |
| `MCStores` | MysqlshJobs, ConfigStores, SchemaAdmin, EventAdmin | changed by several requests |
| `MCPages` | Submission, OptionForm, SqlWorkspace, LoginLimiter, ImportColumns, TableEdits | sent from a page |
| `MCImports` | SessionPool, ImportPlans | what an import lives on |

There a variable `part`, chosen in the initial state and never changed, picks the
component that moves; the others keep an initial state. That loses nothing: the
components in one bundle share no variable, and no property speaks of two of
them, so a behaviour of the conjunction violates a property only if the
projection on one component does. An operator with a short name (`HeatWave(A)`,
`Repo(A)`) is a component's action with everything else unchanged, so that TLC
counts each action by itself. Interactions between components are inside modules
(a PAR in MysqlshJobs and Submission, the cached connection in SessionPool, an
import's commit there and its plan in ImportPlans). `MCMysqlshJobs`,
`MCSubmission`, `MCSessionPool` and `MCUpdateJob` hold definitions for one
component alone.

A property that is a conjunction (`ImportsSeparate`, `FormFits` and the like) has
named parts, each with its own comment and its own mutant in the module;
`PROJECT.json` lists one mutant per property.

### MysqlshJobs

`job` is what `job.json` holds of a job, `request` whether the request file
exists, `mysqlsh` and `pc[j]` are the two processes of job `j`. A thread keeps in
`snap` and `rows` what it has read. `SweepRead`/`SweepJudge` are
`_all_jobs`, `PurgeExpire`/`PurgeRemove` are `_purge_terminal_jobs`,
`Finalize...` is `finalize_job_par` as run by worker, sweep, cancel and clean-up
alike, `TakeSubmitLock` to `RecordWorkerPid` are `submit_job`, `Cancel...` is
`cancel_job`, `HandshakeEnds` to `RemoveRequest` the worker. `CheckVictim` to
`UnregisterVictim` are the revocation of the PAR page.

Abstractions: log files, progress and the redaction of output are left out. The
30 seconds after which a submitted job without a worker counts as dead
(`SubmissionStale`) have passed only when nobody is between metadata and PID.
`Age` (retention) waits until nothing is at work on the job. The test that a
process is alive is merged with the update that follows it where the liveness
run allows; reads are merged with updates where the code holds the job's lock.
When the worker cannot be started, the rewrite of the metadata is one step.
`Cancelable` is the set of jobs that users ask to cancel at some time; a behaviour of
the code is one of the model with the jobs that it cancels. Finalizers revoke with the
OCI profile stored in the job (`mysqlsh_jobs.py:68`, `:321`), the PAR page with the
default one (fault `lost_profile`: its revocation may be in vain, and the PAR page
drops the entry all the same).

`ParDisposal` is the abstract specification of what the job store promises about
PARs: a job is settled or dropped only when its PAR is physically of no use any
more, revoked at Object Storage or expired, and nothing is taken back. There is
one exception, found by the proof of the refinement: while a submission is
starting a job (`starting`), the PAR may be settled by a cancel, and if the worker
then cannot be started (`StartFails`), the metadata of a new job is written over
it and the record is lost; the PAR is still gone. The property `DisposesPars` is
its `Spec` under the mapping at the end of `MysqlshJobs`. `ArtifactsAfterPar` says
the same of files alone, and holds without exception because it speaks of the PAR
and not of the record.

### Submission

`par` is the state of each PAR at Object Storage, `registry` the registry file,
`profiles` the option profiles, `review` the review slot of the session. `Post`
to `SubmitRefused` are `mysqlsh_operations_page`; `Purge` and `PickPar` are
`list_pars`; `CreatePar`, `LockRegistry`, `RegisterWrite` are `create_par`;
`StartRevoke`, `Revoke`, `DropWrite` are `remove_par`. `shown`, the `id` of a job
and `leaked` are history. What can fail here does: an incomplete answer of Object
Storage and a registry that cannot be written (`RegistryFails`), a registry that cannot
be read and is taken for empty (`LockUnread`, and in `Purge` and `NoActivePar`), the
process (`WebCrash`). `Foreign` are the PARs that the default OCI configuration profile
does not see: the registry has forgotten the profile that made them, so their
revocation is answered with a 404, which counts as done, and the entry goes. A live PAR
leaves the registry in these three ways (`Risks`) and in no other, which is what
`LiveParsKnown` says.

Abstractions: a form is a PAR and a profile or options; operation, schemas and
target are part of what is compared, but there is one of each. The check of the
options, the purge and the edits of profiles are atomic where the code holds a
lock throughout or reads one file once. The check of `par_is_in_use` on the PAR
page and the look-up of the entry are one step. The end of a job does not touch
its PAR here; `MysqlshJobs` has that.

### UpdateJob

`status` is the status file, `seen` a thread's copy, `mem` a worker's copy.
`LoadStatus`, `Finalized` and the steps after it are `load_update_status`,
`start_update_job`; `WorkerStep` to `ReportRestarted` are `UpdateWorker.run`.
`process` counts web processes, `due` is a scheduled restart, `overdue` the 120
seconds. Abstractions: what each step runs; with two services the two are one web
process; every write of the status is a step, although two workers share one
temporary file; the commands of the version check.

### SessionPool

`active` and `idle` are the session registry, `cache` and `lock` an entry's
connection and lock, `conn` the connections, `cookie` the browser, `mine` a
request's copy of it. `CleanUp`, `CloseOne` are
`cleanup_expired_server_sessions`; `Reuse`, `OpenNew`, `OpenFails`, `UseFails`,
`GiveBack` are `borrow_connection`; `Clear`, `Create`, `Reply` are login and
logout. Abstractions: one browser, the last answer sets the cookie; taking the
entry's lock is merged with the test of the cached connection; several borrows of
one request are like several requests; of a connection's session variables only
`use_secondary_engine`.

### SchemaAdmin

`there`, `table`, `constraints` are the schema, `checks` the
`FOREIGN_KEY_CHECKS` of the connection that an administrator's session has
cached, `plan` the statements a request has still to execute. `PlanConversion`
is `modify_db_admin_charset_collation` up to its first statement, `PlanDropTables`,
`DropDatabase`, `PlanFixes`, `PlanModify`, `PlanLoad` and `PlanUnload` the other
handlers; `Execute` is one statement as MySQL executes it, committing by itself;
`CheckKey` is the look at the key before a fix; `Fail`, `FixFails`, `Answer` end
a request, `ProcessEnds` all of them. `told`, `cut` and `unchecked` are history.
Abstractions: columns are a character set, a primary key and an engine; a foreign
key joins one column each; two administrators.

### TableEdits

One `ALTER TABLE` from one form: `edit` is the table's key, its excluded columns
and the form, `altered` the answer. `ModifyColumns` is the handler of the column
form (names, positions, key), `ExcludeColumns` that of the excluded columns, both as functions
from form to clauses and from clauses to the table MySQL makes of them. The type,
default and comment that each clause repeats for its column are not modelled. All forms
over two columns, four names (two of which differ by case) and all keys are
initial states.

### EventAdmin

`event` is what the server has, `listed` an administrator's page, `serving` the
loop of the handler over the selection, one statement a step. The event scheduler
and other administrators drop and toggle events meanwhile.

### ImportPlans

`planFile` is the state of each plan file (`half`: created, not yet written),
`planCookie` the browser's cookie, `tab` a request with the copy of the cookie it
came with, `target` the table of the imports. `Unwanted` is what
`cleanup_expired_mysql_import_plans` finds, `RemoveFiles` what it removes, as `OpenImport`
and `LoadPlan` run it, and the other loads and saves in one step; `CreatePlan`
and `WritePlan` are the two steps of `write_new_private_text`; `Validate`, `CreateDatabase` to
`CommitRows` and `DeletePlan` are `run_mysql_import` and its route. Abstraction: a row is the
import it belongs to; every import goes to one table name. `tab.answered` is history:
the plans whose import had been answered when the request came. Requests that overlap
may each load a plan before one deletes it and import it several times, and so does a
request after a process that ended between the commit and the deletion; what holds is
`ImportedPlansSpent`, that the plan of an answered import is gone and no later request
has it. `target.replaced` is
whether any import that replaces has dropped the table so far, not whether its last
maker does: with three tabs, one without "Replace Table" may create the table
anew after another has dropped it, and a third that is still inserting finds it there.

### ImportColumns

An upload as a sheet of cells, from labels to stored rows: `Parse` (`parse_csv_upload`,
`parse_json_upload`), `Define` (`build_import_column_definitions`), the form with its
checks (`SubmitForm`, `validate_mysql_import_request`) and `Store`
(`_coerce_import_cell_value` and the server). A label is a word over a few letters, a
cell the kind of text or JSON value that the code tells apart. The form may change
names, types and NULLs as the user likes. `NoTable` lists why MySQL does not make the
table of a form: names, the key's types, and, as counts of VARCHAR(255) columns, the
room in a key and in a row (`KeyRoom`, `RowRoom`; the code looks at neither). Cells are
kinds, so two rows may repeat a key whenever there are two (`KeyMayRepeat`), and what
becomes of a value in a column whose type was changed is left open (`Retyped`): taken,
or refused.

### ConfigStores

`connections`, `objects` and `ociFiles` are the three stores, `sshKeys` the key
files, `editor` the requests; `FindMissing`, `MakeStore`, `LoadStore`,
`UploadKey`, `WriteStore`, `WriteOciKey`, `WriteOciConfig` are the reads and writes
of an edit in the order of the code. `latest` is what the last answered edits say,
`raced` the stores where two edits overlapped (one is lost there, section 6). Of the
names that edit connection profiles, each has a key directory of its own in the run; the
properties hold as well where two share one (checked with 3,387,063 states, which is
too slow for a run), and the theorems are for any `KeyDirOf`.

### LoginLimiter

`login_failures` is the dictionary, `attempt` logins between question and answer,
`failed` the failures that really happened. Time is in units of the block's length;
the map is thinned out at `MaxIdentities`. The map is one web process's: with several
of them, or after a restart, the bound holds for each.

### UpdateRepo

A checkout as functions from paths to contents: `head`, `upstream`, `tree`; the worker
of `UpdateJob` again, this time what its steps do to files: `HardenFirst`,
`CheckWorktree`, `Fetch`, `BackUp`, `GiveBack`, `Pull`, `Unlink`, `CopyBack`. A command
may fail or the worker be killed at each of them (`StepFails`, `WorkerKilled`); `result`
is the point where an answered error arose. `preserve_allowed_local_state_for_pull` is
called outside the `try` of `run`, so a `git restore` or a copy that fails between two
files is answered like any other error, with the files before it at HEAD; a failing copy
back leaves one missing. `StateRestored` excepts the errors of these commands
(`Handling`), by name, and `NothingLost` covers them: the backup directory is still
there. `WebSaves` is an administrator who saves a profile meanwhile. Assumption:
upstream does not begin to track a file that `.gitignore` lists.

### HeatWaveStatus

`rpd`, `configured` and `lakehouse` are the server, which changes between the three
queries of a page (`ReadInventory`, `ReadConfigured`, `ReadLakehouse`), each of
which may fail. What the page makes of the rows is in operators with the names of
the functions; versions of the server differ in columns, units and words.

### SqlText

The four scanners of `sql_workspace.py` (statement splitter, `sys.nl_sql`
arguments, spans, variables) against the server's lexer, over texts of any length:
`ahead` is what a scanner can see, `lexer` what the server makes of what was
consumed. The state space is finite because neither looks further. Not among the texts:
bodies of stored programs, which the splitter cuts at each ";", and control or Unicode
blanks behind "--".

### SqlWorkspace

A tab's request with the history it came with, the statements it runs, what it
appends and the answer that sets the cookie. A statement is its kind; "nl_sql" is a
call that the scan recognizes, every other call of the procedure is "sql", which the
server runs with all it generates (section 6).

### OptionForm

A stored dump profile, its form (`FormState`), the options built from it
(`Built`) and the options of a run (`Merged`). One field stands for each way in
which a field is read, shown or left out.

### ExternalLakehouse

`bucket` is the bucket, `view` the page's request: new folder and upload
(`MakeFolder`, `PutObject`, `HeadObject`), then `FolderPage` breadth first and
`FilePage`, a call each. A page of the service starts at a name and folds what
is deeper than the next "/" into a folder. Others put and remove objects
between any two calls.

## 3. The runs

| Run | Bounds | What it shows |
|---|---|---|
| `jobs_cancel` (`MCStatus`) | 1 job, 2 threads, 1 PAR that is kept; 3 tables in 2 schemas; 7 names in a bucket, pages of 2, 4 folders, 2 changes by others; 3 paths of a checkout, 2 updates; texts of any length, 1 open parenthesis | jobs: secrets go, success is true, a kept PAR stays; the status pages say of HeatWave tables what is so and agree; listings are whole or say so; an update keeps local state; the scanners read SQL as the server does |
| `jobs_crash` (`MCMysqlshJobs`) | 1 job, 2 threads, 1 delete-after-use PAR | crashes, Object Storage failures, expiry and the PAR page, whose revocation may be in vain: what is recorded of a PAR is true, files go after it, and the job store implements `ParDisposal` |
| `jobs_limits` (`MCStores`) | 2 jobs, limit 1; 2 editors, 3 names; 2 administrators, 2 tables, 1 foreign key; 3 events, 2 keys a selection | the active-job limits (`Cancelable = {}`, see section 5); edits are kept; what a DDL sequence leaves half-done is told; keys stay compatible; the answer of a bulk change of events is true |
| `jobs_live` | 1 job, 2 threads, worker crashes | every submitted job ends |
| `jobs_v_result` | 1 job, 1 thread | violated: a cancel overwrites a succeeded job |
| `jobs_v_policy` | 1 job, 1 thread | violated: a terminal status is published without the PAR policy |
| `submission` (`MCPages`) | 2 threads, 2 PARs, 1 profile with 2 contents, 2 previews; 2 objects in option lists; 2 tabs or 2 statements a script, history of 2; 2 identities, limit 3; all files of the instance; 2 columns, 4 names | jobs are what previews displayed; live PARs stay known but for three named ways to lose one; options come through the form; the history tells what ran; guesses are bounded; cells stay in their columns; forms take effect as submitted |
| `update_truth` | 2 threads, 2 workers, 1 restart | completion is never reported too early |
| `update_ends` | 1 worker | a running status ends, or its worker is dead and not yet reaped. One worker, and no fault in the middle of a start: see section 6 |
| `update_v_two` | 2 threads, 2 workers | violated: two updates at once |
| `pool_use` (`MCImports`) | 2 threads, 2 sessions, 2 connections, 2 profiles; 2 tabs, 2 plans | connections are exclusive, on the right server, never stray; imports are all or nothing, separate and whole; an imported plan is spent |
| `pool_v_engine` | 2 threads | violated: `ON` or `FORCED` is carried into another query |

Two threads are enough because every property is about a pair: a reader with an old copy
and a writer in between. A third party, where the code has one, is a process of its own
(worker, mysqlsh, the web process that dies) or an environment action (expiry, ageing).
One job is enough for the properties about a job; jobs meet only at the limits
(`jobs_limits`, two jobs and a limit of one) and at a shared PAR (section 6). Two
registry entries suffice to lose one by rewriting the other; one of the two is
`Foreign`. `submission` has one form, which names a profile that is edited all the time;
`MaxPreviews` is 2 so that a preview replaces another one. Symmetry is over threads,
workers, sessions and connections, and only in runs without liveness.

In the other modules: two tables and one foreign key are what one conversion can tear
apart, and a second administrator is whoever alters, drops or fixes in between.
`Profiles` and `Changes` in `MCStores` list the works that overlap in one behaviour:
groups that touch the same state, of SchemaAdmin in pairs and threes. Two columns
suffice to swap names and to reorder a key; pages of two names make every listing of the
bucket take several pages, with tokens in different folders that look alike. Two tabs
and two plans let one request sweep, use or overwrite what the other is making. Three
failures, a window of two blocks and a map of one entry let expiry, blocking, thinning
and logins in flight meet. Three paths are one of each kind: state git tracks, state it
ignores, and a file of a user's own. The bounds of time and counters (`LastMoment`,
`MaxUpdates`, `MaxChanges`, `MaxMoves`, `MaxEntries`, `MaxPages`, `MaxNesting`,
`MaxSelected`) cut behaviours off, not states out of the middle of one. Four
restrictions keep the bundled runs small. In `jobs_cancel` a PAR expires only when jobs
and requests are at rest, which `jobs_crash` does not ask; in `jobs_limits` no job is
old enough to be purged, which the other runs of MysqlshJobs have; in `submission` only
the PAR that the form names expires, and two tabs of the workspace run one plain
statement each while scripts and Explain have one tab; in `jobs_cancel` the texts that
are not split are made of the characters that can hide the mark their scanner looks for.

`CHECK_DEADLOCK FALSE` stands where identifiers are used up: job ids are never
reused and there are as many as the instance has, and an update needs a fresh
worker. The real system only runs out of them by the clock. The same holds of
the bounds above (the run `submission`, which has no deadlock otherwise, rests
when the history is full), and of a form, a file or a text that is one initial state and
ends when it has been worked off.

### Fairness

`jobs_live` (`FairSpec`): a thread that has a request continues and a process that runs
continues (`WF` of `ThreadStep`, `WorkerStep`); mysqlsh ends (`ShellStep`), by itself or
by the worker's timeout; and the jobs page is asked for again and again (`WF` of
`ListJobs`): the page refreshes itself, and nothing else in the code looks after a job
whose worker has died. No fairness of requests other than that, of crashes or of expiry.
`update_ends`: threads and workers continue, the status is polled (the timer of the
update page asks again whatever else the threads serve in between, hence `SF`), and time
passes. Nothing makes the web process reap a dead worker: the poll starts no subprocess
(`update_routes.py:54`), other pages do, if somebody opens one. So `UpdateEnds` says
that "running" ends or its worker is a zombie (`Unnoticed`), and that it ends where
zombies are reaped again and again. The scheduled restart need not happen.

## 4. The findings

- `ResultStaysAccurate`: `cancel_job` decides on an unlocked snapshot and merges
  "canceled" over a result recorded meanwhile.
- `PolicyBeforePublish`: a cancel in the middle of the worker's completion makes
  the PAR step a no-op, and the terminal status is published nevertheless.
- `OneUpdateAtATime`: a start reads and writes the status without a lock.
- `EngineNotCarried`: Explain leaves `use_secondary_engine` on the cached
  connection.

`PROJECT.json` quotes the sentences of the repository they contradict.

## 5. The proofs

All are for every value of the constants under the assumptions named in the
modules, and under hypotheses only where this section says so. Each inductive
invariant was checked with TLC on a run before it was proved.

**MysqlshJobs_proofs**: `TypeCorrect`, and `SettledParAlways`: a job that records its
PAR as revoked or expired is right about it. `SettledPar` is not inductive: a
finalizer between two of its steps knows things about the PAR that only its
program point says. The invariant `SettleInv` adds `FinalizerInv` (at `f_unregister`
the PAR is no longer in Object Storage, at `f_record` also not in the registry) and
`PurgeInv` (a purge that records expiry has seen it); nothing ever puts a PAR back.

**JobLifecycle_proofs** has the other theorems about what becomes of a job. They
share a frame: a step of one actor leaves the place and the locals of every other
alone, except that a submission starts a worker and a cancel kills one (`Frame`).

- `RetainedParsStay`: a PAR that is not to be deleted after use leaves Object
  Storage only by the PAR page. `RevokerInv`: whoever is about to revoke has seen
  that it may.
- `SuccessTruthful`: a job recorded as succeeded had a mysqlsh that succeeded.
  `LifeInv` follows a job from the identifier a submission has drawn (`OneDraft`:
  no two draw the same) to the verdict of its worker; no status is
  "succeeded" but by that verdict, whatever sweeps and cancels write over it.
- `SecretsRemoved`: the request file with the password is gone once a job is over
  and nobody is at work on it. `SecretInv`: as long as it exists, somebody is
  about to remove it. Hypothesis: neither the web process nor a worker crashes.
  It is needed: a worker killed between its last write to `job.json` and the removal leaves
  the file, and nothing looks for it again.
- `ArtifactsKept`: files are dropped only once the PAR is of no use any more,
  although clean-ups and purges decide from rows read earlier. `ReadsTrue`: what
  such a row says of a settled PAR stays true, for PARs do not come back.
- `JobsDisposePars`: the job store implements `ParDisposal`. Every step settles or
  drops at most one job, and that one has its PAR gone (`Disposes`); the two steps
  that write a new job's metadata are `Start` and `StartFails` of the abstract
  specification.

**JobLimits_proofs**: `LimitsHold`: the limits on active jobs hold for any numbers of
jobs, owners and threads. A submission sweeps, counts, and writes its job, all under the
submit lock; `Counted` says that every active job is in its list or still to be looked
at (`Accounted`), and that there is room when it has counted (`Room`). That a job which
left the list does not become active again needs `PidInv`: a sweep fails a job only when
no worker is at work on it. There is no hypothesis; the jobs counted are those outside
`Cancelable`, those that nobody ever asks to cancel, whatever cancels do to the others.
More does not hold, as TLC shows: a worker dies before its PID is recorded, a sweep
fails the job between a cancel's snapshot and its mark, and the mark makes the job
active again, after the submission has counted; or a cancel records "canceled" and the
worker's record that it runs overwrites it. The run checks the limits with `Cancelable =
{}`, where they speak of all jobs.

**Pages_proofs**, on Submission: `TypeCorrect`; `ReviewedAlways`: every job is what a
preview displayed, and each preview leads to one job at most; `LiveParsAlways`: a live
PAR is known, but for the ways of `Risks`. For the second, `ReviewInv` says that a
review is held by one of the session, a thread, or a job, and each holder has the plan
displayed. For the third, `RegistryInv` says that what a thread read under the lock is
still the file, unless it could not read it, and that an entry is dropped only after its
PAR is gone or was revoked in vain. On SqlWorkspace: `HistoryAlwaysSound`, for any tabs
and scripts. `WorkspaceInv` adds to the property how far a request at each step can have
come (`RunTrue`: what it has asked, executed and shown), so that the entry it writes at
the end is truthful, and that the history in the hands of a tab, which may be older than
the browser's, is itself in order: any of them may become the cookie. On OptionForm:
`OptionsAlwaysKept`, for any tables and any options that the form has no field for. The
form splits a profile into what has a field and what is edited as text; `Saved` says
what saving makes of it: each option in one of its parts, where it says something, and a
chunk size exactly when chunking is on. From such a profile the form shows what it saves
again. On TableEdits: `FormsTakeTheirEffect`, for any columns, names, keys and
positions, and forms of any age. The submitted key is a sorted sequence, and a sequence
without duplicates that is as long as a finite set is large goes through the whole set:
so the key has each selected column once.

**Status_proofs** is about what the console makes of what it reads.

- `TextReadAsServerReads` (SqlText), for texts of any length and nesting. A scanner looks
  ahead and the server does not, so in the middle of a mark they differ: `TextInv` says
  what the scanner knows of the characters ahead while the server has not decided about
  those behind (`PlainAgrees`: behind a "/" that counts as an operator there is no "*").
- `StatusIsTruthful` (HeatWaveStatus), for any tables and schemas. `HeatWaveInv`: what a row
  says was true when it was read, and each table has one row at most. That the pages agree
  is a sum over schemas: a table is counted in its schema only (`TotalCounts`).
  Hypothesis: no table in loading reports exactly one percent (`100 \notin PartProgress`),
  which is needed (section 6).
- `CellsStayInTheirColumns` and `FormsFit` (ImportColumns), for any files and any length
  of a name, and any form that a user makes of it. `ColumnInv` says what the upload is
  at each stage. What it rests on are the functions that go through a file: names given
  in turn are distinct as long as one is free (`InTurnDistinct`), and more numerals than
  names leave one free (`EnoughNumerals`); rows are left out without changing the others
  (`FilledRows`).
- `ListingsAreComplete` (ExternalLakehouse), for any names, bases and sizes of a page.
  `LakeInv` says of a listing of folders that each known folder that is not pending has
  all its folders known, and the first pending one those before the next page's start
  (`Walking`); it speaks of objects that stayed in the bucket since the listing began.
  `PageLists`: a page has everything from its start to the next page's, which starts
  later; hence no token of a folder comes twice, and "repeated" is never shown. Only a
  listing at its limit is cut off.

**Recovery_proofs** is about the three components whose question is what remains
after a cut.

- `TypeCorrect`, `SetupBeforeCompletion` and `RestartBeforeCompletion` (UpdateJob).
  `Truthful` says of any copy of the status, in the file or in the memory of a thread or
  worker, that it claims no more than has happened; nothing it relies on is ever taken
  back, so overwriting the file with an old copy keeps it true. Both need
  `"same_second" \notin Faults`: `restart_requested_at` is truncated to the second, and
  a web process started in that second, before the request, counts as the restarted one.
- `LocalStateSurvives` (UpdateRepo), for every checkout, with the exceptions that
  `StateRestored` names: `RepoInv` adds to the property that a backup is the content
  last saved, unless it was overtaken (`BackupsLatest`), and what each loop has done so
  far (`LoopInv`: before the pull, what waits has no backup yet; after it, what no
  longer waits is back).
- `DraftsAlwaysKept` and `ImportsStaySeparate` (ImportPlans), for any number of
  tabs and plans: `FilesForward` says that plan files move from "none" to "gone" and never
  back, so the plan a request has in hand (`PlanInHand`) stays one that was saved,
  and one that its answer calls imported is spent. `TableInv`: a table
  cannot be dropped while rows are pending, so a request that inserts has made the
  table or works on a replaced one. A first version of `RowsOfTheMaker` was false for
  three tabs, which TLC confirmed (section 2, ImportPlans).

**SessionPool_proofs**: all five invariants of SessionPool that `pool_use` checks (`PoolTypes`,
`UseIsExclusive`, `ServerIsOwn`, `NoneStray`, `ImportsAtomic`), from one
invariant, `PoolInv`. None is inductive alone: that two requests do not use
one connection rests on who holds the entry's lock (`LocksHeld`), on what that
request holds being what the entry caches (`HeldCached`), on one entry caching it
(`CacheSound`), and these on each other. `RowsPending` says whose rows a
connection has uncommitted. On LoginLimiter: `GuessesAlwaysCounted`, for any limit,
window, block and number of attempts (a finite set: threads of the web process).
`LimiterInv` says of each identity that its entry has the same recent failures as the
history, through expiry and the removal of stale entries (`Remembers`), and of each
failure that blocks that, while its block lasts, the failures from it on and the
attempts in flight are together no more than the attempts there are (`Dense`): nobody
is let in. So that many failures later it is a block later
(`BlocksApart`), and no more blocks than `(Window + Block - 1) \div Block` begin in a window.
The induction over an entry's failures (`RecentIs`: expiry leaves out a first part of
them) is by `LeastNat`, see below.

**Stores_proofs** is about what administrators change: SchemaAdmin, for any numbers of
administrators, tables and foreign keys (finite sets, which the inventory queries
answer), ConfigStores, for any names, rows and numbers of requests, and EventAdmin, for
any events and selections of any length.

- `HalfDoneIsAccounted`, `KeysStayCompatible` and the action property `FixesLeaveKeys`
  rest on `SchemaInv`. The statements a request has left are a plan, and `Planned` says
  what a plan looks like: its statements belong to one kind of work, a foreign key that
  it drops it recreates later (`Recreates`), and an engine is configured right before
  the load (`LoadsNext`). `HalfDoneAccounted` alone is not inductive: a plan that had
  only the `drop_fk` left would break it in one step. For loads, `LoadsInv` says that
  the load is all that is left of the plan. For the keys, checks are off only in a
  request that asked for it (`RequestInv`), and the cached connection that the next
  request uses has them on again.
- `FilesAlwaysConsistent` rests on `StoresInv`: what a request has read is itself a
  consistent file, whatever has been written since, so that replacing the file by a
  change of it keeps it one; and a key file, once written, stays.
- `EditsAlwaysKept` rests on `KeptInv`, the same for a file that is not there yet, and
  on `EditedRows`: each of the edits leaves the rows of other names, but for an empty
  DEFAULT that says nothing. It has the hypothesis `MissingIsNoFile`: the value that
  stands for "no file" is not one of the files. It is not an ASSUME of the module
  because TLC cannot enumerate the files, and every model value satisfies it. Names in
  lower case are their own lower case (`EditAssumption`).
- `EventsAlwaysAnswered` rests on `EventsInv`: a request has changed exactly the first of
  its keys, each once, and the others are left (`Done`). What it is given names events
  more than once; that the answer is true of what was sent rests on `EventKeysAre`: each
  key is there once, at the place where it comes first (`Firsts`). Without it, a request
  would fail over an event that it has dropped itself.
- What `Dropping` and `EventKeys` return (`DroppingIs`: the rows that are not gone, none
  twice that was not) is an induction over the length of their argument, without an
  induction theorem: `LeastNat`, from the library's theorem that < is well-founded, gives
  the least length at which it would fail. Both are recursive functions for this reason,
  as are the ones of ImportColumns.

Every invariant, every action property and the refinement that the passing runs check
are stated by a theorem. Only model-checked are the liveness properties (`JobsSettle`,
`UpdateEnds`), which need fairness and ENABLED. The properties of the four violated
runs are what the code does not keep (section 4). `jobs_cancel` does not check
`SettledPar` again: `jobs_crash` does without cancels, and the theorem holds with them.

## 6. Behaviour met while modelling that no run is about

Jobs, PARs and updates

- Two submissions may both find a delete-after-use PAR free (`ParFree`) and both
  submit; the first job to end revokes the PAR of the other.
- The PAR page may revoke a PAR between its check and a submission's.
- A crash between the request file and `job.json` leaves the file with the
  password, and no sweep finds it.
- When starting the worker fails, the metadata is written again as a whole, and
  a cancel recorded in between is forgotten (`mysqlsh_jobs.py:356`), with the
  revocation of the PAR that it had recorded (`StartFails` of ParDisposal).
- A cancel that marks a job after a sweep has failed it makes it active again, and a
  worker that starts after a cancel has recorded "canceled" records "running"; either
  way the limit may be exceeded (section 5, `LimitsHold`).
- An update whose start dies between its two writes stays "starting" without a
  PID; every later start is refused.
- A poll writes back an old copy of the status over a newer one; `UpdateEnds` shows that
  it recovers.
- While only the page that polls is open, a worker that died without a word stays a
  zombie, its PID answers (`update_util.py:52`), and "running" stands until somebody
  opens a page that runs a subprocess.
- `restart_requested_at` is truncated to the second (`update_util.py:114`); a web
  process started in that second counts as the restarted one.
- A job may be submitted between the update's look at the jobs and its launch
  (`update_service.py:67`), and two workers share one temporary status file
  (`dbconsole_update_worker.py:90`).
- A PAR whose creation is cut off before it is registered, by a crash, an incomplete
  answer or a registry that cannot be written, stays until it expires. So do all PARs of
  a registry that cannot be read for a moment: it counts as empty (`mysqlsh_par_store.py:92`),
  and the next write replaces it.
- The registry forgets the OCI profile of a PAR (`mysqlsh_par_store.py:53` to 68), so the
  PAR page revokes with the default one, and takes the 404 of a PAR that this profile
  does not see for a revocation (`oci_util.py:197`): the PAR stays live and its entry
  goes. `version_history.md:56` says that creation and revocation retain the selected
  profile.
- An update worker that is killed, and one whose `git restore` or copy fails between two
  files (`dbconsole_update_worker.py:317`, 641), leaves the files before it at HEAD, or
  one missing; the latter answers an error that does not say so. Their content is in a
  backup directory that nothing lists or removes; what an administrator saves while the
  backup is taken and put back is overwritten (`overtaken`).

Sessions and logins

- A request may open a connection in a session entry that has just been popped
  and closed; nothing closes it then (`session_util.py:148`).
- Logins in flight pass the limiter together: for each block that fits into the
  window as many guesses as requests overlap.

Schemas and events

- A charset conversion whose ALTER fails leaves foreign keys dropped (the
  error is shown; `templates/db_admin.html:627` says that they will be recreated).
- A bulk change of events that fails has changed the events before the one that
  it names; the check for system schemas is inside that loop. The same selection
  then fails at the first event it has already deleted.

Imports

- A plan file may be removed by another request while it is being written.
- Two posts of one plan that overlap (a double click, two tabs) both import it, and one
  sent again after the process ended between the commit and the deletion of the plan
  imports it a second time: with "Replace Table" once more, without it the second is
  refused, or its CREATE TABLE fails.
- Inference ignores integers beyond 64 bits, times with "Z" and the difference of bytes
  and characters; such a file is rolled back. Rows that repeat the chosen key roll it
  back as well. The form accepts names longer than 64 characters, keys and rows longer
  than InnoDB takes and types that MySQL does not know: the table is then not made, and
  with "Replace Table" the old one is gone. A CSV row longer than the header adds a
  label that may collide with an existing one. Names cut at 64 characters lose their
  suffix again, and the loop that looks for a free name (`mysql_import.py:438`) does not
  end.

Stores

- Of two edits of a store that overlap, one is lost.
- A profile whose save is refused has already replaced its key file
  (`admin_routes.py:50`); two names may share one key directory (`profile_store.py:56`).

Forms, workspace and SQL text

- A run that excludes Lakehouse tables also excludes one that the profile
  includes; renaming a profile on save keeps the old one.
- When a statement fails, the results of those before it are not shown. A comment
  behind the last ";" is executed as a statement. The history of one of two tabs
  that answer at once is lost. A statement that begins with WITH and deletes
  passes as a query. The workspace executes what `sys.nl_sql` generates, after a look at
its first word, only for a call that it recognizes: not behind a leading comment
(`sql_workspace.py:50`), with the name in backquotes or a comment before the
parenthesis (52, 219), with `execute` left to its default or written with escapes (306
to 323), or without a named variable (408 to 413). In these cases the server executes
what it generated by itself. No property is stated about the generated statement.
- The scanners do not know `/*! */`, a lone carriage return, `NO_BACKSLASH_ESCAPES` or
  quoted and system variables, and `sys.nl_sql(` is found by a regular expression, in
  comments and strings as well. The lexer of SqlText leaves them out, and with them the
  bodies of stored programs, which the splitter cuts at their semicolons, and control or
  Unicode blanks behind "--", which the server reads otherwise.

HeatWave and Object Storage

- A progress of 1 percent, reported as 1, is taken for the fraction 1 and the
  table for loaded. Statuses are searched for parts of words ("not_loaded"
  contains "loaded"). Tables whose names differ by case share one entry.
- A tree of 1000 folders or more is cut off silently (`oci_util.py:241`). After
  "create folder" the form keeps the name, so a second try nests a folder of that
  name. An upload that another one of the same size replaces is not noticed. The
  SQL in the text box may be older than the choices beside it.

## 7. Not modelled, and the plan

Not modelled: dashboards other than the HeatWave summary, monitoring and status
variables, which put one SQL answer into a page and keep no state; request guards (CSRF,
headers, access checks), which decide only whether a request is served; the
authentication of OCI clients and the validation of an upload's content; the definitions
and comments of columns that an ALTER repeats; log files, progress and redaction of
MySQL Shell output; the SQL text of Lakehouse loads; setup, start and container scripts,
templates and tests.

The plan is carried out, and no proof of it is left: what the passing runs check is
proved but for the two liveness properties, which stay with TLC (section 5).
