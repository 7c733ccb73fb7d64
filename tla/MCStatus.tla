------------------------------ MODULE MCStatus ------------------------------
(* What is read step by step while others change it, in one run of TLC:    *)
(* jobs (MysqlshJobs), the status of HeatWave tables (HeatWaveStatus), a   *)
(* bucket page by page (ExternalLakehouse), the files of an update         *)
(* (UpdateRepo) and the text of scripts, which nobody changes              *)
(* (SqlText).  The modules share no variable and no property speaks of two *)
(* of them, so part picks the one that moves while the others keep an      *)
(* initial state: all behaviours of each are there, without the product of *)
(* their states.                                                           *)
EXTENDS MCMysqlshJobs, HeatWaveStatus, ExternalLakehouse, SqlText, UpdateRepo

VARIABLE part

\* The third table is in another schema.
TwoSchemas == [t \in HTables |-> IF t = "x3" THEN "s2" ELSE "s1"]

\* Servers that report one column, or stamps alone; one Lakehouse table.
HeatWaveStart ==
    /\ HeatWaveInit
    /\ lakehouse = {"x1"}
    /\ rpd \in [HTables -> {Absent, Available, [state |-> "loading", progress |-> 5000]}]
    /\ server.unit = "fraction" => "progress" \in server.columns
    /\ server.words = "plain" => server.columns = {"status"}
    /\ "stamps" \in server.columns => server.columns = {"stamps"}
HeatWavePinned ==
    /\ server = [columns |-> {"stamps"}, unit |-> "percent", words |-> "rpd"]
    /\ configured = {} /\ lakehouse = {} /\ rpd = [t \in HTables |-> Absent]
    /\ moves = 0 /\ page = NoPage /\ reading = "inventory"

\* Folders in a folder, a file beside them and one outside the profile's prefix.
BucketNames == <<<<"a", "">>, <<"a", "1">>, <<"a", "b", "e", "2">>, <<"a", "c", "">>,
                 <<"a", "c", "2">>, <<"a", "c", "3">>, <<"d", "6">>>>
BucketPrefix == <<"a">>
MostNames == {names \in SUBSET Objects : Cardinality(Objects \ names) <= 1}

\* The readers share their reading of quotes and comments: the others are given the
\* characters that hide a mark, and all of them are in the texts that are split.
Hiding == {"a", "space", "quote", "-", "/", "*"}
FewCharacters(text) ==
    reader = "split" \/ \A k \in DOMAIN text : text[k] \in Hiding \cup Marks[reader]

\* A text of which nothing is left to read.
TextPinned ==
    /\ reader = "split" /\ ahead = <<>>
    /\ scanner = [mode |-> "plain", escaped |-> FALSE]
    /\ counts = [depth |-> 0, commas |-> 0, returned |-> FALSE]
    /\ lexer = [state |-> "plain", nesting |-> 0, commas |-> 0]

RepoPinned ==
    /\ head = [p \in Paths |-> "old"] /\ upstream = head /\ tree = head
    /\ private = {} /\ at = "done" /\ result = "none"
    /\ waiting = {} /\ file = NoPath /\ preserved = NoBackup /\ leftover = {} /\ pulled = FALSE
    /\ latest = NoBackup /\ overtaken = {} /\ present = {} /\ updates = 0

StatusInit ==
    /\ part \in {"jobs", "heatwave", "lakehouse", "text", "repository"}
    /\ Init
    /\ IF part = "heatwave" THEN HeatWaveStart ELSE HeatWavePinned
    /\ LakehouseInit /\ IF part = "lakehouse" THEN bucket \in MostNames ELSE bucket = {}
    /\ IF part = "text" THEN TextInit /\ FewCharacters(ahead) ELSE TextPinned
    /\ IF part = "repository" THEN RepoInit ELSE RepoPinned

\* PARs expire between requests, once jobs are over; in jobs_crash.cfg at any time.
JobsMove ==
    /\ part = "jobs" /\ Next
    /\ expired' # expired => /\ \A t \in Threads : pc[t] = "idle"
                            /\ \A j \in Jobs : job[j].status \in FINAL_STATUSES
    /\ UNCHANGED <<heatwaveVars, lakehouseVars, textVars, repoVars, part>>

HeatWave(A) ==
    part = "heatwave" /\ A /\ UNCHANGED <<vars, lakehouseVars, textVars, repoVars, part>>
HeatWaveMoves ==
    \/ HeatWave(ReadInventory) \/ HeatWave(ReadConfigured) \/ HeatWave(ReadLakehouse)
    \/ HeatWave(NextPage)
    \/ \E t \in HTables : HeatWave(RpdChanges(t)) \/ HeatWave(Configure(t))

Bucket(A) ==
    part = "lakehouse" /\ A /\ UNCHANGED <<vars, heatwaveVars, textVars, repoVars, part>>
LakehouseMoves ==
    \/ \E folder \in Folders :
          \/ \E populated \in BOOLEAN : Bucket(OpenLoad(folder, populated))
          \/ \E name \in Objects : Bucket(OpenUploads(folder, name))
    \/ \E name \in Objects : Bucket(OtherChanges(name))
    \/ Bucket(MakeFolder) \/ Bucket(PutObject) \/ Bucket(HeadObject)
    \/ Bucket(FolderPage) \/ Bucket(FilePage) \/ Bucket(CallFails)

Text(A) ==
    /\ part = "text" /\ A /\ FewCharacters(ahead')
    /\ UNCHANGED <<vars, heatwaveVars, lakehouseVars, repoVars, part>>
TextMoves ==
    \/ Text(SplitStatements) \/ Text(ExtractVariable) \/ Text(SplitArguments) \/ Text(FindSpan)

Repo(A) ==
    part = "repository" /\ A /\ UNCHANGED <<vars, heatwaveVars, lakehouseVars, textVars, part>>
RepoMoves ==
    \/ Repo(BeginUpdate) \/ Repo(HardenFirst) \/ Repo(CheckWorktree) \/ Repo(Fetch)
    \/ Repo(GiveBack) \/ Repo(Pull) \/ Repo(PullFails) \/ Repo(CopyBack) \/ Repo(PutBackEnds)
    \/ Repo(StepFails) \/ Repo(WorkerKilled)
    \/ \E p \in Paths : Repo(BackUp(p)) \/ Repo(Unlink(p)) \/ Repo(WebSaves(p))
    \/ \E ended \in {"completed", "setup"} : Repo(Setup(ended))

StatusSpec ==
    /\ StatusInit
    /\ [][JobsMove \/ HeatWaveMoves \/ LakehouseMoves \/ TextMoves \/ RepoMoves]_<<vars,
          heatwaveVars, lakehouseVars, textVars, repoVars, part>>
=============================================================================
