----------------------------- MODULE UpdateRepo -----------------------------
(***************************************************************************)
(* The repository under an update (dbconsole_update_worker.py).            *)
(*                                                                         *)
(* The deployment is a git checkout that also holds local state: profiles, *)
(* keys, the runtime environment.  An update refuses a worktree with other *)
(* changes, copies the tracked local state that differs from HEAD aside,   *)
(* lets git put HEAD in its place, pulls, and copies the local state back. *)
(* A command may fail, the worker may be killed, and the web application   *)
(* saves local state meanwhile.                                            *)
(*                                                                         *)
(* UpdateJob has the status file of the same worker.  The index is taken   *)
(* to equal HEAD: nothing is staged.                                       *)
(***************************************************************************)
EXTENDS Naturals

CONSTANTS
    Paths,        \* files of the checkout
    Allowed,      \* is_allowed_local_state_path
    Ignored,      \* listed in .gitignore
    Hardened,     \* files whose mode harden_local_deployment_state repairs
    Missing,      \* there is no such file
    NoPath,       \* no file is being handled
    MaxUpdates,   \* bound: updates run one after the other
    RepoFaults    \* what goes wrong in this instance

ASSUME RepoAssumption ==
    /\ Hardened \subseteq Allowed
    /\ Allowed \subseteq Paths
    /\ Ignored \subseteq Paths
    /\ NoPath \notin Paths
    /\ Missing \notin {"old", "new", "local", "saved"}
    /\ RepoFaults \subseteq {"git_error", "io_error", "killed", "web_save"}

Contents == {"old", "new", "local", "saved", Missing}

VARIABLES
    head,       \* [Paths -> Contents]: the commit that is checked out
    upstream,   \* [Paths -> Contents]: the commit to pull
    tree,       \* [Paths -> Contents]: the worktree
    private,    \* paths whose file only its owner can read
    at,         \* where the worker is, "done" before and after an update
    waiting,    \* paths the current loop has still to handle
    file,       \* the path it handles
    preserved,  \* [Paths -> Contents]: the backup directory of this update
    pulled,     \* git pull has succeeded
    leftover,   \* <<path, content>>: backup directories of updates that were cut
    result,     \* how the last update ended: completed, killed, or the point where it failed
    latest,     \* history: [Paths -> Contents], the local content last saved
    overtaken,  \* history: paths saved between their backup and their return
    present,    \* history: paths whose latest content the update finds in the worktree
    updates     \* updates begun

commits == <<head, upstream>>
checkout == <<tree, private>>
loop == <<waiting, file, preserved, pulled>>
ends == <<leftover, result>>
record == <<latest, overtaken, present, updates>>
repoVars == <<commits, checkout, at, loop, ends, record>>

NoBackup == [p \in Paths |-> Missing]

\* Paths whose local content is in the worktree as it was last saved.
InPlace == {p \in Paths : latest[p] # Missing /\ tree[p] = latest[p]}

\* What .gitignore lists is not added upstream.
RepoInit ==
    /\ head \in [Paths -> {"old", Missing}]
    /\ upstream \in [Paths -> {"old", "new", Missing}]
    /\ \A p \in Paths : upstream[p] = "old" => head[p] = "old"
    /\ \A p \in Ignored : head[p] = Missing => upstream[p] = Missing
    /\ tree \in [Paths -> {"old", "local", Missing}]
    /\ \A p \in Paths : tree[p] = "old" => head[p] = "old"
    /\ private = {}
    /\ at = "done" /\ result = "none"
    /\ waiting = {} /\ file = NoPath
    /\ preserved = NoBackup /\ leftover = {}
    /\ pulled = FALSE
    /\ latest = [p \in Paths |-> IF tree[p] = "local" THEN "local" ELSE Missing]
    /\ overtaken = {} /\ present = {}
    /\ updates = 0

-----------------------------------------------------------------------------
(* git.                                                                    *)

InHead(p) == head[p] # Missing

\* git status --porcelain.
StatusLines == {p \in Paths : tree[p] # head[p] /\ (InHead(p) \/ p \notin Ignored)}

\* The files git pull --ff-only has to change, and whether it may.
Changed == {p \in Paths : head[p] # upstream[p]}
PullApplies == \A p \in Changed : tree[p] \in {head[p], upstream[p]}

-----------------------------------------------------------------------------
(* The worker.                                                             *)

Go(from, to) == at = from /\ at' = to

BeginUpdate ==
    /\ Go("done", "harden")
    /\ updates < MaxUpdates
    /\ updates' = updates + 1
    /\ result' = "none"
    /\ present' = InPlace
    /\ UNCHANGED <<commits, checkout, loop, leftover, latest, overtaken>>

\* harden_local_deployment_state.
Harden == private' = private \cup {p \in Hardened : tree[p] # Missing}

\* Mutant of HardenFirst: the modes are repaired after the pull only.
HardenLater ==
    /\ Go("harden", "check")
    /\ UNCHANGED <<commits, checkout, loop, ends, record>>

HardenFirst ==
    /\ Go("harden", "check")
    /\ Harden
    /\ UNCHANGED <<commits, tree, loop, ends, record>>

\* ensure_clean_worktree; git fetch; then the paths that
\* preserve_allowed_local_state_for_pull lists.
CheckWorktree ==
    LET clean == StatusLines \subseteq Allowed IN
    /\ at = "check"
    /\ at' = IF clean THEN "fetch" ELSE "done"
    /\ result' = IF clean THEN result ELSE "check"
    /\ UNCHANGED <<commits, checkout, loop, leftover, record>>

Fetch ==
    /\ Go("fetch", "preserve")
    /\ waiting' = {p \in StatusLines : p \in Allowed /\ InHead(p)}
    /\ file' = NoPath
    /\ preserved' = NoBackup
    /\ pulled' = FALSE
    /\ UNCHANGED <<commits, checkout, ends, record>>

\* The loop of preserve: copy a file aside and only then give it back to git.  The
\* code takes the paths in sorted order, the model in any.
BackUp(p) ==
    /\ Go("preserve", "give_back")
    /\ p \in waiting
    /\ file' = p
    /\ preserved' = [preserved EXCEPT ![p] = tree[p]]
    /\ UNCHANGED <<commits, checkout, waiting, pulled, ends, record>>

\* git restore writes the file anew, with the mode git gives it.
GiveBack ==
    /\ Go("give_back", "preserve")
    /\ tree' = [tree EXCEPT ![file] = head[file]]
    /\ private' = private \ {file}
    /\ waiting' = waiting \ {file}
    /\ file' = NoPath
    /\ UNCHANGED <<commits, preserved, pulled, ends, record>>

\* The items that existed.
Kept == {p \in Paths : preserved[p] # Missing}

Pull ==
    /\ Go("preserve", "put_back")
    /\ waiting = {}
    /\ PullApplies
    /\ pulled' = TRUE
    /\ head' = upstream
    /\ tree' = [p \in Paths |-> IF p \in Changed THEN upstream[p] ELSE tree[p]]
    /\ private' = private \ Changed
    /\ waiting' = Kept
    /\ UNCHANGED <<upstream, file, preserved, ends, record>>

\* Mutant of PullFails: the error leaves run at once.
PullFailsAtOnce ==
    /\ Go("preserve", "done")
    /\ waiting = {}
    /\ ~PullApplies \/ "git_error" \in RepoFaults
    /\ result' = "pull"
    /\ UNCHANGED <<commits, checkout, loop, leftover, record>>

\* The except branch puts the local state back, too.
PullFails ==
    /\ Go("preserve", "put_back")
    /\ waiting = {}
    /\ ~PullApplies \/ "git_error" \in RepoFaults
    /\ waiting' = Kept
    /\ UNCHANGED <<commits, checkout, file, preserved, pulled, ends, record>>

\* restore_allowed_local_state_after_pull, file by file: unlink, copy2.
Unlink(p) ==
    /\ Go("put_back", "copy_back")
    /\ p \in waiting
    /\ file' = p
    /\ tree' = [tree EXCEPT ![p] = Missing]
    /\ UNCHANGED <<commits, private, waiting, preserved, pulled, ends, record>>

\* Mutant of CopyBack: copies the content without the mode.
CopyBackContent ==
    /\ Go("copy_back", "put_back")
    /\ tree' = [tree EXCEPT ![file] = preserved[file]]
    /\ private' = private \ {file}
    /\ waiting' = waiting \ {file}
    /\ file' = NoPath
    /\ UNCHANGED <<commits, preserved, pulled, ends, record>>

\* The backup had the mode of a hardened file.
CopyBack ==
    /\ Go("copy_back", "put_back")
    /\ tree' = [tree EXCEPT ![file] = preserved[file]]
    /\ private' = IF file \in Hardened THEN private \cup {file} ELSE private
    /\ waiting' = waiting \ {file}
    /\ file' = NoPath
    /\ UNCHANGED <<commits, preserved, pulled, ends, record>>

\* The backup directory goes once everything is back; setup.sh runs after a pull.
PutBackEnds ==
    /\ at = "put_back" /\ waiting = {}
    /\ Harden
    /\ preserved' = NoBackup
    /\ at' = IF pulled THEN "setup" ELSE "done"
    /\ result' = IF pulled THEN result ELSE "pull"
    /\ UNCHANGED <<commits, tree, waiting, file, pulled, leftover, record>>

Setup(ended) ==
    /\ Go("setup", "done")
    /\ ended = "setup" => "git_error" \in RepoFaults
    /\ result' = ended
    /\ Harden
    /\ UNCHANGED <<commits, tree, loop, leftover, record>>

\* Mutant of Leftover: the temporary directory is removed on every way out.
NothingLeftOver == UNCHANGED leftover

\* Nothing else removes the backup directory.
Leftover == leftover' = leftover \cup {<<p, preserved[p]>> : p \in Kept}

\* An exception of git fetch, of preserve (outside the try of the pull) or of restore.
\* main answers the error with the failed command, and knows nothing of the files
\* handled so far.
StepFails ==
    /\ \/ at \in {"fetch", "give_back"} /\ "git_error" \in RepoFaults
       \/ at = "preserve" /\ waiting # {} /\ "io_error" \in RepoFaults
       \/ at = "copy_back" /\ "io_error" \in RepoFaults
    /\ at' = "done"
    /\ result' = at
    /\ Leftover
    /\ preserved' = NoBackup
    /\ waiting' = {} /\ file' = NoPath
    /\ UNCHANGED <<commits, checkout, pulled, record>>

WorkerKilled ==
    /\ "killed" \in RepoFaults
    /\ at \notin {"done", "harden"}
    /\ at' = "done"
    /\ result' = "killed"
    /\ Leftover
    /\ preserved' = NoBackup
    /\ waiting' = {} /\ file' = NoPath
    /\ UNCHANGED <<commits, checkout, pulled, record>>

\* A copy of the file has been taken, and the file is not back yet.
CopiedAside(p) == p \in Kept \/ (at = "give_back" /\ file = p)

\* Bound: the web application saves each file once.  It renames a private copy.
WebSaves(p) ==
    /\ "web_save" \in RepoFaults
    /\ p \in Allowed /\ latest[p] # "saved"
    /\ tree' = [tree EXCEPT ![p] = "saved"]
    /\ latest' = [latest EXCEPT ![p] = "saved"]
    /\ private' = private \cup {p}
    /\ overtaken' = IF CopiedAside(p) THEN overtaken \cup {p} ELSE overtaken
    /\ present' = IF CopiedAside(p) THEN present \ {p} ELSE present \cup {p}
    /\ UNCHANGED <<commits, at, loop, ends, updates>>

RepoNext ==
    \/ BeginUpdate \/ HardenFirst \/ CheckWorktree \/ Fetch \/ GiveBack
    \/ Pull \/ PullFails \/ CopyBack \/ PutBackEnds \/ StepFails \/ WorkerKilled
    \/ \E p \in Paths : BackUp(p) \/ Unlink(p) \/ WebSaves(p)
    \/ \E ended \in {"completed", "setup"} : Setup(ended)

RepoSpec == RepoInit /\ [][RepoNext]_repoVars

-----------------------------------------------------------------------------

\* Whatever fails, and wherever the worker is killed: local content that git does
\* not have is in the worktree or in a backup directory, unless it was saved over
\* the absence of the file it replaces.
NothingLost ==
    \A p \in Paths \ overtaken :
        latest[p] # Missing =>
            \/ latest[p] \in {tree[p], preserved[p]}
            \/ <<p, latest[p]>> \in leftover

\* The points whose failure leaves files aside: git restore, a copy to the backup
\* directory, and a copy back from it.
Handling == {"give_back", "preserve", "copy_back"}

\* An update that completes, and one that answers the error of any other command
\* (the worktree check, fetch, pull, setup), leaves every local file it found as
\* it found it or as it was saved since.  The error of a command in Handling is
\* answered as well, but files may then be at HEAD, or missing, as after a kill.
StateRestored ==
    at = "done" /\ result \notin Handling \cup {"killed"} =>
        \A p \in present : tree[p] = latest[p]

\* After the first hardening no local content of a private file is readable by
\* others, although git writes files with its own mode and the copies go both ways.
LocalStatePrivate ==
    at \notin {"done", "harden"} \/ result # "none" =>
        \A p \in Hardened : tree[p] \in {"local", "saved"} => p \in private

\* Local state survives an update, whichever command fails: none of it is lost (it
\* is in the worktree or in a backup directory), it is back in the worktree unless
\* the commands that handle it fail, and it stays private on the way
\* (preserve_allowed_local_state_for_pull and its restore).
LocalStateSafe == NothingLost /\ StateRestored /\ LocalStatePrivate
=============================================================================
