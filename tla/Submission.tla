----------------------------- MODULE Submission -----------------------------
(***************************************************************************)
(* From the Dump/Load page to a job: preview and submission of a MySQL     *)
(* Shell operation (modules/mysqlsh_routes.py), and the two private files  *)
(* it draws on, the registry of PARs (modules/mysqlsh_par_store.py) and    *)
(* the option profiles (modules/mysqlsh_option_profiles.py), with the      *)
(* pages that edit them (modules/mysqlsh_configuration_routes.py).         *)
(*                                                                         *)
(* The threads serve one server session, so its one review slot is shared  *)
(* by all of them.  A file is replaced as a whole: readers do not lock,    *)
(* and a writer rewrites under a file lock what it read under that lock.   *)
(***************************************************************************)
EXTENDS Integers, Sequences

CONSTANTS
    Threads,       \* web threads
    Entries,       \* registry entries, each with its PAR at Object Storage
    OneUse,        \* of these, the ones to delete after use
    Foreign,       \* PARs that the default OCI configuration profile cannot see
    Names,         \* option profiles
    Contents,      \* what an option profile, or the form, may hold
    NoName, NoContent, NoThread, NoReview, NoPlan, NoEntry,
    Forms,         \* what a form of the page may ask for
    MaxPreviews,   \* bound on the previews
    Requests,      \* the requests that occur in this instance
    Faults         \* the failures that occur in this instance

AllRequests == {"preview", "submit", "view", "create", "delete",
                "save", "drop_profile"}
SubmissionFaults == {"expiry", "oci_error", "refused", "web_crash", "io_error", "unreadable"}

ASSUME SubmissionAssumption ==
    /\ OneUse \subseteq Entries /\ Foreign \subseteq Entries
    /\ MaxPreviews \in Nat
    /\ Requests \subseteq AllRequests
    /\ Faults \subseteq SubmissionFaults

\* What is compared, and what the confirmation shows.
Plan == [entry : Entries, name : Names \cup {NoName}, options : Contents]
Reviews == 1 .. MaxPreviews
Review == [id : Reviews, plan : Plan, fresh : BOOLEAN]

\* A form names a PAR and either an option profile or options of its own.
ASSUME FormsAssumption == Forms \subseteq Plan

ASSUME NothingAssumption ==
    /\ NoName \notin Names /\ NoContent \notin Contents /\ NoThread \notin Threads
    /\ NoReview \notin Review /\ NoPlan \notin Plan /\ NoEntry \notin Entries

VARIABLES
    par,       \* [Entries -> "unused" | "live" | "expired" | "revoked"]
    registry,  \* the registry file: a set of entries
    profiles,  \* the profile file: [Names -> Contents or NoContent]
    parLock,   \* the thread that holds the registry's file lock
    review,    \* the review in the server session
    shown,     \* [Reviews -> Plan or NoPlan]: the previews displayed so far
    jobs,      \* jobs submitted: [id, plan], id the review taken for it
    active,    \* the indices of the active ones
    leaked,    \* history: <<entry, why>>: what has put the entry at risk of being lost
    pc,        \* [Threads -> Points]
    plan,      \* [Threads -> Plan or NoPlan]: the request's plan
    took,      \* [Threads -> Reviews or 0]: the review taken for it
    kind,      \* [Threads -> AllRequests]: the request
    entry,     \* [Threads -> Entries or NoEntry]: the PAR created or revoked
    rows       \* [Threads -> SUBSET Entries]: the registry as read

\* The creation ended between Object Storage and the registry; the revocation was in
\* vain; a writer of the registry could not read it.
Risks == {"unregistered", "in_vain", "unread"}

oci == <<par, registry, parLock>>
outcome == <<jobs, active>>
session == <<review, shown>>
locals == <<plan, took, kind, entry, rows>>
vars == <<oci, profiles, outcome, session, leaked, pc, locals>>

Points == {"idle", "purge", "pick", "plan", "use",
           "submit", "register", "append", "revoke", "drop", "remove"}

Init ==
    /\ par = [e \in Entries |-> "unused"] /\ registry = {} /\ parLock = NoThread
    /\ profiles = [n \in Names |-> NoContent]
    /\ review = NoReview /\ shown = [r \in Reviews |-> NoPlan]
    /\ jobs = <<>> /\ active = {} /\ leaked = {}
    /\ pc = [t \in Threads |-> "idle"]
    /\ plan = [t \in Threads |-> NoPlan]
    /\ took = [t \in Threads |-> 0]
    /\ kind = [t \in Threads |-> "view"]
    /\ entry = [t \in Threads |-> NoEntry]
    /\ rows = [t \in Threads |-> {}]

At(t, point) == pc[t] = point
Goto(t, point) == pc' = [pc EXCEPT ![t] = point]

\* The answer to a request; what the thread knew is forgotten.
Finish(t) ==
    /\ Goto(t, "idle")
    /\ plan' = [plan EXCEPT ![t] = NoPlan]
    /\ took' = [took EXCEPT ![t] = 0]
    /\ kind' = [kind EXCEPT ![t] = "view"]
    /\ entry' = [entry EXCEPT ![t] = NoEntry]
    /\ rows' = [rows EXCEPT ![t] = {}]

-----------------------------------------------------------------------------
(* The Dump/Load page: preview and submit.                                 *)

\* A POST with its form: the options are those of the profile as it is now, and
\* a profile that is gone is an error.
Post(t, action, p) ==
    /\ At(t, "idle")
    /\ p.name # NoName => profiles[p.name] # NoContent
    /\ Goto(t, "purge")
    /\ kind' = [kind EXCEPT ![t] = action]
    /\ plan' = [plan EXCEPT ![t] =
                   IF p.name = NoName THEN p ELSE [p EXCEPT !.options = profiles[p.name]]]
    /\ UNCHANGED <<oci, profiles, outcome, session, leaked, took, entry, rows>>

\* A GET drops the review, whichever tab it was displayed in; so does a login,
\* which starts another server session.
View(t) ==
    /\ At(t, "idle")
    /\ review' = NoReview
    /\ UNCHANGED <<oci, profiles, outcome, shown, leaked, pc, locals>>

Unexpired(read) == {e \in read : par[e] # "expired"}

\* A registry that cannot be read is taken for an empty one.
MayBeUnread == "unreadable" \in Faults

\* Listing PARs first removes the expired ones from the file, under its lock; of an
\* empty one there is nothing to remove, and nothing is written.
Purge(t) ==
    /\ At(t, "purge") /\ parLock = NoThread
    /\ registry' = Unexpired(registry) \/ (MayBeUnread /\ registry' = registry)
    /\ Goto(t, "pick")
    /\ UNCHANGED <<par, parLock, profiles, outcome, session, leaked, locals>>

\* The registry knows of expiry by the clock, of revocation not at all.
Active(e) == e \in registry /\ par[e] # "expired"

PickPar(t) ==
    /\ At(t, "pick") /\ Active(plan[t].entry)
    /\ Goto(t, "plan")
    /\ UNCHANGED <<oci, profiles, outcome, session, leaked, locals>>

NoActivePar(t) ==
    /\ At(t, "pick")
    /\ ~Active(plan[t].entry) \/ MayBeUnread
    /\ Finish(t)
    /\ UNCHANGED <<oci, profiles, outcome, session, leaked>>

Displayed(r) == shown[r] # NoPlan

Preview(t) ==
    /\ At(t, "plan") /\ kind[t] = "preview"
    /\ \E r \in Reviews :
        /\ ~Displayed(r) /\ \A q \in 1 .. r - 1 : Displayed(q)
        /\ shown' = [shown EXCEPT ![r] = plan[t]]
        /\ review' = [id |-> r, plan |-> plan[t], fresh |-> TRUE]
    /\ Finish(t)
    /\ UNCHANGED <<oci, profiles, outcome, leaked>>

\* The ten minutes of a review are over.
ReviewExpires ==
    /\ "expiry" \in Faults /\ review # NoReview /\ review.fresh
    /\ review' = [review EXCEPT !.fresh = FALSE]
    /\ UNCHANGED <<oci, profiles, outcome, shown, leaked, pc, locals>>

\* Mutant of Reviewed: any review will do.
ReviewedAny(t) == review # NoReview /\ review.fresh

\* The session's review, taken out of it.
Reviewed(t) ==
    /\ review # NoReview
    /\ review.plan = plan[t]
    /\ review.fresh

TakeReview(t) ==
    /\ At(t, "plan") /\ kind[t] = "submit" /\ Reviewed(t)
    /\ review' = NoReview
    /\ took' = [took EXCEPT ![t] = review.id]
    /\ Goto(t, "use")
    /\ UNCHANGED <<oci, profiles, outcome, shown, leaked, plan, kind, entry, rows>>

\* A review that does not fit is gone as well.
ReviewRejected(t) ==
    /\ At(t, "plan") /\ kind[t] = "submit" /\ ~Reviewed(t)
    /\ review' = NoReview
    /\ Finish(t)
    /\ UNCHANGED <<oci, profiles, outcome, shown, leaked>>

InUse(e) == \E i \in active : jobs[i].plan.entry = e

ParFree(t) ==
    /\ At(t, "use")
    /\ ~(plan[t].entry \in OneUse /\ InUse(plan[t].entry))
    /\ Goto(t, "submit")
    /\ UNCHANGED <<oci, profiles, outcome, session, leaked, locals>>

ParTaken(t) ==
    /\ At(t, "use")
    /\ plan[t].entry \in OneUse /\ InUse(plan[t].entry)
    /\ Finish(t)
    /\ UNCHANGED <<oci, profiles, outcome, session, leaked>>

Submit(t) ==
    /\ At(t, "submit")
    /\ jobs' = Append(jobs, [id |-> took[t], plan |-> plan[t]])
    /\ active' = active \cup {Len(jobs) + 1}
    /\ Finish(t)
    /\ UNCHANGED <<oci, profiles, session, leaked>>

\* A load not confirmed, Object Storage without an answer, the limits of active
\* jobs, or a worker that does not start.
SubmitRefused(t) ==
    /\ pc[t] \in {"use", "submit"} /\ "refused" \in Faults
    /\ Finish(t)
    /\ UNCHANGED <<oci, profiles, outcome, session, leaked>>

\* A job ends.  That its PAR is then revoked and leaves the registry the same
\* way as below is in MysqlshJobs.
JobOver ==
    /\ \E i \in active : active' = active \ {i}
    /\ UNCHANGED <<oci, profiles, jobs, session, leaked, pc, locals>>

-----------------------------------------------------------------------------
(* The PAR page.                                                           *)

\* The PAR exists before the registry knows of it.
CreatePar(t) ==
    /\ At(t, "idle")
    /\ \E e \in Entries :
        /\ par[e] = "unused"
        /\ par' = [par EXCEPT ![e] = "live"]
        /\ entry' = [entry EXCEPT ![t] = e]
    /\ Goto(t, "register")
    /\ UNCHANGED <<registry, parLock, profiles, outcome, session, leaked,
                   plan, took, kind, rows>>

\* Mutant of LockRegistry: the file is read without its lock.
LockRegistryNot(t, from, to) ==
    /\ At(t, from)
    /\ rows' = [rows EXCEPT ![t] = registry]
    /\ Goto(t, to)
    /\ UNCHANGED <<oci, profiles, outcome, session, leaked, plan, took, kind, entry>>

\* _store_lock, and the rows as they are in the file under it.
LockRegistry(t, from, to) ==
    /\ At(t, from) /\ parLock = NoThread
    /\ parLock' = t
    /\ rows' = [rows EXCEPT ![t] = registry]
    /\ Goto(t, to)
    /\ UNCHANGED <<par, registry, profiles, outcome, session, leaked,
                   plan, took, kind, entry>>

\* Mutant of RegisterWrite: the lock is kept.
RegisterWriteLocked(t) ==
    /\ At(t, "append")
    /\ registry' = rows[t] \cup {entry[t]}
    /\ Finish(t)
    /\ UNCHANGED <<par, parLock, profiles, outcome, session, leaked>>

\* As under LockRegistry, but the read fails.
LockUnread(t, from, to) ==
    /\ MayBeUnread
    /\ At(t, from) /\ parLock = NoThread
    /\ parLock' = t
    /\ rows' = [rows EXCEPT ![t] = {}]
    /\ leaked' = leaked \cup (registry \X {"unread"})
    /\ Goto(t, to)
    /\ UNCHANGED <<par, registry, profiles, outcome, session, plan, took, kind, entry>>

RegisterWrite(t) ==
    /\ At(t, "append")
    /\ registry' = rows[t] \cup {entry[t]}
    /\ parLock' = NoThread
    /\ Finish(t)
    /\ UNCHANGED <<par, profiles, outcome, session, leaked>>

\* The PAR page refuses to revoke what an active job uses, and looks the entry
\* up.
StartRevoke(t) ==
    /\ At(t, "idle")
    /\ \E e \in registry :
        /\ ~InUse(e)
        /\ entry' = [entry EXCEPT ![t] = e]
    /\ Goto(t, "revoke")
    /\ UNCHANGED <<oci, profiles, outcome, session, leaked, plan, took, kind, rows>>

\* A PAR that Object Storage does not have is as good as revoked.  The entry has lost
\* the OCI configuration profile that made the PAR, so the default one is asked,
\* although version_history.md says that revocation retains the selected profile.
Revoke(t) ==
    LET e == entry[t] inVain == par[e] = "live" /\ e \in Foreign IN
    /\ At(t, "revoke")
    /\ par' = [par EXCEPT ![e] = IF @ = "live" /\ ~inVain THEN "revoked" ELSE @]
    /\ leaked' = IF inVain THEN leaked \cup {<<e, "in_vain">>} ELSE leaked
    /\ Goto(t, "drop")
    /\ UNCHANGED <<registry, parLock, profiles, outcome, session, locals>>

RevokeFails(t) ==
    /\ At(t, "revoke") /\ "oci_error" \in Faults
    /\ Finish(t)
    /\ UNCHANGED <<oci, profiles, outcome, session, leaked>>

DropWrite(t) ==
    /\ At(t, "remove")
    /\ registry' = rows[t] \ {entry[t]}
    /\ parLock' = NoThread
    /\ Finish(t)
    /\ UNCHANGED <<par, profiles, outcome, session, leaked>>

\* The PAR exists before the registry knows of it.
Unregistered(t) == At(t, "register") \/ At(t, "append")

\* An incomplete answer to the creation, or a registry that cannot be written: the
\* error is answered, and what Object Storage has done stays done.
RegistryFails(t) ==
    /\ "io_error" \in Faults /\ pc[t] \in {"purge", "register", "append", "remove"}
    /\ leaked' = IF Unregistered(t) THEN leaked \cup {<<entry[t], "unregistered">>} ELSE leaked
    /\ parLock' = IF parLock = t THEN NoThread ELSE parLock
    /\ Finish(t)
    /\ UNCHANGED <<par, registry, profiles, outcome, session>>

ParExpires ==
    /\ "expiry" \in Faults
    /\ \E e \in Entries : par[e] = "live" /\ par' = [par EXCEPT ![e] = "expired"]
    /\ UNCHANGED <<registry, parLock, profiles, outcome, session, leaked, pc, locals>>

-----------------------------------------------------------------------------
(* The option profiles page.                                               *)

\* A save or a delete of a profile rewrites the file under its lock; readers see
\* it before or after.
EditProfile(action) ==
    /\ \E n \in Names, c \in Contents :
        profiles' = [profiles EXCEPT ![n] = IF action = "save" THEN c ELSE NoContent]
    /\ UNCHANGED <<oci, outcome, session, leaked, pc, locals>>

-----------------------------------------------------------------------------
\* The web process dies: the server sessions and the file locks go with it, and
\* the PAR it was about to register is known to nobody.
WebCrash ==
    /\ "web_crash" \in Faults
    /\ \E t \in Threads : ~At(t, "idle")
    /\ leaked' = leaked \cup
           {<<entry[t], "unregistered">> : t \in {u \in Threads : Unregistered(u)}}
    /\ parLock' = NoThread /\ review' = NoReview
    /\ pc' = [t \in Threads |-> "idle"]
    /\ plan' = [t \in Threads |-> NoPlan] /\ took' = [t \in Threads |-> 0]
    /\ kind' = [t \in Threads |-> "view"] /\ entry' = [t \in Threads |-> NoEntry]
    /\ rows' = [t \in Threads |-> {}]
    /\ UNCHANGED <<par, registry, profiles, outcome, shown>>

StartRequest(t) ==
    \/ \E action \in {"preview", "submit"} \cap Requests, p \in Forms :
            Post(t, action, p)
    \/ "view" \in Requests /\ View(t)
    \/ "create" \in Requests /\ CreatePar(t)
    \/ "delete" \in Requests /\ StartRevoke(t)

ThreadStep(t) ==
    \/ StartRequest(t)
    \/ Purge(t) \/ PickPar(t) \/ NoActivePar(t)
    \/ Preview(t) \/ TakeReview(t) \/ ReviewRejected(t)
    \/ ParFree(t) \/ ParTaken(t)
    \/ Submit(t) \/ SubmitRefused(t)
    \/ LockRegistry(t, "register", "append") \/ RegisterWrite(t)
    \/ Revoke(t) \/ RevokeFails(t)
    \/ LockRegistry(t, "drop", "remove") \/ DropWrite(t)

StoreFault(t) ==
    \/ LockUnread(t, "register", "append") \/ LockUnread(t, "drop", "remove")
    \/ RegistryFails(t)

Environment ==
    \/ \E action \in {"save", "drop_profile"} \cap Requests : EditProfile(action)
    \/ ReviewExpires \/ JobOver \/ ParExpires \/ WebCrash

Next ==
    \/ \E t \in Threads : ThreadStep(t) \/ StoreFault(t)
    \/ Environment

Spec == Init /\ [][Next]_vars

-----------------------------------------------------------------------------
(* Properties.                                                             *)

HasPlan(t) == pc[t] \in {"purge", "pick", "plan", "use", "submit"}

\* Types; when a thread has a plan, a review or a PAR to register or revoke, and
\* that the registry's lock is held exactly between the read and the write it is for.
TypeOK ==
    /\ par \in [Entries -> {"unused", "live", "expired", "revoked"}]
    /\ registry \subseteq Entries /\ leaked \subseteq Entries \X Risks
    /\ profiles \in [Names -> Contents \cup {NoContent}]
    /\ parLock \in Threads \cup {NoThread}
    /\ review \in Review \cup {NoReview}
    /\ shown \in [Reviews -> Plan \cup {NoPlan}]
    /\ jobs \in Seq([id : Reviews, plan : Plan]) /\ active \subseteq DOMAIN jobs
    /\ pc \in [Threads -> Points]
    /\ \A t \in Threads : (parLock = t) <=> (pc[t] \in {"append", "remove"})
    /\ plan \in [Threads -> Plan \cup {NoPlan}]
    /\ \A t \in Threads : HasPlan(t) => plan[t] \in Plan
    /\ took \in [Threads -> Reviews \cup {0}]
    /\ \A t \in Threads : (took[t] # 0) <=> pc[t] \in {"use", "submit"}
    /\ kind \in [Threads -> AllRequests]
    /\ entry \in [Threads -> Entries \cup {NoEntry}]
    /\ \A t \in Threads : (entry[t] # NoEntry) <=>
            pc[t] \in {"register", "append", "revoke", "drop", "remove"}
    /\ rows \in [Threads -> SUBSET Entries]

\* Every job does exactly what a preview displayed, PAR, options and all, and
\* no preview leads to two jobs, although the tabs of a session share one review
\* slot and profiles change between the preview and the submission.
SubmittedAsReviewed ==
    /\ \A i \in DOMAIN jobs : shown[jobs[i].id] = jobs[i].plan
    /\ \A i, k \in DOMAIN jobs : jobs[i].id = jobs[k].id => i = k

Registering(e) == \E t \in Threads : Unregistered(t) /\ entry[t] = e

AtRisk(e) == \E why \in Risks : <<e, why>> \in leaked

\* A PAR that gives access to the bucket can be found in the registry, although
\* creations, revocations and purges rewrite the whole file concurrently and fail at
\* any step.  It leaves it in three ways only: its creation ended before it was
\* registered, a revocation that the default OCI profile could not make was taken for
\* done, or a writer could not read the registry and wrote it anew.
LiveParsKnown ==
    \A e \in Entries : par[e] = "live" => e \in registry \/ Registering(e) \/ AtRisk(e)

-----------------------------------------------------------------------------
\* What makes it so: the session, the threads that took a review and the jobs
\* never hold the same review twice, and each holds it with the plan displayed.
ReviewInv ==
    /\ review # NoReview => shown[review.id] = review.plan
    /\ \A t \in Threads : took[t] # 0 =>
        /\ shown[took[t]] = plan[t]
        /\ review # NoReview => review.id # took[t]
        /\ \A u \in Threads : took[u] = took[t] => u = t
        /\ \A i \in DOMAIN jobs : jobs[i].id # took[t]
    /\ review # NoReview => \A i \in DOMAIN jobs : jobs[i].id # review.id

\* What the lock is good for, and that a PAR is dropped after a revocation.
RegistryInv ==
    /\ \A t \in Threads : pc[t] \in {"append", "remove"} =>
           /\ rows[t] \subseteq registry
           /\ \A e \in registry : e \in rows[t] \/ <<e, "unread">> \in leaked
    /\ \A e \in registry : par[e] # "unused"
    /\ \A t \in Threads : entry[t] # NoEntry => par[entry[t]] # "unused"
    /\ \A t \in Threads : pc[t] \in {"drop", "remove"} =>
           par[entry[t]] # "live" \/ <<entry[t], "in_vain">> \in leaked

SubmissionInv ==
    /\ TypeOK
    /\ ReviewInv /\ SubmittedAsReviewed
    /\ RegistryInv /\ LiveParsKnown
=============================================================================
