---------------------------- MODULE Pages_proofs ----------------------------
(***************************************************************************)
(* Proofs about what is sent from pages.  Submission: the types, that a    *)
(* job is one that a preview displayed, and that a live PAR is known, for  *)
(* any number of threads, PARs, option profiles and previews.              *)
(* SqlWorkspace: the history in the cookie, for any number of tabs.        *)
(* OptionForm: options come through the form and reach mysqlsh, for any    *)
(* tables and any options without a field (Saved: what saving a form makes *)
(* of a profile, each option in one of its parts).  TableEdits: the ALTER  *)
(* of a form does what the form says, for any table.                       *)
(***************************************************************************)
EXTENDS Submission, SqlWorkspace, OptionForm, TableEdits, FiniteSetTheorems, SequenceTheorems, TLAPS

LEMMA TypeInit == Init => TypeOK
BY SubmissionAssumption, NothingAssumption DEF Init, TypeOK, HasPlan, Points, AllRequests

\* The part of TypeOK about the threads, but for the lock.
LocalTypes ==
    /\ pc \in [Threads -> Points]
    /\ plan \in [Threads -> Plan \cup {NoPlan}]
    /\ \A t \in Threads : HasPlan(t) => plan[t] \in Plan
    /\ took \in [Threads -> Reviews \cup {0}]
    /\ \A t \in Threads : (took[t] # 0) <=> pc[t] \in {"use", "submit"}
    /\ kind \in [Threads -> AllRequests]
    /\ entry \in [Threads -> Entries \cup {NoEntry}]
    /\ \A t \in Threads : (entry[t] # NoEntry) <=>
            pc[t] \in {"register", "append", "revoke", "drop", "remove"}
    /\ rows \in [Threads -> SUBSET Entries]

\* Where a request ends, its thread is as it was before it.
LEMMA FinishTypes ==
    ASSUME NEW t \in Threads, TypeOK, Finish(t)
    PROVE  LocalTypes' /\ pc' = [pc EXCEPT ![t] = "idle"]
<1>1. /\ pc' = [pc EXCEPT ![t] = "idle"]
      /\ plan' = [plan EXCEPT ![t] = NoPlan]
      /\ took' = [took EXCEPT ![t] = 0]
      /\ kind' = [kind EXCEPT ![t] = "view"]
      /\ entry' = [entry EXCEPT ![t] = NoEntry]
      /\ rows' = [rows EXCEPT ![t] = {}]
  BY DEF Finish, Goto
<1> QED BY <1>1 DEF TypeOK, LocalTypes, HasPlan, Points, AllRequests, Reviews

LEMMA TypeStep == TypeOK /\ [Next]_vars => TypeOK'
<1> SUFFICES ASSUME TypeOK, [Next]_vars PROVE TypeOK'
    OBVIOUS
<1> USE NothingAssumption, FormsAssumption
<1> USE DEF oci, outcome, session, locals, At, Goto, Points, AllRequests, HasPlan
<1>1. ASSUME NEW t \in Threads, NEW action \in {"preview", "submit"} \cap Requests,
             NEW p \in Forms, Post(t, action, p)
      PROVE  TypeOK'
  <2>1. plan'[t] \in Plan
    BY <1>1 DEF Post, TypeOK, Plan
  <2> QED BY <1>1, <2>1 DEF Post, TypeOK
<1>2. ASSUME NEW t \in Threads, View(t) PROVE TypeOK'
  BY <1>2 DEF View, TypeOK
<1>3. ASSUME NEW t \in Threads, Purge(t) PROVE TypeOK'
  BY <1>3 DEF Purge, Unexpired, TypeOK
<1>4. ASSUME NEW t \in Threads, PickPar(t) PROVE TypeOK'
  BY <1>4 DEF PickPar, TypeOK
<1>5. ASSUME NEW t \in Threads, NoActivePar(t) PROVE TypeOK'
  <2>1. Finish(t)
    BY <1>5 DEF NoActivePar
  <2>2. LocalTypes' /\ pc' = [pc EXCEPT ![t] = "idle"]
    BY <2>1, FinishTypes
  <2> QED BY <1>5, <2>2 DEF NoActivePar, LocalTypes, TypeOK
<1>6. ASSUME NEW t \in Threads, Preview(t) PROVE TypeOK'
  <2>1. Finish(t)
    BY <1>6 DEF Preview
  <2>2. LocalTypes' /\ pc' = [pc EXCEPT ![t] = "idle"]
    BY <2>1, FinishTypes
  <2>3. plan[t] \in Plan
    BY <1>6 DEF Preview, TypeOK
  <2>4. shown' \in [Reviews -> Plan \cup {NoPlan}] /\ review' \in Review
    BY <1>6, <2>3 DEF Preview, TypeOK, Review
  <2> QED BY <1>6, <2>2, <2>4 DEF Preview, LocalTypes, TypeOK
<1>7. ASSUME NEW t \in Threads, TakeReview(t) PROVE TypeOK'
  BY <1>7, SubmissionAssumption DEF TakeReview, Reviewed, TypeOK, Review, Reviews
<1>8. ASSUME NEW t \in Threads, ReviewRejected(t) PROVE TypeOK'
  <2>1. Finish(t)
    BY <1>8 DEF ReviewRejected
  <2>2. LocalTypes' /\ pc' = [pc EXCEPT ![t] = "idle"]
    BY <2>1, FinishTypes
  <2> QED BY <1>8, <2>2 DEF ReviewRejected, LocalTypes, TypeOK
<1>9. ASSUME NEW t \in Threads, ParFree(t) PROVE TypeOK'
  BY <1>9 DEF ParFree, TypeOK
<1>10. ASSUME NEW t \in Threads, ParTaken(t) PROVE TypeOK'
  <2>1. Finish(t)
    BY <1>10 DEF ParTaken
  <2>2. LocalTypes' /\ pc' = [pc EXCEPT ![t] = "idle"]
    BY <2>1, FinishTypes
  <2> QED BY <1>10, <2>2 DEF ParTaken, LocalTypes, TypeOK
<1>11. ASSUME NEW t \in Threads, Submit(t) PROVE TypeOK'
  <2>1. Finish(t)
    BY <1>11 DEF Submit
  <2>2. LocalTypes' /\ pc' = [pc EXCEPT ![t] = "idle"]
    BY <2>1, FinishTypes
  <2> QED BY <1>11, <2>2 DEF Submit, LocalTypes, TypeOK
<1>12. ASSUME NEW t \in Threads, SubmitRefused(t) PROVE TypeOK'
  <2>1. Finish(t)
    BY <1>12 DEF SubmitRefused
  <2>2. LocalTypes' /\ pc' = [pc EXCEPT ![t] = "idle"]
    BY <2>1, FinishTypes
  <2> QED BY <1>12, <2>2 DEF SubmitRefused, LocalTypes, TypeOK
<1>13. ASSUME NEW t \in Threads, CreatePar(t) PROVE TypeOK'
  BY <1>13 DEF CreatePar, TypeOK
<1>14. ASSUME NEW t \in Threads, LockRegistry(t, "register", "append") PROVE TypeOK'
  BY <1>14 DEF LockRegistry, TypeOK
<1>15. ASSUME NEW t \in Threads, LockRegistry(t, "drop", "remove") PROVE TypeOK'
  BY <1>15 DEF LockRegistry, TypeOK
<1>16. ASSUME NEW t \in Threads, RegisterWrite(t) PROVE TypeOK'
  <2>1. Finish(t)
    BY <1>16 DEF RegisterWrite
  <2>2. LocalTypes' /\ pc' = [pc EXCEPT ![t] = "idle"]
    BY <2>1, FinishTypes
  <2> QED BY <1>16, <2>2 DEF RegisterWrite, LocalTypes, TypeOK
<1>17. ASSUME NEW t \in Threads, StartRevoke(t) PROVE TypeOK'
  BY <1>17 DEF StartRevoke, TypeOK
<1>18. ASSUME NEW t \in Threads, Revoke(t) PROVE TypeOK'
  <2>1. entry[t] \in Entries
    BY <1>18 DEF Revoke, TypeOK
  <2>2. par' \in [Entries -> {"unused", "live", "expired", "revoked"}] /\ leaked' \subseteq Entries \X Risks
    BY <1>18, <2>1 DEF Revoke, TypeOK, Risks
  <2> QED BY <1>18, <2>2 DEF Revoke, TypeOK
<1>19. ASSUME NEW t \in Threads, RevokeFails(t) PROVE TypeOK'
  <2>1. Finish(t)
    BY <1>19 DEF RevokeFails
  <2>2. LocalTypes' /\ pc' = [pc EXCEPT ![t] = "idle"]
    BY <2>1, FinishTypes
  <2> QED BY <1>19, <2>2 DEF RevokeFails, LocalTypes, TypeOK
<1>20a. ASSUME NEW t \in Threads, LockUnread(t, "register", "append") \/ LockUnread(t, "drop", "remove")
        PROVE  TypeOK'
  <2>1. leaked' \subseteq Entries \X Risks
    BY <1>20a DEF LockUnread, TypeOK, Risks
  <2>2. /\ rows' = [rows EXCEPT ![t] = {}] /\ parLock' = t
        /\ \A u \in Threads : pc[u] \notin {"append", "remove"}
        /\ \/ pc[t] = "register" /\ pc' = [pc EXCEPT ![t] = "append"]
           \/ pc[t] = "drop" /\ pc' = [pc EXCEPT ![t] = "remove"]
    BY <1>20a DEF LockUnread, TypeOK
  <2>3. UNCHANGED <<par, registry, profiles, outcome, session, plan, took, kind, entry>>
    BY <1>20a DEF LockUnread
  <2> QED BY <2>1, <2>2, <2>3 DEF TypeOK
<1>20b. ASSUME NEW t \in Threads, RegistryFails(t) PROVE TypeOK'
  <2>1. Finish(t)
    BY <1>20b DEF RegistryFails
  <2>2. LocalTypes' /\ pc' = [pc EXCEPT ![t] = "idle"]
    BY <2>1, FinishTypes
  <2>3. leaked' \subseteq Entries \X Risks
    BY <1>20b DEF RegistryFails, Unregistered, TypeOK, Risks
  <2> QED BY <1>20b, <2>2, <2>3 DEF RegistryFails, LocalTypes, TypeOK
<1>20. ASSUME NEW t \in Threads, DropWrite(t) PROVE TypeOK'
  <2>1. Finish(t)
    BY <1>20 DEF DropWrite
  <2>2. LocalTypes' /\ pc' = [pc EXCEPT ![t] = "idle"]
    BY <2>1, FinishTypes
  <2> QED BY <1>20, <2>2 DEF DropWrite, LocalTypes, TypeOK
<1>21. ASSUME NEW action \in {"save", "drop_profile"} \cap Requests, EditProfile(action)
       PROVE  TypeOK'
  BY <1>21 DEF EditProfile, TypeOK
<1>22. CASE ReviewExpires
  BY <1>22 DEF ReviewExpires, TypeOK, Review
<1>23. CASE JobOver
  BY <1>23 DEF JobOver, TypeOK
<1>24. CASE ParExpires
  BY <1>24 DEF ParExpires, TypeOK
<1>25. CASE WebCrash
  <2>1. leaked' \subseteq Entries \X Risks
    BY <1>25 DEF WebCrash, TypeOK, Unregistered, Risks
  <2>2. LocalTypes' /\ pc' = [t \in Threads |-> "idle"]
    BY <1>25 DEF WebCrash, TypeOK, LocalTypes
  <2> QED BY <1>25, <2>1, <2>2 DEF WebCrash, LocalTypes, TypeOK
<1>26. CASE UNCHANGED vars
  BY <1>26 DEF vars, TypeOK
<1>27. ASSUME NEW t \in Threads, ThreadStep(t) PROVE TypeOK'
  BY <1>27, <1>1, <1>2, <1>3, <1>4, <1>5, <1>6, <1>7, <1>8, <1>9, <1>10, <1>11, <1>12,
     <1>13, <1>14, <1>15, <1>16, <1>17, <1>18, <1>19, <1>20 DEF ThreadStep, StartRequest
<1> QED
  BY <1>20a, <1>20b, <1>21, <1>22, <1>23, <1>24, <1>25, <1>26, <1>27 DEF Next, StoreFault, Environment

\* Whatever the requests, faults and crashes, the variables keep their types,
\* and the registry's lock is held exactly by the thread that rewrites the file.
THEOREM TypeCorrect == Spec => []TypeOK
BY TypeInit, TypeStep, PTL DEF Spec

-----------------------------------------------------------------------------
(* Reviews.                                                                *)

LEMMA JobTypes ==
    ASSUME TypeOK, NEW i \in DOMAIN jobs
    PROVE  jobs[i].id \in Reviews /\ jobs[i].plan \in Plan
<1> DEFINE Job == [id : Reviews, plan : Plan]
<1>1. jobs \in Seq(Job)
  BY DEF TypeOK
<1>2. jobs[i] \in Job
  <2> HIDE DEF Job
  <2> QED BY <1>1
<1> QED BY <1>2

\* A step that leaves the session and the jobs alone, and takes no review.
LEMMA QuietReviews ==
    ASSUME TypeOK, ReviewInv, SubmittedAsReviewed, UNCHANGED <<session, jobs>>,
           \A t \in Threads : took'[t] # 0 => took'[t] = took[t] /\ plan'[t] = plan[t]
    PROVE  ReviewInv' /\ SubmittedAsReviewed'
BY DEF session, ReviewInv, SubmittedAsReviewed

LEMMA ReviewStep ==
    TypeOK /\ ReviewInv /\ SubmittedAsReviewed /\ TypeOK' /\ [Next]_vars
        => ReviewInv' /\ SubmittedAsReviewed'
<1> SUFFICES ASSUME TypeOK, ReviewInv, SubmittedAsReviewed, TypeOK', [Next]_vars
             PROVE  ReviewInv' /\ SubmittedAsReviewed'
    OBVIOUS
<1> DEFINE Quiet == /\ UNCHANGED <<session, jobs>>
                    /\ \A t \in Threads : took'[t] # 0 =>
                            took'[t] = took[t] /\ plan'[t] = plan[t]
           Ended(t) == /\ \A u \in Threads : took'[u] # 0 =>
                               u # t /\ took'[u] = took[u] /\ plan'[u] = plan[u]
<1>0. ASSUME Quiet PROVE ReviewInv' /\ SubmittedAsReviewed'
  BY <1>0, QuietReviews
<1>e. ASSUME NEW t \in Threads, Finish(t) PROVE Ended(t)
  BY <1>e DEF Finish, TypeOK
<1>1. ASSUME NEW t \in Threads, NEW action \in {"preview", "submit"} \cap Requests,
             NEW p \in Forms, Post(t, action, p)
      PROVE  Quiet
  BY <1>1 DEF Post, At, Goto, oci, outcome, TypeOK
<1>2. ASSUME NEW t \in Threads, View(t) PROVE ReviewInv' /\ SubmittedAsReviewed'
  BY <1>2 DEF View, locals, outcome, ReviewInv, SubmittedAsReviewed
<1>3. ASSUME NEW t \in Threads, NoActivePar(t) \/ ParTaken(t) \/ SubmitRefused(t)
                                \/ RegisterWrite(t) \/ RevokeFails(t) \/ DropWrite(t)
                                \/ RegistryFails(t)
      PROVE  Quiet
  <2>1. Finish(t) /\ UNCHANGED <<session, outcome>>
    BY <1>3 DEF NoActivePar, ParTaken, SubmitRefused, RegisterWrite, RevokeFails, DropWrite, RegistryFails
  <2> QED BY <2>1, <1>e DEF outcome
<1>4. ASSUME NEW t \in Threads,
             \/ Purge(t) \/ PickPar(t) \/ ParFree(t) \/ CreatePar(t) \/ StartRevoke(t)
             \/ Revoke(t) \/ LockRegistry(t, "register", "append")
             \/ LockRegistry(t, "drop", "remove")
             \/ LockUnread(t, "register", "append") \/ LockUnread(t, "drop", "remove")
      PROVE  Quiet
  BY <1>4 DEF Purge, PickPar, ParFree, CreatePar, StartRevoke, Revoke, LockRegistry, LockUnread,
              locals, outcome
<1>5. ASSUME NEW t \in Threads, Preview(t) PROVE ReviewInv' /\ SubmittedAsReviewed'
  <2>1. PICK r \in Reviews : /\ ~Displayed(r)
                             /\ shown' = [shown EXCEPT ![r] = plan[t]]
                             /\ review' = [id |-> r, plan |-> plan[t], fresh |-> TRUE]
    BY <1>5 DEF Preview
  <2>2. jobs' = jobs /\ Ended(t)
    BY <1>5, <1>e DEF Preview, outcome
  <2>3. \A u \in Threads : took[u] # 0 => took[u] # r
    BY <2>1, NothingAssumption DEF Displayed, ReviewInv, TypeOK, HasPlan
  <2>4. \A i \in DOMAIN jobs : jobs[i].id # r
    BY <2>1, JobTypes, NothingAssumption DEF Displayed, SubmittedAsReviewed
  <2>5. shown'[r] = plan[t] /\ \A q \in Reviews \ {r} : shown'[q] = shown[q]
    BY <2>1 DEF TypeOK
  <2>6. \A i \in DOMAIN jobs : jobs[i].id \in Reviews
    BY JobTypes
  <2>7. SubmittedAsReviewed'
    BY <2>2, <2>4, <2>5, <2>6 DEF SubmittedAsReviewed
  <2>8. \A u \in Threads : took[u] # 0 => took[u] \in Reviews
    BY DEF TypeOK
  <2>9. ReviewInv'
    BY <2>1, <2>2, <2>3, <2>4, <2>5, <2>8 DEF ReviewInv
  <2> QED BY <2>7, <2>9
<1>6. ASSUME NEW t \in Threads, TakeReview(t) PROVE ReviewInv' /\ SubmittedAsReviewed'
  <2>1. /\ review # NoReview /\ review.plan = plan[t] /\ review' = NoReview
        /\ took' = [took EXCEPT ![t] = review.id]
        /\ UNCHANGED <<shown, jobs, plan>>
    BY <1>6 DEF TakeReview, Reviewed, outcome
  <2>2. took'[t] = review.id /\ \A u \in Threads \ {t} : took'[u] = took[u]
    BY <2>1 DEF TypeOK
  <2> QED BY <2>1, <2>2 DEF ReviewInv, SubmittedAsReviewed
<1>7. ASSUME NEW t \in Threads, ReviewRejected(t) PROVE ReviewInv' /\ SubmittedAsReviewed'
  <2>1. review' = NoReview /\ UNCHANGED <<shown, jobs>> /\ Ended(t)
    BY <1>7, <1>e DEF ReviewRejected, outcome
  <2> QED BY <2>1 DEF ReviewInv, SubmittedAsReviewed
<1>8. ASSUME NEW t \in Threads, Submit(t) PROVE ReviewInv' /\ SubmittedAsReviewed'
  <2>1. /\ jobs' = Append(jobs, [id |-> took[t], plan |-> plan[t]])
        /\ UNCHANGED session /\ Ended(t)
    BY <1>8, <1>e DEF Submit
  <2>2. took[t] # 0
    BY <1>8 DEF Submit, At, TypeOK
  <2>3. /\ DOMAIN jobs' = DOMAIN jobs \cup {Len(jobs) + 1}
        /\ \A i \in DOMAIN jobs : jobs'[i] = jobs[i]
        /\ jobs'[Len(jobs) + 1] = [id |-> took[t], plan |-> plan[t]]
    <3>1. jobs \in Seq([id : Reviews, plan : Plan])
      BY DEF TypeOK
    <3>2. [id |-> took[t], plan |-> plan[t]] \in [id : Reviews, plan : Plan]
      BY <1>8, <2>2 DEF Submit, At, TypeOK, HasPlan
    <3> QED BY <2>1, <3>1, <3>2
  <2>4. /\ shown[took[t]] = plan[t]
        /\ review # NoReview => review.id # took[t]
        /\ \A u \in Threads : took[u] = took[t] => u = t
        /\ \A i \in DOMAIN jobs : jobs[i].id # took[t]
    BY <2>2 DEF ReviewInv
  <2>5. SubmittedAsReviewed'
    BY <2>1, <2>3, <2>4 DEF SubmittedAsReviewed, session
  <2>6. ReviewInv'
    BY <2>1, <2>3, <2>4 DEF ReviewInv, session
  <2> QED BY <2>5, <2>6
<1>9. ASSUME NEW action \in {"save", "drop_profile"} \cap Requests, EditProfile(action)
      PROVE  Quiet
  BY <1>9 DEF EditProfile, locals, outcome
<1>10. CASE ReviewExpires
  <2>1. /\ review # NoReview /\ review' = [review EXCEPT !.fresh = FALSE]
        /\ UNCHANGED <<shown, jobs, took, plan>>
    BY <1>10 DEF ReviewExpires, locals, outcome
  <2>2. review \in Review
    BY <2>1 DEF TypeOK
  <2>3. review'.id = review.id /\ review'.plan = review.plan
    BY <2>1, <2>2 DEF Review
  <2> QED BY <2>1, <2>3 DEF ReviewInv, SubmittedAsReviewed
<1>11. CASE JobOver \/ ParExpires \/ UNCHANGED vars
  <2>1. Quiet
    BY <1>11 DEF JobOver, ParExpires, vars, locals, outcome
  <2> QED BY <2>1, <1>0
<1>12. CASE WebCrash
  <2>1. review' = NoReview /\ UNCHANGED <<shown, jobs>> /\ \A t \in Threads : took'[t] = 0
    BY <1>12 DEF WebCrash, outcome
  <2> QED BY <2>1 DEF ReviewInv, SubmittedAsReviewed
<1>13. ASSUME NEW t \in Threads, ThreadStep(t) PROVE ReviewInv' /\ SubmittedAsReviewed'
  <2> HIDE DEF Quiet
  <2> QED BY <1>13, <1>0, <1>1, <1>2, <1>3, <1>4, <1>5, <1>6, <1>7, <1>8
          DEF ThreadStep, StartRequest
<1> HIDE DEF Quiet
<1> QED BY <1>0, <1>3, <1>4, <1>9, <1>10, <1>11, <1>12, <1>13 DEF Next, StoreFault, Environment

\* Every job does exactly what a preview displayed, and no preview leads to two
\* jobs, for any number of threads, PARs and profiles.
THEOREM ReviewedAlways == Spec => []SubmittedAsReviewed
<1> DEFINE Inv == TypeOK /\ ReviewInv /\ SubmittedAsReviewed
<1>1. Init => Inv
  <2>1. Init => ReviewInv /\ SubmittedAsReviewed
    BY DEF Init, ReviewInv, SubmittedAsReviewed
  <2> QED BY <2>1, TypeInit
<1>2. Inv /\ [Next]_vars => Inv'
  BY TypeStep, ReviewStep
<1> QED BY <1>1, <1>2, PTL DEF Spec

-----------------------------------------------------------------------------
(* The registry.                                                           *)

\* A step that leaves the PARs, the registry and who works on an entry alone.
LEMMA QuietRegistry ==
    ASSUME TypeOK, RegistryInv, LiveParsKnown, UNCHANGED <<par, registry, leaked>>,
           \A t \in Threads : entry[t] # NoEntry =>
                pc'[t] = pc[t] /\ entry'[t] = entry[t] /\ rows'[t] = rows[t],
           \A t \in Threads : entry'[t] # NoEntry => entry[t] # NoEntry,
           TypeOK'
    PROVE  RegistryInv' /\ LiveParsKnown'
<1>1. \A t \in Threads : pc'[t] \in {"register", "append", "drop", "remove"} =>
            pc'[t] = pc[t] /\ entry'[t] = entry[t] /\ rows'[t] = rows[t]
  BY DEF TypeOK
<1>2. \A t \in Threads : Unregistered(t) => Unregistered(t)' /\ entry'[t] = entry[t]
  BY DEF TypeOK, Unregistered, At
<1> QED BY <1>1, <1>2 DEF RegistryInv, LiveParsKnown, Registering, AtRisk

LEMMA RegistryStep ==
    TypeOK /\ RegistryInv /\ LiveParsKnown /\ TypeOK' /\ [Next]_vars
        => RegistryInv' /\ LiveParsKnown'
<1> SUFFICES ASSUME TypeOK, RegistryInv, LiveParsKnown, TypeOK', [Next]_vars
             PROVE  RegistryInv' /\ LiveParsKnown'
    OBVIOUS
<1> DEFINE Working(t) == entry[t] # NoEntry
           Quiet == /\ UNCHANGED <<par, registry, leaked>>
                    /\ \A t \in Threads : Working(t) =>
                            pc'[t] = pc[t] /\ entry'[t] = entry[t] /\ rows'[t] = rows[t]
                    /\ \A t \in Threads : entry'[t] # NoEntry => Working(t)
           Goes(t, point) == /\ pc' = [pc EXCEPT ![t] = point]
                             /\ entry' = entry
           Others(t) == \A u \in Threads \ {t} :
                            pc'[u] = pc[u] /\ entry'[u] = entry[u] /\ rows'[u] = rows[u]
<1>0. ASSUME Quiet PROVE RegistryInv' /\ LiveParsKnown'
  BY <1>0, QuietRegistry
<1>e. ASSUME NEW t \in Threads, Finish(t)
      PROVE  Others(t) /\ pc'[t] = "idle" /\ entry'[t] = NoEntry
  BY <1>e DEF Finish, Goto, TypeOK
<1>1. ASSUME NEW t \in Threads, NEW action \in {"preview", "submit"} \cap Requests,
             NEW p \in Forms, Post(t, action, p)
      PROVE  Quiet
  BY <1>1 DEF Post, At, Goto, oci, TypeOK
<1>2. ASSUME NEW t \in Threads, View(t) PROVE Quiet
  BY <1>2 DEF View, oci, locals
<1>3. ASSUME NEW t \in Threads, PickPar(t) \/ ParFree(t) \/ TakeReview(t)
      PROVE  Quiet
  BY <1>3 DEF PickPar, ParFree, TakeReview, At, Goto, oci, locals, TypeOK
<1>4. ASSUME NEW t \in Threads,
             \/ NoActivePar(t) \/ Preview(t) \/ ReviewRejected(t) \/ ParTaken(t)
             \/ Submit(t) \/ SubmitRefused(t)
      PROVE  Quiet
  <2>1. /\ Finish(t) /\ UNCHANGED <<oci, leaked>>
        /\ pc[t] \in {"pick", "plan", "use", "submit"}
    BY <1>4 DEF NoActivePar, Preview, ReviewRejected, ParTaken, Submit, SubmitRefused, At
  <2>2. ~Working(t)
    BY <2>1 DEF TypeOK
  <2> QED BY <2>1, <2>2, <1>e DEF oci
<1>5. ASSUME NEW t \in Threads, Purge(t) PROVE RegistryInv' /\ LiveParsKnown'
  <2>1. /\ parLock = NoThread
        /\ registry' \in {{e \in registry : par[e] # "expired"}, registry}
        /\ Goes(t, "pick") /\ UNCHANGED <<par, rows, leaked>> /\ pc[t] = "purge"
    BY <1>5 DEF Purge, Unexpired, At, Goto, locals
  <2>2. \A u \in Threads : pc'[u] \notin {"append", "remove"} /\ (pc'[u] = pc[u] \/ u = t)
    BY <2>1, NothingAssumption DEF TypeOK
  <2>3. ~Working(t)
    BY <2>1 DEF TypeOK
  <2>4. RegistryInv'
    BY <2>1, <2>2, <2>3 DEF RegistryInv, TypeOK
  <2>5. \A u \in Threads : Unregistered(u) => Unregistered(u)' /\ entry'[u] = entry[u]
    BY <2>1, <2>2 DEF Unregistered, At, TypeOK
  <2> QED BY <2>1, <2>4, <2>5 DEF LiveParsKnown, Registering, AtRisk, Risks
<1>6. ASSUME NEW t \in Threads, CreatePar(t) PROVE RegistryInv' /\ LiveParsKnown'
  <2>1. PICK e \in Entries : /\ par[e] = "unused" /\ par' = [par EXCEPT ![e] = "live"]
                             /\ entry' = [entry EXCEPT ![t] = e]
    BY <1>6 DEF CreatePar
  <2>2. /\ pc[t] = "idle" /\ pc' = [pc EXCEPT ![t] = "register"]
        /\ UNCHANGED <<registry, leaked, rows>>
    BY <1>6 DEF CreatePar, At, Goto
  <2>3. /\ pc'[t] = "register" /\ entry'[t] = e
        /\ \A u \in Threads \ {t} : pc'[u] = pc[u] /\ entry'[u] = entry[u]
        /\ par'[e] = "live" /\ \A f \in Entries \ {e} : par'[f] = par[f]
    BY <2>1, <2>2 DEF TypeOK
  <2>4. RegistryInv'
    BY <2>1, <2>2, <2>3 DEF RegistryInv, TypeOK
  <2>5. \A u \in Threads : Unregistered(u) => Unregistered(u)' /\ entry'[u] = entry[u]
    BY <2>2, <2>3 DEF Unregistered, At
  <2>6. Registering(e)'
    BY <2>3 DEF Registering, Unregistered, At
  <2> QED BY <2>2, <2>3, <2>4, <2>5, <2>6 DEF LiveParsKnown, Registering, AtRisk, Risks
<1>7. ASSUME NEW t \in Threads,
             \/ LockRegistry(t, "register", "append") \/ LockRegistry(t, "drop", "remove")
             \/ LockUnread(t, "register", "append") \/ LockUnread(t, "drop", "remove")
      PROVE  RegistryInv' /\ LiveParsKnown'
  <2>1. /\ \/ rows' = [rows EXCEPT ![t] = registry] /\ leaked' = leaked
           \/ rows' = [rows EXCEPT ![t] = {}] /\ leaked' = leaked \cup (registry \X {"unread"})
        /\ UNCHANGED <<par, registry, entry>>
        /\ \/ pc[t] = "register" /\ Goes(t, "append")
           \/ pc[t] = "drop" /\ Goes(t, "remove")
    BY <1>7 DEF LockRegistry, LockUnread, At, Goto
  <2>2. /\ rows'[t] \subseteq registry /\ leaked \subseteq leaked'
        /\ \A e \in registry : e \in rows'[t] \/ <<e, "unread">> \in leaked'
        /\ \A u \in Threads \ {t} : rows'[u] = rows[u] /\ pc'[u] = pc[u]
    BY <2>1 DEF TypeOK
  <2>3. \/ pc[t] = "register" /\ pc'[t] = "append"
        \/ pc[t] = "drop" /\ pc'[t] = "remove"
    BY <2>1 DEF TypeOK
  <2>4. RegistryInv'
    BY <2>1, <2>2, <2>3 DEF RegistryInv
  <2>5. \A u \in Threads : Unregistered(u) => Unregistered(u)'
    BY <2>2, <2>3 DEF Unregistered, At
  <2> QED BY <2>1, <2>2, <2>4, <2>5 DEF LiveParsKnown, Registering, AtRisk, Risks
<1>8. ASSUME NEW t \in Threads, RegisterWrite(t) PROVE RegistryInv' /\ LiveParsKnown'
  <2>1. /\ pc[t] = "append" /\ registry' = rows[t] \cup {entry[t]}
        /\ Finish(t) /\ UNCHANGED <<par, leaked>>
    BY <1>8 DEF RegisterWrite, At
  <2>2. \A u \in Threads \ {t} : pc[u] \notin {"append", "remove"}
    BY <2>1 DEF TypeOK
  <2>3. /\ Working(t) /\ registry' \subseteq registry \cup {entry[t]} /\ entry[t] \in registry'
        /\ \A e \in registry : e \in registry' \/ <<e, "unread">> \in leaked
    BY <2>1 DEF RegistryInv, TypeOK
  <2>4. RegistryInv'
    BY <2>1, <2>2, <2>3, <1>e DEF RegistryInv
  <2>5. \A u \in Threads \ {t} : Unregistered(u) => Unregistered(u)' /\ entry'[u] = entry[u]
    BY <2>1, <1>e DEF Unregistered, At
  <2> QED BY <2>1, <2>3, <2>4, <2>5 DEF LiveParsKnown, Registering, AtRisk, Risks
<1>9. ASSUME NEW t \in Threads, StartRevoke(t) PROVE RegistryInv' /\ LiveParsKnown'
  <2>1. PICK e \in registry : entry' = [entry EXCEPT ![t] = e]
    BY <1>9 DEF StartRevoke
  <2>2. /\ pc[t] = "idle" /\ pc' = [pc EXCEPT ![t] = "revoke"]
        /\ UNCHANGED <<par, registry, leaked, rows>>
    BY <1>9 DEF StartRevoke, At, Goto, oci
  <2>3. /\ pc'[t] = "revoke" /\ entry'[t] = e
        /\ \A u \in Threads \ {t} : pc'[u] = pc[u] /\ entry'[u] = entry[u]
    BY <2>1, <2>2 DEF TypeOK
  <2>4. RegistryInv'
    BY <2>1, <2>2, <2>3 DEF RegistryInv
  <2>5. \A u \in Threads : Unregistered(u) => Unregistered(u)' /\ entry'[u] = entry[u]
    BY <2>2, <2>3 DEF Unregistered, At
  <2> QED BY <2>2, <2>4, <2>5 DEF LiveParsKnown, Registering, AtRisk, Risks
<1>10. ASSUME NEW t \in Threads, Revoke(t) PROVE RegistryInv' /\ LiveParsKnown'
  <2> DEFINE inVain == par[entry[t]] = "live" /\ entry[t] \in Foreign
  <2>1. /\ pc[t] = "revoke" /\ Goes(t, "drop") /\ UNCHANGED <<registry, rows>>
        /\ par' = [par EXCEPT ![entry[t]] = IF @ = "live" /\ ~inVain THEN "revoked" ELSE @]
        /\ leaked' = IF inVain THEN leaked \cup {<<entry[t], "in_vain">>} ELSE leaked
    BY <1>10 DEF Revoke, At, Goto, locals
  <2>2. entry[t] \in Entries
    BY <2>1 DEF TypeOK
  <2>3. /\ par'[entry[t]] # "live" \/ <<entry[t], "in_vain">> \in leaked'
        /\ leaked \subseteq leaked' /\ \A e \in Entries : par'[e] = "live" => par[e] = "live"
        /\ \A e \in Entries : par[e] # "unused" => par'[e] # "unused"
    BY <2>1, <2>2 DEF TypeOK
  <2>4. pc'[t] = "drop" /\ \A u \in Threads \ {t} : pc'[u] = pc[u]
    BY <2>1 DEF TypeOK
  <2>5. RegistryInv'
    BY <2>1, <2>2, <2>3, <2>4 DEF RegistryInv, TypeOK
  <2>6. \A u \in Threads : Unregistered(u) => Unregistered(u)'
    BY <2>1, <2>4 DEF Unregistered, At
  <2> QED BY <2>1, <2>3, <2>5, <2>6 DEF LiveParsKnown, Registering, AtRisk, Risks
<1>11. ASSUME NEW t \in Threads, RevokeFails(t) PROVE RegistryInv' /\ LiveParsKnown'
  <2>1. pc[t] = "revoke" /\ Finish(t) /\ UNCHANGED <<par, registry, leaked>>
    BY <1>11 DEF RevokeFails, At, oci
  <2>2. RegistryInv'
    BY <2>1, <1>e DEF RegistryInv
  <2>3. \A u \in Threads : Unregistered(u) => Unregistered(u)' /\ entry'[u] = entry[u]
    BY <2>1, <1>e DEF Unregistered, At
  <2> QED BY <2>1, <2>2, <2>3 DEF LiveParsKnown, Registering, AtRisk, Risks
<1>12. ASSUME NEW t \in Threads, DropWrite(t) PROVE RegistryInv' /\ LiveParsKnown'
  <2>1. /\ pc[t] = "remove" /\ registry' = rows[t] \ {entry[t]}
        /\ Finish(t) /\ UNCHANGED <<par, leaked>>
    BY <1>12 DEF DropWrite, At
  <2>2. \A u \in Threads \ {t} : pc[u] \notin {"append", "remove"}
    BY <2>1 DEF TypeOK
  <2>3. /\ registry' \subseteq registry
        /\ \A e \in registry : e = entry[t] \/ e \in registry' \/ <<e, "unread">> \in leaked
        /\ par[entry[t]] # "live" \/ <<entry[t], "in_vain">> \in leaked
    BY <2>1 DEF RegistryInv
  <2>4. RegistryInv'
    BY <2>1, <2>2, <2>3, <1>e DEF RegistryInv
  <2>5. \A u \in Threads : Unregistered(u) => Unregistered(u)' /\ entry'[u] = entry[u]
    BY <2>1, <1>e DEF Unregistered, At
  <2> QED BY <2>1, <2>3, <2>4, <2>5 DEF LiveParsKnown, Registering, AtRisk, Risks
<1>12a. ASSUME NEW t \in Threads, RegistryFails(t) PROVE RegistryInv' /\ LiveParsKnown'
  <2>1. /\ Finish(t) /\ UNCHANGED <<par, registry>>
        /\ leaked' = IF Unregistered(t) THEN leaked \cup {<<entry[t], "unregistered">>} ELSE leaked
    BY <1>12a DEF RegistryFails
  <2>2. RegistryInv'
    BY <2>1, <1>e DEF RegistryInv
  <2>3. \A u \in Threads \ {t} : Unregistered(u) => Unregistered(u)' /\ entry'[u] = entry[u]
    BY <2>1, <1>e DEF Unregistered, At
  <2> QED BY <2>1, <2>2, <2>3 DEF LiveParsKnown, Registering, AtRisk, Risks
<1>13. ASSUME NEW action \in {"save", "drop_profile"} \cap Requests, EditProfile(action)
       PROVE  Quiet
  BY <1>13 DEF EditProfile, oci, locals
<1>14. CASE ReviewExpires \/ JobOver \/ UNCHANGED vars
  <2>1. Quiet
    BY <1>14 DEF ReviewExpires, JobOver, vars, oci, locals
  <2> QED BY <2>1, <1>0
<1>15. CASE ParExpires
  <2>1. UNCHANGED <<registry, leaked, pc, entry, rows>>
    BY <1>15 DEF ParExpires, locals
  <2>2. /\ \A e \in Entries : par'[e] = "live" => par[e] = "live"
        /\ \A e \in Entries : par'[e] = "unused" => par[e] = "unused"
    BY <1>15 DEF ParExpires, TypeOK
  <2>3. RegistryInv'
    BY <2>1, <2>2 DEF RegistryInv, TypeOK
  <2> QED BY <2>1, <2>2, <2>3 DEF LiveParsKnown, Registering, AtRisk, Unregistered, At
<1>16. CASE WebCrash
  <2>1. /\ leaked' = leaked \cup {<<entry[t], "unregistered">> : t \in {u \in Threads : Unregistered(u)}}
        /\ UNCHANGED <<par, registry>>
        /\ \A t \in Threads : pc'[t] = "idle" /\ entry'[t] = NoEntry
    BY <1>16 DEF WebCrash
  <2>2. RegistryInv'
    BY <2>1 DEF RegistryInv
  <2>3. \A e \in Entries : Registering(e) => <<e, "unregistered">> \in leaked'
    BY <2>1 DEF Registering
  <2> QED BY <2>1, <2>2, <2>3 DEF LiveParsKnown, AtRisk, Risks
<1> HIDE DEF Quiet
<1>17. ASSUME NEW t \in Threads, ThreadStep(t) PROVE RegistryInv' /\ LiveParsKnown'
  BY <1>17, <1>0, <1>1, <1>2, <1>3, <1>4, <1>5, <1>6, <1>7, <1>8, <1>9, <1>10, <1>11, <1>12
     DEF ThreadStep, StartRequest
<1> QED
  <2> HIDE DEF Quiet
  <2> QED BY <1>0, <1>7, <1>12a, <1>13, <1>14, <1>15, <1>16, <1>17 DEF Next, StoreFault, Environment

\* A PAR that gives access is in the registry or about to be, however creations,
\* revocations and purges interleave, fail and die, unless its creation ended before
\* it was registered, its revocation was in vain, or the registry was not readable.
THEOREM LiveParsAlways == Spec => []LiveParsKnown
<1> DEFINE Inv == TypeOK /\ RegistryInv /\ LiveParsKnown
<1>1. Init => Inv
  <2>1. Init => RegistryInv /\ LiveParsKnown
    BY DEF Init, RegistryInv, LiveParsKnown
  <2> QED BY <2>1, TypeInit
<1>2. Inv /\ [Next]_vars => Inv'
  BY TypeStep, RegistryStep
<1> QED BY <1>1, <1>2, PTL DEF Spec

-----------------------------------------------------------------------------
(* SqlWorkspace: the history in the cookie, for any number of tabs.         *)

\* A history as a browser may hold it when n entries were made: the newest first.
History(h, n) ==
    /\ h \in Seq(1 .. n) /\ Len(h) <= HistoryLimit
    /\ \A i, j \in DOMAIN h : i < j => h[i] > h[j]

Entry == [status : {"error", "partial", "success"}, action : {"Execute", "Explain"},
          ran : Nat, asked : Nat, shown : Nat]

\* What HistoryTruthful says of an entry.
EntryTrue(e) ==
    /\ e.status = "success" <=> e.ran = e.asked /\ e.shown = e.asked
    /\ e.status = "partial" <=> e.action = "Explain" /\ e.ran = 1

RunningRequest == [pc : {"running"}, action : {"Execute", "Explain"}, script : Seq(Statements),
                   checkbox : BOOLEAN, ran : Nat, error : BOOLEAN, partial : BOOLEAN,
                   history : Seq(Nat)]
Answered == [pc : {"answered"}, history : Seq(Nat)]

\* How far a request can have come: an Explain that fails ran nothing, and a
\* partial one is done with the text plan.
RunTrue(r) ==
    /\ Len(r.script) >= 1 /\ r.ran <= Len(r.script)
    /\ r.action = "Execute" => ~r.partial
    /\ r.action = "Explain" =>
          /\ r.error => r.ran = 0
          /\ ~r.partial => Len(r.script) = 2
          /\ r.partial => Len(r.script) = 1 /\ r.ran = 1 /\ ~r.error

WorkOK(w, n) ==
    /\ w \in {Idle} \cup RunningRequest \cup Answered
    /\ w.pc = "running" => RunTrue(w)
    /\ w.pc # "idle" => History(w.history, n)

WorkspaceInv ==
    /\ entries \in Seq(Entry) /\ \A i \in DOMAIN entries : EntryTrue(entries[i])
    /\ History(cookie, Len(entries))
    /\ work \in [WorkTabs -> {Idle} \cup RunningRequest \cup Answered]
    /\ \A t \in WorkTabs : WorkOK(work[t], Len(entries))

\* A history stays one when an entry is added.
LEMMA HistoryStays ==
  ASSUME NEW n \in Nat, NEW h, History(h, n)
  PROVE  History(h, n + 1)
  <1>1. 1 .. n \subseteq 1 .. n + 1
    OBVIOUS
  <1> QED  BY <1>1 DEF History

LEMMA WorkStays ==
  ASSUME NEW n \in Nat, NEW w, WorkOK(w, n)
  PROVE  WorkOK(w, n + 1)
  BY HistoryStays DEF WorkOK

\* The new entry is the newest.
LEMMA AppendedHistory ==
  ASSUME NEW n \in Nat, NEW h, History(h, n)
  PROVE  History(AppendHistory(h, n + 1), n + 1)
  <1>0. /\ h \in Seq(1 .. n) /\ Len(h) <= HistoryLimit
        /\ \A i, j \in DOMAIN h : i < j => h[i] > h[j]
    BY DEF History
  <1> DEFINE m == IF Len(h) < HistoryLimit THEN Len(h) + 1 ELSE HistoryLimit
             p == <<n + 1>> \o h
             q == AppendHistory(h, n + 1)
  <1>1. HistoryLimit \in Nat \ {0} /\ Len(h) \in Nat
    BY <1>0, WorkspaceAssumption
  <1>2. m \in 1 .. Len(h) + 1 /\ m <= HistoryLimit
    BY <1>1
  <1>3. /\ p \in Seq(1 .. n + 1) /\ Len(p) = Len(h) + 1
        /\ p[1] = n + 1 /\ \A i \in 2 .. Len(h) + 1 : p[i] = h[i - 1]
    <2>1. h \in Seq(1 .. n + 1) /\ <<n + 1>> \in Seq(1 .. n + 1)
      BY <1>0
    <2> QED  BY <1>1, <2>1
  <1>4. q = SubSeq(p, 1, m)
    BY DEF AppendHistory
  <1> HIDE DEF m, p, q
  <1>5. q \in Seq(1 .. n + 1) /\ Len(q) = m /\ \A i \in 1 .. m : q[i] = p[i]
    BY <1>2, <1>3, <1>4
  <1>6. ASSUME NEW i \in DOMAIN q, NEW j \in DOMAIN q, i < j
        PROVE  q[i] > q[j]
    <2>1. i \in 1 .. m /\ j \in 1 .. m /\ m \in Nat /\ m <= Len(h) + 1
      <3>1. DOMAIN q = 1 .. m
        BY <1>5
      <3> QED  BY <1>1, <1>2, <3>1
    <2>2. j \in 2 .. Len(h) + 1 /\ j - 1 \in 1 .. Len(h)
      BY <1>1, <1>6, <2>1
    <2>3. q[j] = h[j - 1] /\ h[j - 1] \in 1 .. n
      <3>1. q[j] = p[j]
        BY <1>5, <2>1
      <3>2. p[j] = h[j - 1]
        BY <1>3, <2>2
      <3>3. h[j - 1] \in 1 .. n
        BY <1>0, <2>2
      <3> QED  BY <3>1, <3>2, <3>3
    <2>4. CASE i = 1
      BY <1>3, <1>5, <2>1, <2>3, <2>4
    <2>5. CASE i # 1
      <3>1. i \in 2 .. Len(h) + 1 /\ i - 1 \in 1 .. Len(h) /\ i - 1 < j - 1
        BY <1>1, <1>6, <2>1, <2>5
      <3>2. q[i] = h[i - 1]
        BY <1>3, <1>5, <2>1, <3>1
      <3>3. h[i - 1] > h[j - 1]
        BY <1>0, <1>1, <2>2, <3>1
      <3> QED  BY <2>3, <3>2, <3>3
    <2> QED  BY <2>4, <2>5
  <1> QED  BY <1>2, <1>5, <1>6 DEF q, History

LEMMA WorkspaceBegins ==
  ASSUME WorkspaceInit
  PROVE  WorkspaceInv
  <1>1. cookie = <<>> /\ entries = <<>> /\ HistoryLimit \in Nat
    BY WorkspaceAssumption DEF WorkspaceInit
  <1>2. History(cookie, Len(entries))
    BY <1>1 DEF History
  <1>3. \A t \in WorkTabs : WorkOK(work[t], Len(entries))
    BY DEF WorkspaceInit, WorkOK, Idle
  <1> QED  BY <1>1, <1>2, <1>3 DEF WorkspaceInv, WorkspaceInit

\* A request that starts.
LEMMA RequestIs ==
  ASSUME NEW action \in {"Execute", "Explain"}, NEW script \in Seq(Statements),
         NEW checkbox \in BOOLEAN, Len(script) >= 1, action = "Explain" => Len(script) = 2,
         History(cookie, Len(entries)), Len(entries) \in Nat
  PROVE  Request(action, script, checkbox) \in RunningRequest /\ WorkOK(Request(action, script, checkbox), Len(entries))
  <1>1. cookie \in Seq(Nat)
    BY DEF History
  <1>2. Request(action, script, checkbox) \in RunningRequest
    BY <1>1 DEF Request, RunningRequest
  <1> QED  BY <1>2 DEF Request, WorkOK, RunTrue

\* A step of t alone: the others, the entries and the cookie stay.
LEMMA OneWork ==
  ASSUME WorkspaceInv, NEW t \in WorkTabs, NEW w, WorkOK(w, Len(entries)),
         work' = [work EXCEPT ![t] = w], UNCHANGED <<cookie, entries>>
  PROVE  WorkspaceInv'
  <1>1. w \in {Idle} \cup RunningRequest \cup Answered
    BY DEF WorkOK
  <1>2. \A u \in WorkTabs : WorkOK(work'[u], Len(entries))
    BY DEF WorkspaceInv
  <1>3. work' \in [WorkTabs -> {Idle} \cup RunningRequest \cup Answered]
    BY <1>1 DEF WorkspaceInv
  <1> QED  BY <1>2, <1>3 DEF WorkspaceInv

\* The steps of a request that runs, but for its end, one by one: each leaves
\* it running, as far as RunTrue says it can have come.
LEMMA RunsOn ==
  ASSUME WorkspaceInv, NEW t \in WorkTabs, work[t].pc = "running",
         UNCHANGED <<cookie, entries>>, NEW w \in RunningRequest,
         w.history = work[t].history, RunTrue(w), work' = [work EXCEPT ![t] = w]
  PROVE  WorkspaceInv'
  <1>1. History(work[t].history, Len(entries))
    BY DEF WorkspaceInv, WorkOK
  <1>2. WorkOK(w, Len(entries))
    BY <1>1 DEF WorkOK
  <1> QED  BY <1>2, OneWork

LEMMA RunningIs ==
  ASSUME WorkspaceInv, NEW t \in WorkTabs, work[t].pc = "running"
  PROVE  /\ work[t] \in RunningRequest /\ RunTrue(work[t]) /\ History(work[t].history, Len(entries))
         /\ work[t].ran \in Nat /\ Len(work[t].script) \in Nat
  <1>1. WorkOK(work[t], Len(entries))
    BY DEF WorkspaceInv
  <1>2. work[t] \in RunningRequest
    BY <1>1 DEF WorkOK, Idle, Answered
  <1> QED  BY <1>1, <1>2 DEF WorkOK, RunningRequest

LEMMA SubmitKeeps ==
  ASSUME WorkspaceInv, NEW t \in WorkTabs, SubmitText(t)
  PROVE  WorkspaceInv'
  <1>0. History(cookie, Len(entries)) /\ Len(entries) \in Nat
    BY DEF WorkspaceInv
  <1>1. CASE \E s \in Scripts, checkbox \in BOOLEAN :
                work' = [work EXCEPT ![t] = Request("Execute", s, checkbox)]
    <2>1. PICK s \in Scripts, checkbox \in BOOLEAN :
             work' = [work EXCEPT ![t] = Request("Execute", s, checkbox)]
      BY <1>1
    <2>2. PICK n \in 1 .. MaxScript : s \in [1 .. n -> Statements]
      BY DEF Scripts
    <2>3. s \in Seq(Statements) /\ Len(s) >= 1
      BY <2>2, WorkspaceAssumption
    <2>4. WorkOK(Request("Execute", s, checkbox), Len(entries))
      BY <1>0, <2>3, RequestIs
    <2> QED  BY <2>1, <2>4, OneWork DEF SubmitText
  <1>2. CASE work' = [work EXCEPT ![t] = Request("Explain", <<"sql", "sql">>, FALSE)]
    <2> DEFINE s == <<"sql", "sql">>
    <2>1. s \in Seq(Statements) /\ Len(s) = 2
      <3>1. "sql" \in Statements
        BY DEF Statements
      <3> QED  BY <3>1
    <2>2. work' = [work EXCEPT ![t] = Request("Explain", s, FALSE)]
      BY <1>2
    <2> HIDE DEF s
    <2>3. "Explain" \in {"Execute", "Explain"} /\ FALSE \in BOOLEAN /\ Len(s) >= 1
      BY <2>1
    <2>4. WorkOK(Request("Explain", s, FALSE), Len(entries))
      BY <1>0, <2>1, <2>3, RequestIs
    <2> QED  BY <2>2, <2>4, OneWork DEF SubmitText
  <1> QED  BY <1>1, <1>2 DEF SubmitText

LEMMA RefusedKeeps ==
  ASSUME WorkspaceInv, NEW t \in WorkTabs, ExplainRefused(t)
  PROVE  WorkspaceInv'
  <1> DEFINE w == [work[t] EXCEPT !.error = TRUE]
  <1>1. work[t] \in RunningRequest /\ RunTrue(work[t])
    BY RunningIs DEF ExplainRefused
  <1>2. /\ w \in RunningRequest /\ w.history = work[t].history /\ w.script = work[t].script
        /\ w.ran = work[t].ran /\ w.partial = work[t].partial /\ w.action = work[t].action
        /\ w.error = TRUE
    BY <1>1 DEF RunningRequest
  <1>3. work' = [work EXCEPT ![t] = w]
    BY DEF ExplainRefused
  <1> HIDE DEF w
  <1>4. RunTrue(w)
    BY <1>1, <1>2 DEF RunTrue, ExplainRefused
  <1> QED  BY <1>2, <1>3, <1>4, RunsOn DEF ExplainRefused

\* A statement runs, or the request fails.
LEMMA StatementKeeps ==
  ASSUME WorkspaceInv, NEW t \in WorkTabs, Running(t, "Execute"), Left(t),
         UNCHANGED <<cookie, entries>>, NEW n \in 0 .. 1, NEW error \in BOOLEAN,
         work' = [work EXCEPT ![t].error = error, ![t].ran = @ + n]
  PROVE  WorkspaceInv'
  <1> DEFINE w == [work[t] EXCEPT !.error = error, !.ran = @ + n]
  <1>1. /\ work[t] \in RunningRequest /\ RunTrue(work[t]) /\ work[t].ran \in Nat
        /\ Len(work[t].script) \in Nat
    BY RunningIs DEF Running
  <1>2. /\ w \in RunningRequest /\ w.history = work[t].history /\ w.script = work[t].script
        /\ w.ran = work[t].ran + n /\ w.partial = work[t].partial /\ w.action = work[t].action
    <2>1. work[t].ran + n \in Nat
      BY <1>1
    <2>2. w \in RunningRequest
      BY <1>1, <2>1 DEF RunningRequest
    <2>3. /\ w.history = work[t].history /\ w.script = work[t].script
          /\ w.partial = work[t].partial /\ w.action = work[t].action
      BY <1>1 DEF RunningRequest
    <2>4. w.ran = work[t].ran + n
      BY <1>1, <2>1 DEF RunningRequest
    <2> QED  BY <2>2, <2>3, <2>4
  <1>3. work' = [work EXCEPT ![t] = w]
    BY <1>1 DEF WorkspaceInv
  <1> HIDE DEF w
  <1>4. RunTrue(w)
    BY <1>1, <1>2 DEF RunTrue, Running, Left
  <1> QED  BY <1>2, <1>3, <1>4, RunsOn DEF Running

\* A statement that runs changes nothing else of its request.
LEMMA OneMoreKeeps ==
  ASSUME WorkspaceInv, NEW t \in WorkTabs, NEW action, Running(t, action), Left(t),
         UNCHANGED <<cookie, entries>>, work' = [work EXCEPT ![t].ran = @ + 1]
  PROVE  WorkspaceInv'
  <1> DEFINE w == [work[t] EXCEPT !.ran = @ + 1]
  <1>1. /\ work[t] \in RunningRequest /\ RunTrue(work[t]) /\ work[t].ran \in Nat
        /\ Len(work[t].script) \in Nat
    BY RunningIs DEF Running
  <1>2. /\ w \in RunningRequest /\ w.history = work[t].history /\ w.script = work[t].script
        /\ w.ran = work[t].ran + 1 /\ w.partial = work[t].partial /\ w.action = work[t].action
        /\ w.error = work[t].error
    <2>1. work[t].ran + 1 \in Nat
      BY <1>1
    <2>2. w \in RunningRequest
      BY <1>1, <2>1 DEF RunningRequest
    <2>3. /\ w.history = work[t].history /\ w.script = work[t].script
          /\ w.partial = work[t].partial /\ w.action = work[t].action
          /\ w.error = work[t].error
      BY <1>1 DEF RunningRequest
    <2>4. w.ran = work[t].ran + 1
      BY <1>1, <2>1 DEF RunningRequest
    <2> QED  BY <2>2, <2>3, <2>4
  <1>3. work' = [work EXCEPT ![t] = w]
    OBVIOUS
  <1> HIDE DEF w
  <1>4. RunTrue(w)
    <2>1. ~w.error /\ (w.partial <=> work[t].partial)
      BY <1>2 DEF Running
    <2>2. /\ w.script = work[t].script /\ w.ran = work[t].ran + 1
          /\ w.action = work[t].action
      BY <1>2
    <2>3. ASSUME work[t].action = "Explain", work[t].partial
          PROVE  FALSE
      <3>1. Len(work[t].script) = 1 /\ work[t].ran = 1
        BY <1>1, <2>3 DEF RunTrue
      <3> QED  BY <3>1 DEF Left
    <2>4. w.ran <= Len(w.script) /\ Len(w.script) >= 1
      BY <1>1, <2>2 DEF RunTrue, Left
    <2>5. /\ w.action = "Execute" => ~w.partial
          /\ w.action = "Explain" => ~w.partial /\ Len(w.script) = 2
      BY <1>1, <2>1, <2>2, <2>3 DEF RunTrue
    <2> QED  BY <2>1, <2>4, <2>5 DEF RunTrue
  <1> QED  BY <1>2, <1>3, <1>4, RunsOn DEF Running

\* A request that fails where it is.
LEMMA FailingKeeps ==
  ASSUME WorkspaceInv, NEW t \in WorkTabs, work[t].pc = "running",
         work[t].action = "Explain" => work[t].ran = 0,
         UNCHANGED <<cookie, entries>>, work' = [work EXCEPT ![t].error = TRUE]
  PROVE  WorkspaceInv'
  <1> DEFINE w == [work[t] EXCEPT !.error = TRUE]
  <1>1. work[t] \in RunningRequest /\ RunTrue(work[t])
    BY RunningIs
  <1>2. /\ w \in RunningRequest /\ w.history = work[t].history /\ w.script = work[t].script
        /\ w.ran = work[t].ran /\ w.partial = work[t].partial /\ w.action = work[t].action
        /\ w.error = TRUE
    BY <1>1 DEF RunningRequest
  <1>3. work' = [work EXCEPT ![t] = w]
    OBVIOUS
  <1> HIDE DEF w
  <1>4. RunTrue(w)
    BY <1>1, <1>2 DEF RunTrue
  <1> QED  BY <1>2, <1>3, <1>4, RunsOn

LEMMA ExecuteGeneratedKeeps ==
  ASSUME WorkspaceInv, NEW t \in WorkTabs, ExecuteGenerated(t)
  PROVE  WorkspaceInv'
  <1>1. /\ Running(t, "Execute") /\ Left(t) /\ UNCHANGED <<cookie, entries>>
        /\ work[t].pc = "running" /\ work[t].action # "Explain"
    BY DEF ExecuteGenerated, Running
  <1>2. \/ work' = [work EXCEPT ![t].ran = @ + 1]
        \/ work' = [work EXCEPT ![t].error = TRUE]
    BY DEF ExecuteGenerated
  <1> QED  BY <1>1, <1>2, OneMoreKeeps, FailingKeeps

\* Explain: the second query may fail, and the first alone is a partial answer.
LEMMA ExplainKeeps ==
  ASSUME WorkspaceInv, NEW t \in WorkTabs, Explain(t)
  PROVE  WorkspaceInv'
  <1>1. /\ Running(t, "Explain") /\ Left(t) /\ UNCHANGED <<cookie, entries>>
        /\ work[t].pc = "running"
    BY DEF Explain, Running
  <1>2. CASE work' = [work EXCEPT ![t].ran = @ + 1]
    BY <1>1, <1>2, OneMoreKeeps
  <1>3. CASE work[t].ran = 0 /\ work' = [work EXCEPT ![t].error = TRUE]
    BY <1>1, <1>3, FailingKeeps
  <1>4. CASE /\ work[t].ran = 1
             /\ work' = [work EXCEPT ![t].partial = TRUE, ![t].script = <<"sql">>]
    <2> DEFINE one == <<"sql">>
               w == [work[t] EXCEPT !.partial = TRUE, !.script = one]
    <2>1. one \in Seq(Statements) /\ Len(one) = 1
      <3>1. "sql" \in Statements
        BY DEF Statements
      <3> QED  BY <3>1
    <2>2. /\ work[t] \in RunningRequest /\ RunTrue(work[t]) /\ work[t].ran \in Nat
          /\ Len(work[t].script) \in Nat
      BY <1>1, RunningIs
    <2>3. work' = [work EXCEPT ![t] = w]
      BY <1>4, <2>2 DEF WorkspaceInv
    <2> HIDE DEF one
    <2>4. w \in RunningRequest
      BY <2>1, <2>2 DEF RunningRequest
    <2>5. /\ w.history = work[t].history /\ w.ran = work[t].ran
          /\ w.action = work[t].action /\ w.error = work[t].error
      BY <2>1, <2>2 DEF RunningRequest
    <2>6. w.script = one /\ w.partial = TRUE
      BY <2>1, <2>2 DEF RunningRequest
    <2> HIDE DEF w
    <2>7. RunTrue(w)
      <3>1. ~w.error /\ w.partial
        BY <1>1, <2>5, <2>6 DEF Running
      <3>2. w.action = "Explain" /\ w.ran = 1 /\ Len(w.script) = 1
        BY <1>1, <1>4, <2>1, <2>5, <2>6 DEF Running
      <3> QED  BY <3>1, <3>2 DEF RunTrue
    <2> QED  BY <1>1, <2>3, <2>4, <2>5, <2>7, RunsOn
  <1> QED  BY <1>2, <1>3, <1>4 DEF Explain

\* The entry that a request comes to says what it did.
LEMMA EntryIsTrue ==
  ASSUME WorkspaceInv, NEW t \in WorkTabs, work[t].pc = "running",
         work[t].error \/ ~Left(t),
         NEW e, e = [status |-> Status(t), action |-> work[t].action, ran |-> work[t].ran,
                     asked |-> IF work[t].action = "Explain" THEN 2 ELSE Len(work[t].script),
                     shown |-> IF work[t].error THEN 0 ELSE work[t].ran]
  PROVE  e \in Entry /\ EntryTrue(e)
  <1>1. /\ work[t] \in RunningRequest /\ RunTrue(work[t]) /\ work[t].ran \in Nat
        /\ Len(work[t].script) \in Nat
    BY RunningIs
  <1>2. /\ work[t].action \in {"Execute", "Explain"} /\ work[t].error \in BOOLEAN
        /\ work[t].partial \in BOOLEAN
    BY <1>1 DEF RunningRequest
  <1>3. /\ work[t].error => Status(t) = "error"
        /\ ~work[t].error /\ work[t].partial => Status(t) = "partial"
        /\ ~work[t].error /\ ~work[t].partial => Status(t) = "success"
    <2>1. ~(work[t].error /\ work[t].partial)
      BY <1>1, <1>2 DEF RunTrue
    <2>2. CASE work[t].error
      BY <2>1, <2>2 DEF Status
    <2>3. CASE ~work[t].error /\ work[t].partial
      BY <2>3 DEF Status
    <2>4. CASE ~work[t].error /\ ~work[t].partial
      BY <2>4 DEF Status
    <2> QED  BY <1>2, <2>2, <2>3, <2>4
  <1>4. Status(t) \in {"error", "partial", "success"}
    BY <1>3
  <1>5. e \in Entry
    BY <1>1, <1>2, <1>4 DEF Entry
  <1>6. ~Left(t) => work[t].ran = Len(work[t].script)
    BY <1>1 DEF Left, RunTrue
  <1>7. EntryTrue(e)
    <2>1. /\ e.status = Status(t) /\ e.action = work[t].action /\ e.ran = work[t].ran
          /\ work[t].action = "Explain" => e.asked = 2
          /\ work[t].action # "Explain" => e.asked = Len(work[t].script)
          /\ work[t].error => e.shown = 0
          /\ ~work[t].error => e.shown = work[t].ran
      OBVIOUS
    <2>2. CASE work[t].error
      <3>1. /\ e.status = "error" /\ e.shown = 0 /\ e.asked >= 1
            /\ e.action = "Explain" => e.ran = 0
        BY <1>1, <1>2, <1>3, <2>1, <2>2 DEF RunTrue
      <3> QED  BY <3>1 DEF EntryTrue
    <2>3. CASE ~work[t].error /\ work[t].partial
      <3>1. e.status = "partial" /\ e.action = "Explain" /\ e.ran = 1 /\ e.asked = 2
        BY <1>1, <1>2, <1>3, <2>1, <2>3 DEF RunTrue
      <3> QED  BY <3>1 DEF EntryTrue
    <2>4. CASE ~work[t].error /\ ~work[t].partial
      <3>1. /\ e.status = "success" /\ e.ran = e.asked /\ e.shown = e.asked
            /\ e.action = "Explain" => e.ran = 2
        BY <1>1, <1>2, <1>3, <1>6, <2>1, <2>4 DEF RunTrue
      <3> QED  BY <3>1 DEF EntryTrue
    <2> QED  BY <2>2, <2>3, <2>4
  <1> QED  BY <1>5, <1>7

\* An answer with its entry.
LEMMA AnswerKeeps ==
  ASSUME WorkspaceInv, NEW t \in WorkTabs, NEW e \in Entry, EntryTrue(e),
         NEW q, History(q, Len(entries) + 1), NEW w, w = [pc |-> "answered", history |-> q],
         entries' = Append(entries, e), work' = [work EXCEPT ![t] = w], cookie' = cookie
  PROVE  WorkspaceInv'
  <1> DEFINE n == Len(entries)
  <1>1. n \in Nat /\ entries \in Seq(Entry)
    BY DEF WorkspaceInv
  <1>2. /\ entries' \in Seq(Entry) /\ Len(entries') = n + 1 /\ entries'[n + 1] = e
        /\ \A i \in 1 .. n : entries'[i] = entries[i]
    BY <1>1
  <1>3. \A i \in DOMAIN entries' : EntryTrue(entries'[i])
    <2>1. DOMAIN entries' = 1 .. n + 1 /\ DOMAIN entries = 1 .. n
      BY <1>1, <1>2
    <2>2. \A i \in 1 .. n : EntryTrue(entries[i])
      BY <2>1 DEF WorkspaceInv
    <2>3. \A i \in 1 .. n + 1 : i \in 1 .. n \/ i = n + 1
      BY <1>1
    <2> QED  BY <1>2, <2>1, <2>2, <2>3
  <1>4. History(cookie, n) /\ \A u \in WorkTabs : WorkOK(work[u], n)
    BY DEF WorkspaceInv
  <1> HIDE DEF n
  <1>5. History(cookie, n + 1) /\ \A u \in WorkTabs : WorkOK(work[u], n + 1)
    BY <1>1, <1>4, HistoryStays, WorkStays
  <1>6. WorkOK(w, n + 1) /\ w \in Answered
    <2>1. History(q, n + 1)
      BY DEF n
    <2>2. q \in Seq(Nat)
      BY <1>1, <2>1 DEF History
    <2>3. w \in Answered /\ w.pc = "answered" /\ w.history = q
      BY <2>2 DEF Answered
    <2> QED  BY <2>1, <2>3 DEF WorkOK
  <1>7. \A u \in WorkTabs : WorkOK(work'[u], n + 1)
    BY <1>5, <1>6 DEF WorkspaceInv
  <1>8. work' \in [WorkTabs -> {Idle} \cup RunningRequest \cup Answered]
    BY <1>6 DEF WorkspaceInv
  <1> QED  BY <1>2, <1>3, <1>5, <1>7, <1>8 DEF WorkspaceInv

LEMMA FinishKeeps ==
  ASSUME WorkspaceInv, NEW t \in WorkTabs, FinishRequest(t)
  PROVE  WorkspaceInv'
  <1> DEFINE e == [status |-> Status(t), action |-> work[t].action, ran |-> work[t].ran,
                   asked |-> IF work[t].action = "Explain" THEN 2 ELSE Len(work[t].script),
                   shown |-> IF work[t].error THEN 0 ELSE work[t].ran]
             q == AppendHistory(work[t].history, Len(entries) + 1)
             w == [pc |-> "answered", history |-> q]
  <1>1. /\ work[t].pc = "running" /\ (work[t].error \/ ~Left(t))
        /\ entries' = Append(entries, e) /\ work' = [work EXCEPT ![t] = w] /\ cookie' = cookie
    BY DEF FinishRequest
  <1>2. e \in Entry /\ EntryTrue(e)
    BY <1>1, EntryIsTrue
  <1> HIDE DEF e
  <1>3. Len(entries) \in Nat /\ History(work[t].history, Len(entries))
    BY <1>1, RunningIs DEF WorkspaceInv
  <1>4. History(q, Len(entries) + 1)
    BY <1>3, AppendedHistory
  <1> HIDE DEF q
  <1> QED  BY <1>1, <1>2, <1>4, AnswerKeeps

LEMMA ClearKeeps ==
  ASSUME WorkspaceInv, NEW t \in WorkTabs, ClearHistory(t)
  PROVE  WorkspaceInv'
  <1> DEFINE none == <<>>
             w == [pc |-> "answered", history |-> none]
  <1>1. work' = [work EXCEPT ![t] = w] /\ UNCHANGED <<cookie, entries>>
    BY DEF ClearHistory
  <1>2. none \in Seq(Nat) /\ History(none, Len(entries))
    BY WorkspaceAssumption DEF History
  <1> HIDE DEF none
  <1>3. w \in Answered /\ w.pc = "answered" /\ w.history = none
    BY <1>2 DEF Answered
  <1> HIDE DEF w
  <1>4. WorkOK(w, Len(entries))
    BY <1>2, <1>3 DEF WorkOK
  <1> QED  BY <1>1, <1>4, OneWork

LEMMA ArriveKeeps ==
  ASSUME WorkspaceInv, NEW t \in WorkTabs, Arrive(t)
  PROVE  WorkspaceInv'
  <1>1. WorkOK(work[t], Len(entries)) /\ work[t].pc = "answered"
    BY DEF WorkspaceInv, Arrive
  <1>2. History(cookie', Len(entries))
    BY <1>1 DEF WorkOK, Arrive
  <1>3. WorkOK(Idle, Len(entries))
    BY DEF WorkOK, Idle
  <1>4. /\ \A u \in WorkTabs : WorkOK(work'[u], Len(entries))
        /\ work' \in [WorkTabs -> {Idle} \cup RunningRequest \cup Answered]
    BY <1>3 DEF WorkspaceInv, Arrive
  <1> QED  BY <1>2, <1>4 DEF WorkspaceInv, Arrive

LEMMA WorkspaceSteps ==
  ASSUME WorkspaceInv, [WorkspaceNext]_workspaceVars
  PROVE  WorkspaceInv'
  <1>1. CASE WorkspaceNext
    <2>1. PICK t \in WorkTabs :
             \/ SubmitText(t) \/ ExplainRefused(t) \/ Execute(t) \/ StatementFails(t)
             \/ ExecuteGenerated(t) \/ Explain(t) \/ FinishRequest(t) \/ ClearHistory(t)
             \/ Arrive(t)
      BY <1>1 DEF WorkspaceNext
    <2>2. CASE Execute(t)
      BY <2>2, OneMoreKeeps DEF Execute
    <2>3. CASE StatementFails(t)
      <3>1. PICK n \in 0 .. 1 : work' = [work EXCEPT ![t].error = TRUE, ![t].ran = @ + n]
        BY <2>3 DEF StatementFails
      <3> QED  BY <2>3, <3>1, StatementKeeps DEF StatementFails
    <2> QED  BY <2>1, <2>2, <2>3, SubmitKeeps, RefusedKeeps, ExecuteGeneratedKeeps,
                ExplainKeeps, FinishKeeps, ClearKeeps, ArriveKeeps
  <1>2. CASE UNCHANGED workspaceVars
    BY <1>2 DEF workspaceVars, WorkspaceInv
  <1> QED  BY <1>1, <1>2

LEMMA HistoryIsSound ==
  ASSUME WorkspaceInv
  PROVE  HistorySound
  <1>1. /\ cookie \in Seq(1 .. Len(entries)) /\ Len(entries) \in Nat
        /\ DOMAIN entries = 1 .. Len(entries)
    BY DEF WorkspaceInv, History
  <1>2. \A i \in DOMAIN cookie : EntryTrue(entries[cookie[i]])
    BY <1>1 DEF WorkspaceInv
  <1> QED  BY <1>2 DEF WorkspaceInv, History, HistorySound, NewestFirst, HistoryTruthful, EntryTrue

\* Whatever the tabs of a browser do, its history lists each request once, the newest
\* first, and says truly whether the request ran all of its statements.
THEOREM HistoryAlwaysSound == WorkspaceSpec => []HistorySound
<1>1. WorkspaceInit => WorkspaceInv
  BY WorkspaceBegins
<1>2. WorkspaceInv /\ [WorkspaceNext]_workspaceVars => WorkspaceInv'
  BY WorkspaceSteps
<1>3. WorkspaceInv => HistorySound
  BY HistoryIsSound
<1> QED  BY <1>1, <1>2, <1>3, PTL DEF WorkspaceSpec

-----------------------------------------------------------------------------
(* Option forms.                                                           *)

USE OptionAssumption

Texts == {"", "64M", "32M", "bad", "8.4.0"}
TextNames == {"bytesPerChunk", "targetVersion"}
AnyOptions == [flag : UNION {[S -> BOOLEAN] : S \in SUBSET Flags},
               text : UNION {[S -> Texts] : S \in SUBSET TextNames},
               list : UNION {[S -> SUBSET Objects] : S \in SUBSET Lists},
               advanced : SUBSET (FreeNames \cup Managed \cup KnownFields)]
AnyForm == [flag : [Flags -> BOOLEAN], text : [TextNames -> Texts], list : [Lists -> SUBSET Objects],
            advanced : SUBSET (FreeNames \cup Managed \cup KnownFields)]

\* What saving a form makes of a profile: each option is in one of the parts, and
\* says something.
Saved(o) ==
    /\ "chunking" \in DOMAIN o.flag
    /\ "bytesPerChunk" \in DOMAIN o.text <=> o.flag["chunking"]
    /\ \A k \in DOMAIN o.text : o.text[k] # ""
    /\ "bytesPerChunk" \in DOMAIN o.text => o.text["bytesPerChunk"] # "bad"
    /\ ~({"ddlOnly", "dataOnly"} \subseteq DOMAIN o.flag /\ o.flag["ddlOnly"] /\ o.flag["dataOnly"])
    /\ \A k \in DOMAIN o.list : o.list[k] # {}
    /\ Lists \subseteq DOMAIN o.list => o.list["includeTables"] \cap o.list["excludeTables"] = {}
    /\ o.advanced \cap (KnownFields \cup Managed) = {}

OptionInv ==
    /\ profile \in AnyOptions
    /\ profile # NoOptions => Saved(profile)
    /\ RunAsAsked

LEMMA TextFieldsAre ==
  DOMAIN TextFields = TextNames /\ \A k \in TextNames : TextFields[k] \subseteq Texts
  BY DEF TextFields, TextNames, Texts

\* The parts of options are functions of what they are about.
LEMMA Parts ==
  ASSUME NEW o \in AnyOptions
  PROVE  /\ DOMAIN o.flag \subseteq Flags /\ \A k \in DOMAIN o.flag : o.flag[k] \in BOOLEAN
         /\ DOMAIN o.text \subseteq TextNames /\ \A k \in DOMAIN o.text : o.text[k] \in Texts
         /\ DOMAIN o.list \subseteq Lists /\ \A k \in DOMAIN o.list : o.list[k] \subseteq Objects
         /\ o.text = [k \in DOMAIN o.text |-> o.text[k]]
         /\ o.list = [k \in DOMAIN o.list |-> o.list[k]]
         /\ o.flag = [k \in DOMAIN o.flag |-> o.flag[k]]
         /\ o.advanced \subseteq FreeNames \cup Managed \cup KnownFields
  <1>1. PICK S \in SUBSET Flags : o.flag \in [S -> BOOLEAN]
    BY DEF AnyOptions
  <1>2. PICK T \in SUBSET TextNames : o.text \in [T -> Texts]
    BY DEF AnyOptions
  <1>3. PICK L \in SUBSET Lists : o.list \in [L -> SUBSET Objects]
    BY DEF AnyOptions
  <1>4. o.advanced \subseteq FreeNames \cup Managed \cup KnownFields
    BY DEF AnyOptions
  <1> QED  BY <1>1, <1>2, <1>3, <1>4

LEMMA SameFunction ==
  ASSUME NEW f, NEW g, f = [k \in DOMAIN f |-> f[k]], g = [k \in DOMAIN g |-> g[k]],
         DOMAIN f = DOMAIN g, \A k \in DOMAIN f : f[k] = g[k]
  PROVE  f = g
  OBVIOUS

ShowsFlags(form, o) ==
    /\ \A k \in DOMAIN o.flag : form.flag[k] <=> o.flag[k]
    /\ \A k \in Flags : k \notin DOMAIN o.flag => (form.flag[k] <=> k \in {"users", "chunking"})

ShowsTexts(form, o) ==
    /\ \A k \in DOMAIN o.text : form.text[k] = o.text[k]
    /\ "bytesPerChunk" \notin DOMAIN o.text => form.text["bytesPerChunk"] = "64M"
    /\ "targetVersion" \notin DOMAIN o.text => form.text["targetVersion"] = ""

ShowsLists(form, o) ==
    /\ \A k \in DOMAIN o.list : form.list[k] = o.list[k]
    /\ \A k \in Lists \ DOMAIN o.list : form.list[k] = {}

\* What the form shows of options.
LEMMA FormStateIs ==
  ASSUME NEW o \in AnyOptions
  PROVE  LET form == FormState(o)
         IN /\ ShowsFlags(form, o) /\ ShowsTexts(form, o) /\ ShowsLists(form, o)
            /\ form.advanced = o.advanced \ KnownFields
            /\ form \in AnyForm
  <1> DEFINE form == FormState(o)
             flag == [k \in Flags |-> IF k \in DOMAIN o.flag THEN o.flag[k] ELSE Defaults.flag[k]]
             text == [k \in TextNames |-> IF k \in DOMAIN o.text THEN o.text[k] ELSE
                                          IF k \in DOMAIN Defaults.text THEN Defaults.text[k] ELSE ""]
             list == [k \in Lists |-> IF k \in DOMAIN o.list THEN o.list[k] ELSE {}]
             rest == o.advanced \ KnownFields
  <1>1. form = [flag |-> flag, text |-> text, list |-> list, advanced |-> rest]
    BY TextFieldsAre DEF FormState
  <1>2. \A k \in Flags : Defaults.flag[k] = (k \in {"users", "chunking"})
    BY DEF Defaults
  <1>3. DOMAIN Defaults.text = {"bytesPerChunk"} /\ Defaults.text["bytesPerChunk"] = "64M"
    BY DEF Defaults
  <1>4. /\ DOMAIN o.flag \subseteq Flags /\ \A k \in DOMAIN o.flag : o.flag[k] \in BOOLEAN
        /\ DOMAIN o.text \subseteq TextNames /\ \A k \in DOMAIN o.text : o.text[k] \in Texts
        /\ DOMAIN o.list \subseteq Lists /\ \A k \in DOMAIN o.list : o.list[k] \subseteq Objects
        /\ o.advanced \subseteq FreeNames \cup Managed \cup KnownFields
    BY Parts
  <1>5. /\ flag \in [Flags -> BOOLEAN]
        /\ \A k \in DOMAIN o.flag : flag[k] = o.flag[k]
        /\ \A k \in Flags : k \notin DOMAIN o.flag => flag[k] = (k \in {"users", "chunking"})
    <2> DEFINE d(k) == k \in {"users", "chunking"}
    <2>1. \A k \in Flags : d(k) \in BOOLEAN /\ Defaults.flag[k] = d(k)
      BY <1>2
    <2> HIDE DEF d
    <2>2. \A k \in Flags : flag[k] \in BOOLEAN
      BY <1>4, <2>1
    <2>3. flag \in [Flags -> BOOLEAN]
      BY <2>2
    <2>4. /\ \A k \in DOMAIN o.flag : flag[k] = o.flag[k]
          /\ \A k \in Flags : k \notin DOMAIN o.flag => flag[k] = d(k)
      BY <1>4, <2>1
    <2> QED  BY <2>3, <2>4 DEF d
  <1>6. /\ text \in [TextNames -> Texts]
        /\ \A k \in DOMAIN o.text : text[k] = o.text[k]
        /\ "bytesPerChunk" \notin DOMAIN o.text => text["bytesPerChunk"] = "64M"
        /\ "targetVersion" \notin DOMAIN o.text => text["targetVersion"] = ""
    BY <1>3, <1>4 DEF Texts, TextNames
  <1>7. /\ list \in [Lists -> SUBSET Objects]
        /\ \A k \in DOMAIN o.list : list[k] = o.list[k]
        /\ \A k \in Lists \ DOMAIN o.list : list[k] = {}
    BY <1>4
  <1>8. rest \in SUBSET (FreeNames \cup Managed \cup KnownFields)
    BY <1>4
  <1> HIDE DEF flag, text, list, rest, form
  <1>9. form.flag = flag /\ form.text = text /\ form.list = list /\ form.advanced = rest /\ form \in AnyForm
    BY <1>1, <1>5, <1>6, <1>7, <1>8 DEF AnyForm
  <1>10. ShowsFlags(form, o)
    BY <1>5, <1>9 DEF ShowsFlags
  <1>11. ShowsTexts(form, o) /\ ShowsLists(form, o)
    BY <1>6, <1>7, <1>9 DEF ShowsTexts, ShowsLists
  <1> QED  BY <1>9, <1>10, <1>11 DEF form, rest

\* What comes back is a form.
LEMMA EditedIs ==
  ASSUME NEW form \in AnyForm, NEW sent \in Edited(form)
  PROVE  sent \in AnyForm
  <1>1. /\ form.flag \in [Flags -> BOOLEAN] /\ form.text \in [TextNames -> Texts]
        /\ form.list \in [Lists -> SUBSET Objects]
        /\ form.advanced \in SUBSET (FreeNames \cup Managed \cup KnownFields)
    BY DEF AnyForm
  <1>2. ASSUME NEW k \in Flags
        PROVE  [form EXCEPT !.flag[k] = ~@] \in AnyForm
    <2> DEFINE new == [form.flag EXCEPT ![k] = ~@]
    <2>1. new \in [Flags -> BOOLEAN]
      BY <1>1
    <2>2. [form EXCEPT !.flag[k] = ~@] = [form EXCEPT !.flag = new]
      BY DEF AnyForm
    <2> HIDE DEF new
    <2> QED  BY <2>1, <2>2 DEF AnyForm
  <1>3. ASSUME NEW k \in TextNames, NEW v \in Texts
        PROVE  [form EXCEPT !.text[k] = v] \in AnyForm
    BY DEF AnyForm
  <1>4. ASSUME NEW k \in Lists, NEW S \in SUBSET Objects
        PROVE  [form EXCEPT !.list[k] = S] \in AnyForm
    BY DEF AnyForm
  <1>5. ASSUME NEW S \in SUBSET (FreeNames \cup Managed \cup {"users"})
        PROVE  [form EXCEPT !.advanced = S] \in AnyForm
    BY DEF AnyForm, KnownFields, Flags
  <1>6. CASE sent \in UNION {{[form EXCEPT !.text[k] = v] : v \in TextFields[k]} : k \in DOMAIN TextFields}
    <2>1. PICK k \in DOMAIN TextFields : \E v \in TextFields[k] : sent = [form EXCEPT !.text[k] = v]
      BY <1>6
    <2>2. k \in TextNames /\ TextFields[k] \subseteq Texts
      BY TextFieldsAre
    <2> QED  BY <1>3, <2>1, <2>2
  <1>7. CASE sent \in UNION {{[form EXCEPT !.list[k] = S] : S \in SUBSET Objects} : k \in Lists}
    <2>1. PICK k \in Lists : \E S \in SUBSET Objects : sent = [form EXCEPT !.list[k] = S]
      BY <1>7
    <2> QED  BY <1>4, <2>1
  <1>8. CASE sent \in {[form EXCEPT !.flag[k] = ~@] : k \in Flags}
    <2>1. PICK k \in Flags : sent = [form EXCEPT !.flag[k] = ~@]
      BY <1>8
    <2> QED  BY <1>2, <2>1
  <1>9. CASE sent \in {[form EXCEPT !.advanced = S] : S \in SUBSET (FreeNames \cup Managed \cup {"users"})}
    <2>1. PICK S \in SUBSET (FreeNames \cup Managed \cup {"users"}) : sent = [form EXCEPT !.advanced = S]
      BY <1>9
    <2> QED  BY <1>5, <2>1
  <1>10. CASE sent = form
    BY <1>10
  <1> QED
    <2> DEFINE flags == {[form EXCEPT !.flag[k] = ~@] : k \in Flags}
               texts == UNION {{[form EXCEPT !.text[k] = v] : v \in TextFields[k]} : k \in DOMAIN TextFields}
               lists == UNION {{[form EXCEPT !.list[k] = S] : S \in SUBSET Objects} : k \in Lists}
               rests == {[form EXCEPT !.advanced = S] : S \in SUBSET (FreeNames \cup Managed \cup {"users"})}
    <2>1. Edited(form) = {form} \cup flags \cup texts \cup lists \cup rests
      BY DEF Edited
    <2> HIDE DEF flags, texts, lists, rests
    <2>2. \/ sent = form \/ sent \in flags \/ sent \in texts \/ sent \in lists \/ sent \in rests
      BY <2>1
    <2> QED  BY <1>6, <1>7, <1>8, <1>9, <1>10, <2>2 DEF flags, texts, lists, rests

\* What is built from a form.
LEMMA BuiltIs ==
  ASSUME NEW form \in AnyForm
  PROVE  LET o == Built(form)
         IN /\ o.flag = form.flag /\ o.advanced = form.advanced
            /\ \A k \in DOMAIN o.text : k \in TextNames
            /\ "bytesPerChunk" \in DOMAIN o.text <=> form.flag["chunking"]
            /\ "targetVersion" \in DOMAIN o.text <=> form.text["targetVersion"] # ""
            /\ \A k \in DOMAIN o.text : /\ form.text[k] # "" => o.text[k] = form.text[k]
                                        /\ form.text[k] = "" => o.text[k] = "64M"
            /\ DOMAIN o.list = {k \in Lists : form.list[k] # {}}
            /\ \A k \in DOMAIN o.list : o.list[k] = form.list[k]
            /\ o.text = [k \in DOMAIN o.text |-> o.text[k]]
            /\ o.list = [k \in DOMAIN o.list |-> o.list[k]]
            /\ o = [flag |-> o.flag, text |-> o.text, list |-> o.list, advanced |-> o.advanced]
  <1> DEFINE o == Built(form)
             filled == {k \in TextNames : IF k = "bytesPerChunk" THEN form.flag["chunking"] ELSE form.text[k] # ""}
             listed == {k \in Lists : form.list[k] # {}}
             text == [k \in filled |-> IF form.text[k] = "" THEN Defaults.text[k] ELSE form.text[k]]
             list == [k \in listed |-> form.list[k]]
  <1>1. Shown(form) = filled
    <2>1. Shown(form) = {k \in TextNames : IF k = "bytesPerChunk" THEN form.flag.chunking ELSE form.text[k] # ""}
      BY TextFieldsAre DEF Shown
    <2>2. form.flag.chunking = form.flag["chunking"]
      BY DEF AnyForm, Flags
    <2> QED  BY <2>1, <2>2
  <1>2. o = [flag |-> form.flag, text |-> text, list |-> list, advanced |-> form.advanced]
    BY <1>1 DEF Built
  <1>3. Defaults.text["bytesPerChunk"] = "64M"
    BY DEF Defaults
  <1>4. /\ "bytesPerChunk" \in filled <=> form.flag["chunking"]
        /\ "targetVersion" \in filled <=> form.text["targetVersion"] # ""
        /\ filled \subseteq TextNames
        /\ \A k \in filled : form.text[k] = "" => k = "bytesPerChunk"
    BY DEF TextNames
  <1> HIDE DEF filled
  <1>5. /\ DOMAIN text = filled /\ text = [k \in DOMAIN text |-> text[k]]
        /\ \A k \in filled : /\ form.text[k] # "" => text[k] = form.text[k]
                             /\ form.text[k] = "" => text[k] = "64M"
    BY <1>3, <1>4
  <1>6. /\ DOMAIN list = listed /\ list = [k \in DOMAIN list |-> list[k]]
        /\ \A k \in listed : list[k] = form.list[k]
    OBVIOUS
  <1> HIDE DEF o, text, list, listed
  <1>7. /\ o.flag = form.flag /\ o.advanced = form.advanced /\ o.text = text /\ o.list = list
        /\ o = [flag |-> o.flag, text |-> o.text, list |-> o.list, advanced |-> o.advanced]
    BY <1>2
  <1>8. /\ \A k \in DOMAIN o.text : k \in TextNames
        /\ "bytesPerChunk" \in DOMAIN o.text <=> form.flag["chunking"]
        /\ "targetVersion" \in DOMAIN o.text <=> form.text["targetVersion"] # ""
        /\ o.text = [k \in DOMAIN o.text |-> o.text[k]]
    BY <1>4, <1>5, <1>7
  <1>9. \A k \in DOMAIN o.text : /\ form.text[k] # "" => o.text[k] = form.text[k]
                                 /\ form.text[k] = "" => o.text[k] = "64M"
    BY <1>5, <1>7
  <1>10. /\ DOMAIN o.list = {k \in Lists : form.list[k] # {}}
         /\ \A k \in DOMAIN o.list : o.list[k] = form.list[k]
         /\ o.list = [k \in DOMAIN o.list |-> o.list[k]]
    BY <1>6, <1>7 DEF listed
  <1> QED  BY <1>7, <1>8, <1>9, <1>10 DEF o

\* A form that is accepted makes a profile of which nothing is hidden.
LEMMA SavedForm ==
  ASSUME NEW form \in AnyForm, ~FormRefused(form)
  PROVE  Built(form) \in AnyOptions /\ Saved(Built(form))
  <1> DEFINE o == Built(form)
  <1>1. /\ o.flag = form.flag /\ o.advanced = form.advanced
        /\ \A k \in DOMAIN o.text : k \in TextNames
        /\ "bytesPerChunk" \in DOMAIN o.text <=> form.flag["chunking"]
        /\ \A k \in DOMAIN o.text : /\ form.text[k] # "" => o.text[k] = form.text[k]
                                    /\ form.text[k] = "" => o.text[k] = "64M"
        /\ DOMAIN o.list = {k \in Lists : form.list[k] # {}}
        /\ \A k \in DOMAIN o.list : o.list[k] = form.list[k]
        /\ o.text = [k \in DOMAIN o.text |-> o.text[k]] /\ o.list = [k \in DOMAIN o.list |-> o.list[k]]
        /\ o = [flag |-> o.flag, text |-> o.text, list |-> o.list, advanced |-> o.advanced]
    BY BuiltIs
  <1>2. /\ form.flag \in [Flags -> BOOLEAN] /\ form.text \in [TextNames -> Texts]
        /\ form.list \in [Lists -> SUBSET Objects]
        /\ form.advanced \in SUBSET (FreeNames \cup Managed \cup KnownFields)
    BY DEF AnyForm
  <1>3. /\ ~(form.flag["ddlOnly"] /\ form.flag["dataOnly"])
        /\ ~(form.flag["chunking"] /\ form.text["bytesPerChunk"] = "bad")
        /\ form.list["includeTables"] \cap form.list["excludeTables"] = {}
        /\ form.advanced \cap (KnownFields \cup Managed) = {}
    BY <1>2 DEF FormRefused, AdvancedRefused, Flags, TextNames, Lists
  <1> HIDE DEF o
  <1>4. o.text \in UNION {[S -> Texts] : S \in SUBSET TextNames}
    <2>1. \A k \in DOMAIN o.text : o.text[k] \in Texts
      BY <1>1, <1>2 DEF Texts
    <2>2. o.text \in [DOMAIN o.text -> Texts] /\ DOMAIN o.text \in SUBSET TextNames
      BY <1>1, <2>1
    <2> QED  BY <2>2
  <1>5. o.list \in UNION {[S -> SUBSET Objects] : S \in SUBSET Lists}
    <2>1. \A k \in DOMAIN o.list : o.list[k] \in SUBSET Objects
      BY <1>1, <1>2
    <2>2. o.list \in [DOMAIN o.list -> SUBSET Objects] /\ DOMAIN o.list \in SUBSET Lists
      BY <1>1, <2>1
    <2> QED  BY <2>2
  <1>6. o.flag \in UNION {[S -> BOOLEAN] : S \in SUBSET Flags}
    BY <1>1, <1>2
  <1>7. o \in AnyOptions
    BY <1>1, <1>2, <1>4, <1>5, <1>6 DEF AnyOptions
  <1>8. "chunking" \in DOMAIN o.flag /\ ("bytesPerChunk" \in DOMAIN o.text <=> o.flag["chunking"])
    BY <1>1, <1>2 DEF Flags
  <1>9. \A k \in DOMAIN o.text : o.text[k] # "" /\ (k = "bytesPerChunk" => o.text[k] # "bad")
    BY <1>1, <1>3
  <1>10. \A k \in DOMAIN o.list : o.list[k] # {} /\ o.list[k] = form.list[k]
    BY <1>1
  <1>11. Lists \subseteq DOMAIN o.list => o.list["includeTables"] \cap o.list["excludeTables"] = {}
    BY <1>3, <1>10 DEF Lists
  <1>12. Saved(o)
    BY <1>1, <1>3, <1>8, <1>9, <1>10, <1>11 DEF Saved
  <1> QED  BY <1>7, <1>12 DEF o

\* Opened and saved unchanged, a saved profile stays what it is.
LEMMA SavedKeeps ==
  ASSUME NEW o \in AnyOptions, Saved(o)
  PROVE  LET form == FormState(o)
         IN /\ ~FormRefused(form)
            /\ Keeps(o.flag, Built(form).flag) /\ Built(form).text = o.text
            /\ Built(form).list = o.list /\ Built(form).advanced = o.advanced
  <1> DEFINE form == FormState(o)
             new == Built(form)
  <1>1. /\ ShowsFlags(form, o) /\ ShowsTexts(form, o) /\ ShowsLists(form, o)
        /\ form.advanced = o.advanced \ KnownFields
        /\ form \in AnyForm
    BY FormStateIs
  <1>2. /\ new.flag = form.flag /\ new.advanced = form.advanced
        /\ \A k \in DOMAIN new.text : k \in TextNames
        /\ "bytesPerChunk" \in DOMAIN new.text <=> form.flag["chunking"]
        /\ "targetVersion" \in DOMAIN new.text <=> form.text["targetVersion"] # ""
        /\ \A k \in DOMAIN new.text : form.text[k] # "" => new.text[k] = form.text[k]
        /\ DOMAIN new.list = {k \in Lists : form.list[k] # {}}
        /\ \A k \in DOMAIN new.list : new.list[k] = form.list[k]
        /\ new.text = [k \in DOMAIN new.text |-> new.text[k]]
        /\ new.list = [k \in DOMAIN new.list |-> new.list[k]]
    BY <1>1, BuiltIs
  <1>3. /\ DOMAIN o.flag \subseteq Flags /\ DOMAIN o.text \subseteq TextNames /\ DOMAIN o.list \subseteq Lists
        /\ o.text = [k \in DOMAIN o.text |-> o.text[k]] /\ o.list = [k \in DOMAIN o.list |-> o.list[k]]
    BY Parts
  <1>4. /\ form.flag \in [Flags -> BOOLEAN] /\ form.text \in [TextNames -> Texts]
        /\ form.list \in [Lists -> SUBSET Objects]
    BY <1>1 DEF AnyForm
  <1> HIDE DEF form, new
  <1>5. o.advanced \cap (KnownFields \cup Managed) = {} /\ form.advanced = o.advanced
    BY <1>1 DEF Saved
  <1>6. ~(form.flag["ddlOnly"] /\ form.flag["dataOnly"])
    <2>1. "ddlOnly" \notin DOMAIN o.flag => ~form.flag["ddlOnly"]
      BY <1>1 DEF ShowsFlags, Flags
    <2>2. "dataOnly" \notin DOMAIN o.flag => ~form.flag["dataOnly"]
      BY <1>1 DEF ShowsFlags, Flags
    <2> QED  BY <1>1, <2>1, <2>2 DEF Saved, ShowsFlags
  <1>7. form.flag["chunking"] <=> o.flag["chunking"]
    BY <1>1 DEF Saved, ShowsFlags
  <1>8. ~(form.flag["chunking"] /\ form.text["bytesPerChunk"] = "bad")
    BY <1>1, <1>7 DEF Saved, ShowsTexts
  <1>9. form.list["includeTables"] \cap form.list["excludeTables"] = {}
    BY <1>1 DEF Saved, Lists, ShowsLists
  <1>10. ~FormRefused(form)
    <2>1. /\ form.flag.ddlOnly = form.flag["ddlOnly"] /\ form.flag.dataOnly = form.flag["dataOnly"]
          /\ form.flag.chunking = form.flag["chunking"]
          /\ form.text.bytesPerChunk = form.text["bytesPerChunk"]
          /\ form.list.includeTables = form.list["includeTables"]
          /\ form.list.excludeTables = form.list["excludeTables"]
      BY <1>4 DEF Flags, TextNames, Lists
    <2> QED  BY <1>5, <1>6, <1>8, <1>9, <2>1 DEF FormRefused, AdvancedRefused
  <1>11. DOMAIN new.text = DOMAIN o.text /\ \A k \in DOMAIN o.text : new.text[k] = o.text[k]
    <2>1. "bytesPerChunk" \in DOMAIN new.text <=> "bytesPerChunk" \in DOMAIN o.text
      BY <1>2, <1>7 DEF Saved
    <2>2. "targetVersion" \in DOMAIN new.text <=> "targetVersion" \in DOMAIN o.text
      <3>1. "targetVersion" \in DOMAIN o.text => form.text["targetVersion"] # ""
        BY <1>1 DEF Saved, ShowsTexts
      <3>2. "targetVersion" \notin DOMAIN o.text => form.text["targetVersion"] = ""
        BY <1>1 DEF ShowsTexts
      <3> QED  BY <1>2, <3>1, <3>2
    <2>3. \A k : k \in DOMAIN new.text <=> k \in DOMAIN o.text
      BY <1>2, <1>3, <2>1, <2>2 DEF TextNames
    <2>4. DOMAIN new.text = DOMAIN o.text
      BY <2>3
    <2>5. \A k \in DOMAIN o.text : form.text[k] = o.text[k] /\ form.text[k] # ""
      BY <1>1 DEF Saved, ShowsTexts
    <2> QED  BY <1>2, <2>4, <2>5
  <1>12. DOMAIN new.list = DOMAIN o.list /\ \A k \in DOMAIN o.list : new.list[k] = o.list[k]
    <2>1. \A k \in Lists : form.list[k] # {} <=> k \in DOMAIN o.list
      BY <1>1 DEF Saved, ShowsLists
    <2>2. DOMAIN new.list = DOMAIN o.list
      BY <1>2, <1>3, <2>1
    <2> QED  BY <1>1, <1>2, <2>2 DEF ShowsLists
  <1>13. new.text = o.text /\ new.list = o.list
    <2>1. new.text = o.text
      <3> DEFINE f == new.text  g == o.text
      <3>1. f = [k \in DOMAIN f |-> f[k]] /\ g = [k \in DOMAIN g |-> g[k]]
        BY <1>2, <1>3
      <3>2. DOMAIN f = DOMAIN g /\ \A k \in DOMAIN f : f[k] = g[k]
        BY <1>11
      <3> HIDE DEF f, g
      <3>3. f = g
        BY <3>1, <3>2, SameFunction
      <3> QED  BY <3>3 DEF f, g
    <2>2. new.list = o.list
      <3> DEFINE f == new.list  g == o.list
      <3>1. f = [k \in DOMAIN f |-> f[k]] /\ g = [k \in DOMAIN g |-> g[k]]
        BY <1>2, <1>3
      <3>2. DOMAIN f = DOMAIN g /\ \A k \in DOMAIN f : f[k] = g[k]
        BY <1>12
      <3> HIDE DEF f, g
      <3>3. f = g
        BY <3>1, <3>2, SameFunction
      <3> QED  BY <3>3 DEF f, g
    <2> QED  BY <2>1, <2>2
  <1>14. Keeps(o.flag, new.flag)
    <2>1. \A k \in DOMAIN o.flag : k \in DOMAIN form.flag /\ form.flag[k] \in BOOLEAN
      BY <1>3, <1>4
    <2>2. \A k \in DOMAIN o.flag : o.flag[k] \in BOOLEAN
      BY Parts
    <2>3. \A k \in DOMAIN o.flag : form.flag[k] = o.flag[k]
      BY <1>1, <2>1, <2>2 DEF ShowsFlags
    <2> QED  BY <1>2, <2>1, <2>3 DEF Keeps
  <1> QED  BY <1>2, <1>5, <1>10, <1>13, <1>14 DEF form, new

-----------------------------------------------------------------------------
LEMMA EmptyFunction ==
  ASSUME NEW S
  PROVE  <<>> \in [{} -> S] /\ DOMAIN <<>> = {}
  <1>1. <<>> \in Seq(S)
    OBVIOUS
  <1>2. PICK n \in Nat : <<>> \in [1 .. n -> S]
    BY <1>1, SeqDef
  <1>3. DOMAIN <<>> = 1 .. n /\ DOMAIN <<>> = 1 .. Len(<<>>) /\ Len(<<>>) = 0
    BY <1>1, <1>2
  <1>4. 1 .. 0 = {}
    OBVIOUS
  <1> QED  BY <1>2, <1>3, <1>4

LEMMA NothingIsOptions == NoOptions \in AnyOptions
  <1>1. /\ <<>> \in UNION {[S -> BOOLEAN] : S \in SUBSET Flags}
        /\ <<>> \in UNION {[S -> Texts] : S \in SUBSET TextNames}
        /\ <<>> \in UNION {[S -> SUBSET Objects] : S \in SUBSET Lists}
    <2>1. {} \in SUBSET Flags /\ {} \in SUBSET TextNames /\ {} \in SUBSET Lists
      OBVIOUS
    <2>2. <<>> \in [{} -> BOOLEAN] /\ <<>> \in [{} -> Texts] /\ <<>> \in [{} -> SUBSET Objects]
      BY EmptyFunction
    <2> QED  BY <2>1, <2>2
  <1> QED  BY <1>1 DEF NoOptions, AnyOptions

LEMMA DefaultsAreSaved ==
  LET old == [Defaults EXCEPT !.flag = Only(@, {"users", "chunking"})]
  IN old \in AnyOptions /\ Saved(old)
  <1> DEFINE old == [Defaults EXCEPT !.flag = Only(@, {"users", "chunking"})]
             flag == [k \in {"users", "chunking"} |-> TRUE]
             text == [k \in {"bytesPerChunk"} |-> "64M"]
  <1>1. Only(Defaults.flag, {"users", "chunking"}) = flag
    <2>1. Defaults.flag = [k \in Flags |-> k \in {"users", "chunking"}]
      BY DEF Defaults
    <2>2. DOMAIN Defaults.flag \cap {"users", "chunking"} = {"users", "chunking"}
      BY <2>1 DEF Flags
    <2>3. \A k \in {"users", "chunking"} : Defaults.flag[k] = TRUE
      BY <2>1 DEF Flags
    <2> QED  BY <2>2, <2>3 DEF Only
  <1>2. old = [flag |-> flag, text |-> text, list |-> <<>>, advanced |-> {}]
    <2>1. Defaults = [flag |-> Defaults.flag, text |-> text, list |-> <<>>, advanced |-> {}]
      BY DEF Defaults
    <2>2. old = [Defaults EXCEPT !.flag = flag]
      BY <1>1
    <2> DEFINE was == Defaults.flag
               none == <<>>
    <2> HIDE DEF flag, text, old, was, none
    <2>3. [[flag |-> was, text |-> text, list |-> none, advanced |-> {}] EXCEPT !.flag = flag]
             = [flag |-> flag, text |-> text, list |-> none, advanced |-> {}]
      OBVIOUS
    <2>4. Defaults = [flag |-> was, text |-> text, list |-> none, advanced |-> {}]
      BY <2>1 DEF was, none
    <2>5. old = [flag |-> flag, text |-> text, list |-> none, advanced |-> {}]
      BY <2>2, <2>3, <2>4
    <2> QED  BY <2>5 DEF none
  <1>3. /\ flag \in [{"users", "chunking"} -> BOOLEAN] /\ {"users", "chunking"} \in SUBSET Flags
        /\ text \in [{"bytesPerChunk"} -> Texts] /\ {"bytesPerChunk"} \in SUBSET TextNames
        /\ <<>> \in UNION {[S -> SUBSET Objects] : S \in SUBSET Lists}
    <2>1. <<>> \in [{} -> SUBSET Objects] /\ {} \in SUBSET Lists
      BY EmptyFunction
    <2>2. /\ flag \in [{"users", "chunking"} -> BOOLEAN] /\ {"users", "chunking"} \in SUBSET Flags
          /\ text \in [{"bytesPerChunk"} -> Texts] /\ {"bytesPerChunk"} \in SUBSET TextNames
      BY DEF Flags, Texts, TextNames
    <2> HIDE DEF flag, text
    <2> QED  BY <2>1, <2>2
  <1>4. old \in AnyOptions
    BY <1>2, <1>3 DEF AnyOptions
  <1>5. /\ DOMAIN flag = {"users", "chunking"} /\ flag["chunking"] = TRUE
        /\ DOMAIN text = {"bytesPerChunk"} /\ text["bytesPerChunk"] = "64M"
        /\ DOMAIN <<>> = {}
    BY EmptyFunction
  <1> HIDE DEF flag, text
  <1>6. old.flag = flag /\ old.text = text /\ old.list = <<>> /\ old.advanced = {}
    BY <1>2
  <1> HIDE DEF old
  <1>7. Saved(old)
    <2>1. "chunking" \in DOMAIN old.flag /\ ("bytesPerChunk" \in DOMAIN old.text <=> old.flag["chunking"])
      BY <1>5, <1>6
    <2>2. \A k \in DOMAIN old.text : old.text[k] # "" /\ old.text[k] # "bad"
      BY <1>5, <1>6
    <2>3. ~({"ddlOnly", "dataOnly"} \subseteq DOMAIN old.flag)
      BY <1>5, <1>6
    <2>4. DOMAIN old.list = {} /\ ~(Lists \subseteq DOMAIN old.list)
      BY <1>5, <1>6 DEF Lists
    <2> QED  BY <1>6, <2>1, <2>2, <2>3, <2>4 DEF Saved
  <1> QED  BY <1>4, <1>7 DEF old

Excluded(list) == IF "excludeTables" \in DOMAIN list THEN list["excludeTables"] ELSE {}

\* A run leaves out what it was asked to.
LEMMA MergedIs ==
  ASSUME NEW o \in AnyOptions, NEW lakehouse
  PROVE  LET asked == "excludeLakehouseTables" \in DOMAIN o.flag /\ o.flag["excludeLakehouseTables"]
             m == Merged(o, lakehouse)
         IN /\ DOMAIN m.flag = DOMAIN o.flag \ {"excludeLakehouseTables"}
            /\ Excluded(m.list) = Excluded(o.list) \cup (IF asked THEN lakehouse ELSE {})
            /\ Keeps(Only(o.list, {"includeTables"}), m.list)
            /\ m.text = o.text /\ m.advanced = o.advanced
  <1> DEFINE asked == "excludeLakehouseTables" \in DOMAIN o.flag /\ o.flag["excludeLakehouseTables"]
             all == Excluded(o.list) \cup lakehouse
             flag == Only(o.flag, Flags \ {"excludeLakehouseTables"})
             more == [k \in DOMAIN o.list \cup {"excludeTables"} |->
                        IF k = "excludeTables" THEN all ELSE o.list[k]]
             m == Merged(o, lakehouse)
  <1>1. /\ o = [flag |-> o.flag, text |-> o.text, list |-> o.list, advanced |-> o.advanced]
        /\ DOMAIN o.flag \subseteq Flags
    BY Parts DEF AnyOptions
  <1>2. m = IF asked /\ all # {}
            THEN [flag |-> flag, text |-> o.text, list |-> more, advanced |-> o.advanced]
            ELSE [flag |-> flag, text |-> o.text, list |-> o.list, advanced |-> o.advanced]
    <2> DEFINE plain == [o EXCEPT !.flag = Only(@, Flags \ {"excludeLakehouseTables"})]
               A == "excludeLakehouseTables" \in DOMAIN o.flag /\ o.flag.excludeLakehouseTables
               X == (IF "excludeTables" \in DOMAIN o.list THEN o.list.excludeTables ELSE {}) \cup lakehouse
    <2>1. m = IF A /\ X # {}
              THEN [plain EXCEPT !.list = [k \in DOMAIN @ \cup {"excludeTables"} |->
                                             IF k = "excludeTables" THEN X ELSE @[k]]]
              ELSE plain
      BY DEF Merged
    <2>2. plain = [flag |-> flag, text |-> o.text, list |-> o.list, advanced |-> o.advanced]
      <3> HIDE DEF flag
      <3>1. plain = [o EXCEPT !.flag = flag]
        BY DEF flag
      <3> HIDE DEF plain
      <3> QED  BY <1>1, <3>1
    <2>3. A = asked /\ X = all
      <3>1. o.flag.excludeLakehouseTables = o.flag["excludeLakehouseTables"]
        OBVIOUS
      <3>2. o.list.excludeTables = o.list["excludeTables"]
        OBVIOUS
      <3> QED  BY <3>1, <3>2 DEF Excluded
    <2> HIDE DEF plain, A, X, flag, asked, all, m
    <2>4. [plain EXCEPT !.list = [k \in DOMAIN @ \cup {"excludeTables"} |->
                                    IF k = "excludeTables" THEN X ELSE @[k]]]
             = [flag |-> flag, text |-> o.text, list |-> more, advanced |-> o.advanced]
      <3>1. plain.list = o.list
        BY <2>2
      <3>2. [k \in DOMAIN plain.list \cup {"excludeTables"} |->
               IF k = "excludeTables" THEN X ELSE plain.list[k]] = more
        BY <2>3, <3>1
      <3> HIDE DEF more
      <3> QED  BY <2>2, <3>2
    <2> HIDE DEF more
    <2> QED  BY <2>1, <2>2, <2>3, <2>4
  <1>3. DOMAIN flag = DOMAIN o.flag \ {"excludeLakehouseTables"}
    BY <1>1 DEF Only
  <1>4. Excluded(more) = all /\ \A k \in DOMAIN o.list : k = "includeTables" => k \in DOMAIN more /\ more[k] = o.list[k]
    BY DEF Excluded
  <1>5. \A k \in DOMAIN Only(o.list, {"includeTables"}) :
           k = "includeTables" /\ k \in DOMAIN o.list /\ Only(o.list, {"includeTables"})[k] = o.list[k]
    BY DEF Only
  <1> HIDE DEF asked, all, flag, more, m
  <1>6. CASE asked /\ all # {}
    <2>1. m.flag = flag /\ m.text = o.text /\ m.list = more /\ m.advanced = o.advanced
      BY <1>2, <1>6
    <2>2. Keeps(Only(o.list, {"includeTables"}), m.list)
      BY <1>4, <1>5, <2>1 DEF Keeps
    <2> QED  BY <1>3, <1>4, <1>6, <2>1, <2>2 DEF all, asked, m
  <1>7. CASE ~(asked /\ all # {})
    <2>1. m.flag = flag /\ m.text = o.text /\ m.list = o.list /\ m.advanced = o.advanced
      BY <1>2, <1>7
    <2>2. Keeps(Only(o.list, {"includeTables"}), m.list)
      BY <1>5, <2>1 DEF Keeps
    <2>3. asked => lakehouse = {}
      BY <1>7 DEF all
    <2> QED  BY <1>3, <2>1, <2>2, <2>3 DEF asked, m
  <1> QED  BY <1>6, <1>7

LEMMA OptionsBegin == ASSUME OptionInit PROVE OptionInv
  <1>1. profile \in AnyOptions /\ (profile # NoOptions => Saved(profile))
    BY NothingIsOptions, DefaultsAreSaved DEF OptionInit
  <1>2. RunAsAsked
    <2> DEFINE e == NoOptions.list
    <2>1. /\ NoOptions.flag = <<>> /\ NoOptions.list = <<>> /\ DOMAIN <<>> = {}
      BY EmptyFunction DEF NoOptions
    <2>2. run.options = NoOptions /\ run.of = NoOptions /\ run.asked = FALSE
      BY DEF OptionInit, NoRun
    <2>3. DOMAIN Only(NoOptions.list, {"includeTables"}) = {}
      BY <2>1 DEF Only
    <2> QED  BY <2>1, <2>2, <2>3 DEF RunAsAsked, Keeps
  <1> QED  BY <1>1, <1>2 DEF OptionInv

LEMMA ResetRun == ASSUME run' = NoRun PROVE RunAsAsked'
  <1>1. NoOptions.flag = <<>> /\ NoOptions.list = <<>> /\ DOMAIN <<>> = {}
    BY EmptyFunction DEF NoOptions
  <1>2. run'.options = NoOptions /\ run'.of = NoOptions /\ run'.asked = FALSE
    BY DEF NoRun
  <1>3. DOMAIN Only(NoOptions.list, {"includeTables"}) = {}
    BY <1>1 DEF Only
  <1> QED  BY <1>1, <1>2, <1>3 DEF RunAsAsked, Keeps

\* The checkbox adds its option to those of the profile, and nothing else.
LEMMA Boxed ==
  ASSUME NEW p \in AnyOptions, NEW box \in BOOLEAN
  PROVE  LET o == IF box THEN [p EXCEPT !.flag = [k \in DOMAIN @ \cup {"excludeLakehouseTables"} |->
                                                     IF k = "excludeLakehouseTables" THEN TRUE ELSE @[k]]]
                  ELSE p
         IN /\ o \in AnyOptions
            /\ DOMAIN o.flag \ {"excludeLakehouseTables"} = DOMAIN p.flag \ {"excludeLakehouseTables"}
            /\ o.text = p.text /\ o.list = p.list /\ o.advanced = p.advanced
  <1> DEFINE flag == [k \in DOMAIN p.flag \cup {"excludeLakehouseTables"} |->
                        IF k = "excludeLakehouseTables" THEN TRUE ELSE p.flag[k]]
             o == [p EXCEPT !.flag = flag]
  <1>1. /\ DOMAIN p.flag \subseteq Flags /\ \A k \in DOMAIN p.flag : p.flag[k] \in BOOLEAN
    BY Parts
  <1>2. flag \in [DOMAIN p.flag \cup {"excludeLakehouseTables"} -> BOOLEAN]
    BY <1>1
  <1>3. DOMAIN p.flag \cup {"excludeLakehouseTables"} \in SUBSET Flags
    BY <1>1 DEF Flags
  <1>4. DOMAIN flag = DOMAIN p.flag \cup {"excludeLakehouseTables"}
    OBVIOUS
  <1> HIDE DEF flag
  <1>5. flag \in UNION {[S -> BOOLEAN] : S \in SUBSET Flags}
    BY <1>2, <1>3
  <1>6. o \in AnyOptions /\ o.flag = flag /\ o.text = p.text /\ o.list = p.list /\ o.advanced = p.advanced
    BY <1>5 DEF AnyOptions
  <1> HIDE DEF o
  <1>7. DOMAIN o.flag \ {"excludeLakehouseTables"} = DOMAIN p.flag \ {"excludeLakehouseTables"}
    BY <1>4, <1>6
  <1> QED  BY <1>6, <1>7 DEF o, flag

LEMMA DumpAsAsked == ASSUME OptionInv, Dump PROVE RunAsAsked'
  <1>1. PICK box \in BOOLEAN, lakehouse \in SUBSET Objects :
           LET o == IF box THEN [profile EXCEPT !.flag = [k \in DOMAIN @ \cup {"excludeLakehouseTables"} |->
                                                     IF k = "excludeLakehouseTables" THEN TRUE ELSE @[k]]]
                    ELSE profile
           IN run' = [options |-> Merged(o, lakehouse), of |-> profile, lakehouse |-> lakehouse,
                      asked |-> \E k \in DOMAIN o.flag : k = "excludeLakehouseTables" /\ o.flag[k]]
    BY DEF Dump
  <1> DEFINE o == IF box THEN [profile EXCEPT !.flag = [k \in DOMAIN @ \cup {"excludeLakehouseTables"} |->
                                                     IF k = "excludeLakehouseTables" THEN TRUE ELSE @[k]]]
                  ELSE profile
             asked == "excludeLakehouseTables" \in DOMAIN o.flag /\ o.flag["excludeLakehouseTables"]
             m == Merged(o, lakehouse)
             before == profile
  <1>2. /\ o \in AnyOptions
        /\ DOMAIN o.flag \ {"excludeLakehouseTables"} = DOMAIN before.flag \ {"excludeLakehouseTables"}
        /\ o.text = before.text /\ o.list = before.list /\ o.advanced = before.advanced
    BY Boxed DEF OptionInv
  <1>3. /\ run'.options = m /\ run'.of = before /\ run'.lakehouse = lakehouse
        /\ run'.asked <=> asked
    BY <1>1
  <1> HIDE DEF o
  <1>4. /\ DOMAIN m.flag = DOMAIN o.flag \ {"excludeLakehouseTables"}
        /\ Excluded(m.list) = Excluded(o.list) \cup (IF asked THEN lakehouse ELSE {})
        /\ Keeps(Only(o.list, {"includeTables"}), m.list)
        /\ m.text = o.text /\ m.advanced = o.advanced
    BY <1>2, MergedIs
  <1> HIDE DEF m, asked, before
  <1>5. /\ DOMAIN run'.options.flag = DOMAIN run'.of.flag \ {"excludeLakehouseTables"}
        /\ Excluded(run'.options.list) = Excluded(run'.of.list) \cup (IF run'.asked THEN run'.lakehouse ELSE {})
        /\ Keeps(Only(run'.of.list, {"includeTables"}), run'.options.list)
        /\ run'.options.text = run'.of.text /\ run'.options.advanced = run'.of.advanced
    BY <1>2, <1>3, <1>4
  <1>6. \A list : list.excludeTables = list["excludeTables"]
    OBVIOUS
  <1> QED  BY <1>5, <1>6 DEF RunAsAsked, Excluded, Keeps, Only

LEMMA OptionSteps ==
  ASSUME OptionInv, [OptionNext]_optionVars
  PROVE  OptionInv'
  <1>1. CASE SaveProfile
    <2>1. PICK form \in Edited(FormState(profile)) : ~FormRefused(form) /\ profile' = Built(form)
      BY <1>1 DEF SaveProfile
    <2>2. FormState(profile) \in AnyForm
      BY FormStateIs DEF OptionInv
    <2>3. form \in AnyForm
      BY <2>1, <2>2, EditedIs
    <2>4. profile' \in AnyOptions /\ Saved(profile')
      BY <2>1, <2>3, SavedForm
    <2>5. RunAsAsked'
      BY <1>1, ResetRun DEF SaveProfile
    <2> QED  BY <2>4, <2>5 DEF OptionInv
  <1>2. CASE DeleteProfile
    BY <1>2, NothingIsOptions, ResetRun DEF DeleteProfile, OptionInv
  <1>3. CASE Dump
    <2>1. RunAsAsked' /\ profile' = profile
      BY <1>3, DumpAsAsked DEF Dump
    <2> QED  BY <2>1 DEF OptionInv
  <1>4. CASE UNCHANGED optionVars
    BY <1>4 DEF optionVars, OptionInv, RunAsAsked, Keeps, Only
  <1> QED  BY <1>1, <1>2, <1>3, <1>4 DEF OptionNext

\* Whatever forms are edited and saved, for any tables and options without a field:
\* the form gives back every option of a profile, and a run has them, without the
\* option that only the form knows and with the Lakehouse tables it asks to leave out.
THEOREM OptionsAlwaysKept == OptionSpec => []OptionsKept
<1>1. OptionInit => OptionInv
  BY OptionsBegin
<1>2. OptionInv /\ [OptionNext]_optionVars => OptionInv'
  BY OptionSteps
<1>3. OptionInv => OptionsKept
  <2>1. ASSUME OptionInv, profile # NoOptions
        PROVE  FormKeepsOptions
    <3> DEFINE o == profile
    <3>1. o \in AnyOptions /\ Saved(o)
      BY <2>1 DEF OptionInv
    <3> QED  BY <3>1, SavedKeeps DEF FormKeepsOptions
  <2>2. profile = NoOptions => FormKeepsOptions
    BY DEF FormKeepsOptions
  <2> QED  BY <2>1, <2>2 DEF OptionInv, OptionsKept
<1> QED  BY <1>1, <1>2, <1>3, PTL DEF OptionSpec

-----------------------------------------------------------------------------
(* TableEdits.  That the submitted key can be sorted at all, and in one    *)
(* way: a column comes after those that precede it, and their number is    *)
(* its place.                                                              *)

EditInv ==
    /\ edit \in Edits
    /\ FormsTakeEffect

LEMMA ColumnFacts ==
  /\ IsFiniteSet(ColumnSet)
  /\ \A c \in ColumnSet : IndexOf(c) \in 1 .. Len(Columns) /\ Columns[IndexOf(c)] = c
  /\ Len(Columns) \in Nat
<1>1. Columns \in Seq(ColumnNames \ {Unnamed})
  BY ColumnAssumption
<1>2. DOMAIN Columns = 1 .. Len(Columns) /\ Len(Columns) \in Nat
  BY <1>1, LenProperties
<1>3. ColumnSet = {Columns[i] : i \in DOMAIN Columns}
  BY DEF ColumnSet, ToSet
<1>4. \A c \in ColumnSet : IndexOf(c) \in DOMAIN Columns /\ Columns[IndexOf(c)] = c
  BY <1>3 DEF IndexOf
<1>5. IsFiniteSet(1 .. Len(Columns))
  BY <1>2, FS_Interval
<1>6. [i \in 1 .. Len(Columns) |-> Columns[i]] \in Surjection(1 .. Len(Columns), ColumnSet)
  BY <1>2, <1>3 DEF Surjection
<1>7. IsFiniteSet(ColumnSet)
  BY <1>5, <1>6, FS_Surjection
<1> QED BY <1>2, <1>4, <1>7

\* The submitted key is sorted by an order in which no two columns are equal.
LEMMA PrecedesOrders ==
  ASSUME NEW form \in Edits
  PROVE  /\ \A c, d \in form.selected : c # d => Precedes(form, c, d) \/ Precedes(form, d, c)
         /\ \A c \in form.selected : ~Precedes(form, c, c)
         /\ \A c, d, e \in form.selected : Precedes(form, c, d) /\ Precedes(form, d, e) => Precedes(form, c, e)
         /\ form.selected \subseteq ColumnSet
<1>1. form.selected \subseteq ColumnSet /\ form.position \in [ColumnSet -> Positions]
  BY DEF Edits
<1>2. \A c \in ColumnSet : IndexOf(c) \in Nat
  BY ColumnFacts
<1>3. \A c \in ColumnSet : PositionOf(form, c) \in Nat
  BY <1>1, <1>2, ColumnFacts DEF PositionOf, Positions
<1>4. \A c, d \in ColumnSet : IndexOf(c) = IndexOf(d) => c = d
  BY ColumnFacts
<1> DEFINE P(c) == PositionOf(form, c)
<1> HIDE DEF P
<1>5. \A c, d \in ColumnSet : Precedes(form, c, d) <=> P(c) < P(d) \/ (P(c) = P(d) /\ IndexOf(c) < IndexOf(d))
  BY DEF Precedes, P
<1>6. \A c \in ColumnSet : P(c) \in Nat
  BY <1>3 DEF P
<1>7. \A c, d \in form.selected : c # d => Precedes(form, c, d) \/ Precedes(form, d, c)
  BY <1>1, <1>2, <1>4, <1>5, <1>6
<1>8. \A c \in form.selected : ~Precedes(form, c, c)
  BY <1>1, <1>2, <1>5, <1>6
<1>9. \A c, d, e \in form.selected : Precedes(form, c, d) /\ Precedes(form, d, e) => Precedes(form, c, e)
  BY <1>1, <1>2, <1>5, <1>6
<1> QED BY <1>1, <1>7, <1>8, <1>9

\* A sequence as long as a set that has no member twice has them all.
LEMMA AllThere ==
  ASSUME NEW S, IsFiniteSet(S), NEW s \in [1 .. Cardinality(S) -> S],
         \A i, j \in 1 .. Cardinality(S) : i < j => s[i] # s[j]
  PROVE  S = {s[i] : i \in 1 .. Cardinality(S)}
<1>1. Cardinality(S) \in Nat
  BY FS_CardinalityType
<1>2. s \in Injection(1 .. Cardinality(S), S)
  <2>1. \A i, j \in 1 .. Cardinality(S) : s[i] = s[j] => i = j
    BY <1>1
  <2> QED BY <2>1 DEF Injection, IsInjective
<1>3. IsFiniteSet(1 .. Cardinality(S)) /\ Cardinality(1 .. Cardinality(S)) = Cardinality(S)
  BY <1>1, FS_Interval
<1>4. s \in Surjection(1 .. Cardinality(S), S)
  BY <1>2, <1>3, FS_Injection
<1> QED BY <1>4 DEF Surjection

\* The selected columns up to c.
UpTo(form, c) == {d \in form.selected : d = c \/ Precedes(form, d, c)}

LEMMA KeySorted ==
  ASSUME NEW form \in Edits
  PROVE  /\ SelectedKey(form) \in [1 .. Cardinality(form.selected) -> form.selected]
         /\ Cardinality(form.selected) \in Nat
         /\ \A i, j \in 1 .. Cardinality(form.selected) :
               i < j => Precedes(form, SelectedKey(form)[i], SelectedKey(form)[j])
         /\ form.selected = {SelectedKey(form)[i] : i \in 1 .. Cardinality(form.selected)}
<1> DEFINE S == form.selected
           n == Cardinality(S)
           rank == [c \in S |-> Cardinality(UpTo(form, c))]
<1>1. IsFiniteSet(S) /\ n \in Nat
  BY PrecedesOrders, ColumnFacts, FS_Subset, FS_CardinalityType
<1>2. \A c \in S : /\ UpTo(form, c) \subseteq S /\ c \in UpTo(form, c) /\ IsFiniteSet(UpTo(form, c))
                    /\ rank[c] \in 1 .. n
  <2> SUFFICES ASSUME NEW c \in S
               PROVE  /\ UpTo(form, c) \subseteq S /\ c \in UpTo(form, c) /\ IsFiniteSet(UpTo(form, c))
                      /\ Cardinality(UpTo(form, c)) \in 1 .. n
    OBVIOUS
  <2>1. UpTo(form, c) \subseteq S /\ c \in UpTo(form, c)
    BY DEF UpTo
  <2> HIDE DEF S
  <2>2. IsFiniteSet(UpTo(form, c)) /\ Cardinality(UpTo(form, c)) <= n
    BY <1>1, <2>1, FS_Subset
  <2>3. Cardinality(UpTo(form, c)) \in Nat /\ Cardinality(UpTo(form, c)) # 0
    BY <2>1, <2>2, FS_CardinalityType, FS_EmptySet
  <2> QED BY <1>1, <2>1, <2>2, <2>3
<1>3. \A c, d \in S : Precedes(form, c, d) => rank[c] < rank[d]
  <2> SUFFICES ASSUME NEW c \in S, NEW d \in S, Precedes(form, c, d)
               PROVE  Cardinality(UpTo(form, c)) < Cardinality(UpTo(form, d))
    OBVIOUS
  <2>1. UpTo(form, c) \subseteq UpTo(form, d)
    BY PrecedesOrders DEF UpTo
  <2>2. d \in UpTo(form, d) /\ d \notin UpTo(form, c)
    BY PrecedesOrders DEF UpTo
  <2>3. Cardinality(UpTo(form, c)) <= Cardinality(UpTo(form, d))
        /\ Cardinality(UpTo(form, c)) # Cardinality(UpTo(form, d))
    BY <1>2, <2>1, <2>2, FS_Subset
  <2>4. Cardinality(UpTo(form, c)) \in Nat /\ Cardinality(UpTo(form, d)) \in Nat
    BY <1>2, FS_CardinalityType
  <2> QED BY <2>3, <2>4
<1>4. rank \in [S -> 1 .. n]
  BY <1>2
<1> HIDE DEF rank
<1>5. \A c, d \in S : rank[c] \in Nat /\ (rank[c] = rank[d] => c = d)
  BY <1>3, <1>4, PrecedesOrders
<1>6. rank \in Injection(S, 1 .. n)
  BY <1>4, <1>5 DEF Injection, IsInjective
<1>7. IsFiniteSet(1 .. n) /\ Cardinality(1 .. n) = n
  BY <1>1, FS_Interval
<1>8. rank \in Surjection(S, 1 .. n)
  BY <1>6, <1>7, FS_Injection
<1> DEFINE s == [i \in 1 .. n |-> CHOOSE c \in S : rank[c] = i]
<1>9. \A i \in 1 .. n : s[i] \in S /\ rank[s[i]] = i
  <2>1. \A i \in 1 .. n : \E c \in S : rank[c] = i
    BY <1>8 DEF Surjection
  <2> QED BY <2>1
<1>10. s \in [1 .. n -> S] /\ DOMAIN s = 1 .. n
  BY <1>9
<1> HIDE DEF s
<1>11. \A i, j \in 1 .. n : i < j => Precedes(form, s[i], s[j])
  <2> SUFFICES ASSUME NEW i \in 1 .. n, NEW j \in 1 .. n, i < j, ~Precedes(form, s[i], s[j])
               PROVE  FALSE
    OBVIOUS
  <2>1. s[i] = s[j] \/ Precedes(form, s[j], s[i])
    BY <1>9, PrecedesOrders
  <2>2. rank[s[i]] = i /\ rank[s[j]] = j
    BY <1>9
  <2>3. ~(rank[s[j]] < rank[s[i]]) /\ s[i] # s[j]
    BY <1>1, <2>2
  <2> QED BY <1>3, <1>9, <2>1, <2>3
<1> DEFINE k == SelectedKey(form)
<1>12. k \in [1 .. n -> S] /\ \A i, j \in DOMAIN k : i < j => Precedes(form, k[i], k[j])
  BY <1>10, <1>11 DEF SelectedKey
<1> HIDE DEF k
<1>13. \A i, j \in 1 .. n : i < j => Precedes(form, k[i], k[j])
  BY <1>12
<1>14. \A i, j \in 1 .. n : i < j => k[i] # k[j]
  BY <1>12, <1>13, PrecedesOrders
<1>15. S = {k[i] : i \in 1 .. n}
  <2> HIDE DEF S
  <2> QED BY <1>1, <1>12, <1>14, AllThere
<1> QED BY <1>1, <1>12, <1>13, <1>15 DEF k

\* The key after the statement is the submitted one, under the new names.
LEMMA KeyAfter ==
  ASSUME NEW form \in Edits
  PROVE  AfterAlter(form).key = IF form.present THEN Renamed(form, SelectedKey(form))
                                ELSE Renamed(form, form.key)
<1> DEFINE desired == Renamed(form, SelectedKey(form))
           old == Renamed(form, form.key)
           clauses == KeyClauses(form)
<1>1. clauses = IF ~form.present \/ old = desired THEN [drop |-> FALSE, add |-> <<>>]
                ELSE [drop |-> form.key # <<>>, add |-> desired]
  BY DEF KeyClauses
<1>2. AfterAlter(form).key = IF clauses.add # <<>> THEN clauses.add ELSE IF clauses.drop THEN <<>> ELSE old
  BY DEF AfterAlter
<1>3. form.key = <<>> => old = <<>>
  BY DEF Renamed
<1> HIDE DEF desired, old, clauses
<1>4. CASE ~form.present \/ old = desired
  <2>1. clauses.add = <<>> /\ ~clauses.drop
    BY <1>1, <1>4
  <2> QED BY <1>2, <1>4, <2>1 DEF desired, old
<1>5. CASE form.present /\ old # desired
  <2>1. clauses.add = desired /\ (clauses.drop <=> form.key # <<>>)
    BY <1>1, <1>5
  <2>2. AfterAlter(form).key = desired
    BY <1>2, <1>3, <1>5, <2>1
  <2> QED BY <1>5, <2>2 DEF desired
<1> QED BY <1>4, <1>5

LEMMA AlteredIsSubmitted ==
  ASSUME NEW form \in Edits, ~NamesRefused(form), ~PositionsRefused(form)
  PROVE  LET names == AfterAlter(form).names  key == AfterAlter(form).key
         IN /\ names = form.rename
            /\ \A c, d \in ColumnSet : c # d => Folded[names[c]] # Folded[names[d]]
            /\ form.present => /\ ToSet(key) = {names[c] : c \in form.selected}
                               /\ \A i, j \in DOMAIN key, c, d \in form.selected :
                                     /\ i < j /\ key[i] = names[c] /\ key[j] = names[d]
                                     => PositionOf(form, c) < PositionOf(form, d)
            /\ ~form.present => key = [i \in DOMAIN form.key |-> names[form.key[i]]]
<1> DEFINE names == AfterAlter(form).names
           key == AfterAlter(form).key
           S == form.selected
           n == Cardinality(S)
           k == SelectedKey(form)
<1>1. form.rename \in [ColumnSet -> ColumnNames] /\ S \subseteq ColumnSet
  BY DEF Edits
<1>2. names = form.rename
  <2>1. names = [c \in ColumnSet |-> IF c \in ChangeClauses(form) THEN form.rename[c] ELSE c]
    BY DEF AfterAlter
  <2>2. \A c \in ColumnSet : (IF c \in ChangeClauses(form) THEN form.rename[c] ELSE c) = form.rename[c]
    BY DEF ChangeClauses
  <2>3. names = [c \in ColumnSet |-> form.rename[c]]
    BY <2>1, <2>2
  <2> QED BY <1>1, <2>3
<1>3. \A c, d \in ColumnSet : c # d => Folded[form.rename[c]] # Folded[form.rename[d]]
  BY DEF NamesRefused
<1>4. form.present => key = [i \in DOMAIN k |-> form.rename[k[i]]]
  BY KeyAfter DEF Renamed
<1>5. ~form.present => key = [i \in DOMAIN form.key |-> form.rename[form.key[i]]]
  BY KeyAfter DEF Renamed
<1>6. /\ k \in [1 .. n -> S] /\ n \in Nat
      /\ \A i, j \in 1 .. n : i < j => Precedes(form, k[i], k[j])
      /\ S = {k[i] : i \in 1 .. n}
  BY KeySorted
<1> HIDE DEF names, key, k, n
<1>7. ASSUME form.present
      PROVE  /\ DOMAIN key = 1 .. n
             /\ \A i \in 1 .. n : key[i] = form.rename[k[i]]
  BY <1>4, <1>6, <1>7
<1>8. ASSUME form.present PROVE ToSet(key) = {form.rename[c] : c \in S}
  <2>1. ToSet(key) = {key[i] : i \in 1 .. n}
    BY <1>7, <1>8 DEF ToSet
  <2>2. {key[i] : i \in 1 .. n} = {form.rename[k[i]] : i \in 1 .. n}
    BY <1>7, <1>8
  <2>3. {form.rename[k[i]] : i \in 1 .. n} = {form.rename[c] : c \in S}
    BY <1>6
  <2> QED BY <2>1, <2>2, <2>3
<1>9. ASSUME form.present, NEW i \in DOMAIN key, NEW j \in DOMAIN key, NEW c \in S, NEW d \in S,
             i < j, key[i] = form.rename[c], key[j] = form.rename[d]
      PROVE  PositionOf(form, c) < PositionOf(form, d)
  <2>1. i \in 1 .. n /\ j \in 1 .. n /\ key[i] = form.rename[k[i]] /\ key[j] = form.rename[k[j]]
    BY <1>7, <1>9
  <2>2. k[i] \in S /\ k[j] \in S /\ Precedes(form, k[i], k[j])
    BY <1>6, <1>9, <2>1
  <2>3. k[i] = c /\ k[j] = d
    BY <1>1, <1>3, <1>9, <2>1, <2>2
  <2>4. c # d => PositionOf(form, c) # PositionOf(form, d)
    BY <1>9 DEF PositionsRefused
  <2>5. c # d
    BY <2>2, <2>3, PrecedesOrders
  <2> QED BY <2>2, <2>3, <2>4, <2>5 DEF Precedes
<1>10. names = form.rename /\ \A c, d \in ColumnSet : c # d => Folded[names[c]] # Folded[names[d]]
  BY <1>2, <1>3
<1>11. form.present => /\ ToSet(key) = {names[c] : c \in S}
                       /\ \A i, j \in DOMAIN key, c, d \in S :
                             /\ i < j /\ key[i] = names[c] /\ key[j] = names[d]
                             => PositionOf(form, c) < PositionOf(form, d)
  BY <1>2, <1>8, <1>9
<1>12. ~form.present => key = [i \in DOMAIN form.key |-> names[form.key[i]]]
  BY <1>2, <1>5
<1> QED BY <1>10, <1>11, <1>12 DEF names, key

LEMMA ExcludedIsChosen ==
  ASSUME NEW form \in Edits
  PROVE  /\ AfterExclusion(form) = form.exclude
         /\ Cardinality(ExclusionClauses(form)) = Cardinality(form.exclude \ form.excluded)
                                                  + Cardinality(form.excluded \ form.exclude)
<1> DEFINE A == form.exclude \ form.excluded
           B == form.excluded \ form.exclude
<1>1. form.exclude \subseteq ColumnSet /\ form.excluded \subseteq ColumnSet
  BY DEF Edits
<1>2. ExclusionClauses(form) = A \cup B
  BY <1>1 DEF ExclusionClauses
<1>3. AfterExclusion(form) = form.exclude
  BY <1>2 DEF AfterExclusion
<1>4. A \subseteq ColumnSet /\ B \subseteq ColumnSet /\ A \cap B = {}
  BY <1>1
<1> HIDE DEF A, B
<1>5. IsFiniteSet(A) /\ IsFiniteSet(B)
  BY <1>4, ColumnFacts, FS_Subset
<1>6. Cardinality(A \cup B) = Cardinality(A) + Cardinality(B) - Cardinality(A \cap B)
  BY <1>5, FS_Union
<1>7. Cardinality(A) \in Nat /\ Cardinality(B) \in Nat /\ Cardinality(A \cap B) = 0
  BY <1>4, <1>5, FS_CardinalityType, FS_EmptySet
<1>8. Cardinality(A \cup B) = Cardinality(A) + Cardinality(B)
  BY <1>6, <1>7
<1> QED BY <1>2, <1>3, <1>8 DEF A, B

\* For any number of columns, keys, names and positions, and however old the form
\* is, the one ALTER that it becomes leaves the columns, the primary key and the
\* exclusions as it says.
THEOREM FormsTakeTheirEffect ==
  EditSpec => []FormsTakeEffect
<1>1. EditInit => EditInv
  BY DEF EditInit, EditInv, FormsTakeEffect, AlteredAsSubmitted, ExcludedAsChosen, Unanswered
<1>2. EditInv /\ [EditNext]_<<edit, altered>> => EditInv'
  <2> SUFFICES ASSUME EditInv, [EditNext]_<<edit, altered>> PROVE EditInv'
    OBVIOUS
  <2>1. CASE ModifyColumns
    <3>1. edit' = edit /\ edit \in Edits
      BY <2>1 DEF ModifyColumns, EditInv
    <3>2. CASE altered' = Refused
      BY <3>1, <3>2 DEF EditInv, FormsTakeEffect, AlteredAsSubmitted, ExcludedAsChosen, Refused
    <3>3. CASE altered' # Refused
      <4>1. /\ altered' = [status |-> "altered", table |-> AfterAlter(edit)]
            /\ ~NamesRefused(edit) /\ ~PositionsRefused(edit)
        BY <2>1, <3>3 DEF ModifyColumns
      <4>2. altered'.status = "altered" /\ altered'.table = AfterAlter(edit)
        BY <4>1
      <4>3. AlteredAsSubmitted'
        BY <3>1, <4>1, <4>2, AlteredIsSubmitted DEF AlteredAsSubmitted
      <4>4. ExcludedAsChosen'
        BY <4>2 DEF ExcludedAsChosen
      <4> QED BY <3>1, <4>3, <4>4 DEF EditInv, FormsTakeEffect
    <3> QED BY <3>2, <3>3
  <2>2. CASE ExcludeColumns
    <3>1. edit' = edit /\ edit \in Edits
      BY <2>2 DEF ExcludeColumns, EditInv
    <3>2. /\ altered'.status = "excluded" /\ altered'.table = AfterExclusion(edit)
          /\ altered'.changed = Cardinality(ExclusionClauses(edit))
      BY <2>2 DEF ExcludeColumns
    <3>3. ExcludedAsChosen'
      BY <3>1, <3>2, ExcludedIsChosen DEF ExcludedAsChosen
    <3>4. AlteredAsSubmitted'
      BY <3>2 DEF AlteredAsSubmitted
    <3> QED BY <3>1, <3>3, <3>4 DEF EditInv, FormsTakeEffect
  <2>3. CASE UNCHANGED <<edit, altered>>
    BY <2>3 DEF EditInv, FormsTakeEffect, AlteredAsSubmitted, ExcludedAsChosen
  <2> QED BY <2>1, <2>2, <2>3 DEF EditNext
<1>3. EditInv => FormsTakeEffect
  BY DEF EditInv
<1> QED BY <1>1, <1>2, <1>3, PTL DEF EditSpec
=============================================================================
