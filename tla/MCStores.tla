----------------------------- MODULE MCStores -----------------------------
(* What several requests change that no lock protects, in one run of TLC:  *)
(* jobs against their limits (MysqlshJobs), the profile files              *)
(* (ConfigStores), a schema that is changed in several statements          *)
(* (SchemaAdmin) and events (EventAdmin).  The modules share no variable   *)
(* and no property speaks of two of them, so part picks the one that moves *)
(* while the others keep an initial state: all behaviours of each are      *)
(* there, without the product of their states.                             *)
EXTENDS MCMysqlshJobs, ConfigStores, SchemaAdmin, EventAdmin

CONSTANTS n0, n1, n1upper, x1, x2

VARIABLE part

SameFolded == [n \in ProfileNames |-> IF n = n1upper THEN n1 ELSE n]
OwnDirectory == [n \in ProfileNames |-> n]

\* The edits of profiles that overlap in one behaviour, and the names they use.
Profiles == [connections |-> [works |-> {"save", "delete", "password"}, names |-> {n1, n1upper}],
             objects     |-> [works |-> {"store", "activate", "remove"}, names |-> ProfileNames],
             oci         |-> [works |-> {"oci"}, names |-> {n1}]]

\* One foreign key, from x1 to x2.
OneChild == [f \in ForeignKeys |-> x1]
OneParent == [f \in ForeignKeys |-> x2]

\* The works of SchemaAdmin that overlap in one behaviour.
Changes == [changes |-> {"convert", "drop_tables"},
            keys    |-> {"fix", "modify", "drop_tables"},
            engine  |-> {"load", "convert"},
            unloads |-> {"load", "unload"},
            rebuilt |-> {"unload", "convert"},
            loads   |-> {"load", "fix"}]

StoresStart ==
    /\ part \in {"jobs", "events"} \cup DOMAIN Profiles \cup DOMAIN Changes
    /\ Init /\ StoresInit /\ SchemaInit
    /\ EventInit /\ (part # "events" => event = [e \in Events |-> "none"])

\* No job gets old enough to be purged; in the other runs of MysqlshJobs jobs do.
JobsMove ==
    /\ part = "jobs" /\ Next /\ aged' = aged
    /\ UNCHANGED <<editVars, schemaVars, eventVars, part>>

Edit(A) ==
    /\ part \in DOMAIN Profiles /\ A
    /\ UNCHANGED <<vars, schemaVars, eventVars, part>>
ProfilesMove ==
    \/ \E e \in Editors :
          \/ Edit(/\ AnyEdit(e)
                  /\ editor'[e].work \in Profiles[part].works
                  /\ editor'[e].name \in Profiles[part].names)
          \/ Edit(FindMissing(e)) \/ Edit(MakeStore(e)) \/ Edit(LoadStore(e))
          \/ Edit(UploadKey(e)) \/ Edit(KeepKey(e)) \/ Edit(RefuseProfile(e))
          \/ Edit(AcceptProfile(e)) \/ Edit(RefuseEdit(e)) \/ Edit(WriteStore(e))
          \/ Edit(RefuseOci(e)) \/ Edit(WriteOciKey(e)) \/ Edit(WriteOciConfig(e))
    \/ Edit(EditsCutOff)

Change(A) ==
    /\ part \in DOMAIN Changes /\ A
    /\ \A a \in Admins : asked'[a].work \in Changes[part] \cup {"none"}
    /\ UNCHANGED <<vars, editVars, eventVars, part>>
SchemaMoves ==
    \/ \E a \in Admins :
          \/ Change(PlanConversion(a)) \/ Change(PlanDropTables(a)) \/ Change(PlanFixes(a))
          \/ Change(PlanModify(a)) \/ Change(PlanLoad(a)) \/ Change(PlanUnload(a))
          \/ Change(DropDatabase(a)) \/ Change(Execute(a)) \/ Change(CheckKey(a))
          \/ Change(Fail(a)) \/ Change(FixFails(a)) \/ Change(Answer(a))
    \/ Change(ProcessEnds)

Happen(A) == part = "events" /\ A /\ UNCHANGED <<vars, editVars, schemaVars, part>>
EventsMove ==
    \/ Happen(EventFires)
    \/ \E a \in EventAdmins :
          \/ Happen(ListEvents(a)) \/ Happen(SubmitSelection(a)) \/ Happen(AlterEvent(a))
          \/ Happen(AnswerEvents(a)) \/ Happen(CreateEvent(a))

StoresRun ==
    /\ StoresStart
    /\ [][JobsMove \/ ProfilesMove \/ SchemaMoves \/ EventsMove]_<<vars,
          editVars, schemaVars, eventVars, part>>
=============================================================================
