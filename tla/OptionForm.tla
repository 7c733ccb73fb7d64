------------------------------ MODULE OptionForm ------------------------------
(* The form of a MySQL Shell option profile (modules/mysqlsh_option_form.py):  *)
(* the options of a profile are shown in structured fields, lists of objects   *)
(* and a JSON text for all the rest, and are built again from what comes back; *)
(* a run takes the options of the profile and adds the Lakehouse tables that   *)
(* the server has by then to the excluded ones.  Of the fields a dump has, one *)
(* stands for each way of being read, shown and left out.                      *)
EXTENDS FiniteSets

CONSTANTS Objects,      \* tables that can be included, excluded or be Lakehouse tables
          FreeNames     \* option names without a field, not managed by DB Console

Flags == {"users", "ddlOnly", "dataOnly", "chunking", "excludeLakehouseTables"}
TextFields == [bytesPerChunk |-> {"", "64M", "32M", "bad"}, targetVersion |-> {"", "8.4.0"}]
Lists == {"includeTables", "excludeTables"}
KnownFields == Flags \cup DOMAIN TextFields \cup Lists
Managed == {"progressFile"}

ASSUME OptionAssumption == FreeNames \cap (KnownFields \cup Managed) = {}

VARIABLES profile,   \* the options of the stored profile, or NoOptions
          run        \* the options of the last run of this profile, and what they were made of
optionVars == <<profile, run>>

NoOptions == [flag |-> <<>>, text |-> <<>>, list |-> <<>>, advanced |-> {}]
NoRun == [options |-> NoOptions, of |-> NoOptions, lakehouse |-> {}, asked |-> FALSE]

Only(f, S) == [k \in DOMAIN f \cap S |-> f[k]]
Defaults == [flag |-> [k \in Flags |-> k \in {"users", "chunking"}],
             text |-> [k \in {"bytesPerChunk"} |-> "64M"], list |-> <<>>, advanced |-> {}]

\* Mutant of FormState: an option without a default is shown as an advanced one.
FormStateByDefaults(o) ==
  [flag     |-> [k \in Flags |-> IF k \in DOMAIN o.flag THEN o.flag[k] ELSE Defaults.flag[k]],
   text     |-> [k \in DOMAIN TextFields |-> IF k \in DOMAIN o.text THEN o.text[k] ELSE
                                        IF k \in DOMAIN Defaults.text THEN Defaults.text[k] ELSE ""],
   list     |-> [k \in Lists |-> IF k \in DOMAIN o.list THEN o.list[k] ELSE {}],
   advanced |-> o.advanced \cup (DOMAIN o.text \ DOMAIN Defaults.text)]

\* What the form shows: the option, else its default, else nothing; the advanced
\* options are those without a field.
FormState(o) ==
  [flag     |-> [k \in Flags |-> IF k \in DOMAIN o.flag THEN o.flag[k] ELSE Defaults.flag[k]],
   text     |-> [k \in DOMAIN TextFields |-> IF k \in DOMAIN o.text THEN o.text[k] ELSE
                                        IF k \in DOMAIN Defaults.text THEN Defaults.text[k] ELSE ""],
   list     |-> [k \in Lists |-> IF k \in DOMAIN o.list THEN o.list[k] ELSE {}],
   advanced |-> o.advanced \ KnownFields]

AdvancedRefused(form) == form.advanced \cap (KnownFields \cup Managed) # {}
FormRefused(form) ==
  \/ form.flag.ddlOnly /\ form.flag.dataOnly
  \/ form.flag.chunking /\ form.text.bytesPerChunk = "bad"
  \/ form.list.includeTables \cap form.list.excludeTables # {}
  \/ AdvancedRefused(form)

\* Every checkbox is an option; of the other fields those that say something.
Shown(form) == {k \in DOMAIN TextFields : IF k = "bytesPerChunk" THEN form.flag.chunking
                                                            ELSE form.text[k] # ""}
Built(form) ==
  [flag     |-> form.flag,
   text     |-> [k \in Shown(form) |-> IF form.text[k] = "" THEN Defaults.text[k] ELSE form.text[k]],
   list     |-> [k \in {l \in Lists : form.list[l] # {}} |-> form.list[k]],
   advanced |-> form.advanced]

\* A profile of an earlier version knows fewer options.
OptionInit ==
  /\ profile \in {NoOptions, [Defaults EXCEPT !.flag = Only(@, {"users", "chunking"})]}
  /\ run = NoRun

\* The form as it was shown, with one field changed.
Edited(form) ==
       {form} \cup {[form EXCEPT !.flag[k] = ~@] : k \in Flags}
  \cup (UNION {{[form EXCEPT !.text[k] = v] : v \in TextFields[k]} : k \in DOMAIN TextFields})
  \cup (UNION {{[form EXCEPT !.list[k] = S] : S \in SUBSET Objects} : k \in Lists})
  \cup {[form EXCEPT !.advanced = S] : S \in SUBSET (FreeNames \cup Managed \cup {"users"})}

\* A form that is refused leaves the profile as it is.
SaveProfile ==
  /\ \E form \in Edited(FormState(profile)) : ~FormRefused(form) /\ profile' = Built(form)
  /\ run' = NoRun

DeleteProfile == profile # NoOptions /\ profile' = NoOptions /\ run' = NoRun

\* Mutant of Merged: the option of the form stays among the options.
MergedWithOption(o, lakehouse) ==
  LET all == (IF "excludeTables" \in DOMAIN o.list THEN o.list.excludeTables ELSE {}) \cup lakehouse
  IN [o EXCEPT !.list = [k \in DOMAIN @ \cup {l \in {"excludeTables"} : all # {}} |->
                          IF k = "excludeTables" THEN all ELSE @[k]]]

\* merge_lakehouse_exclusions: the option of the form becomes excludeTables.
Merged(o, lakehouse) ==
  LET asked == "excludeLakehouseTables" \in DOMAIN o.flag /\ o.flag.excludeLakehouseTables
      all   == (IF "excludeTables" \in DOMAIN o.list THEN o.list.excludeTables ELSE {}) \cup lakehouse
      plain == [o EXCEPT !.flag = Only(@, Flags \ {"excludeLakehouseTables"})]
  IN IF asked /\ all # {}
     THEN [plain EXCEPT !.list = [k \in DOMAIN @ \cup {"excludeTables"} |->
                                   IF k = "excludeTables" THEN all ELSE @[k]]]
     ELSE plain

\* A dump of the profile, where the checkbox of the page can only add to it; the
\* tables are those the server has now.
Dump ==
  \E box \in BOOLEAN, lakehouse \in SUBSET Objects :
    LET o == IF box THEN [profile EXCEPT !.flag = [k \in DOMAIN @ \cup {"excludeLakehouseTables"} |->
                                                     IF k = "excludeLakehouseTables" THEN TRUE ELSE @[k]]]
                    ELSE profile
    IN /\ profile # NoOptions
       /\ run' = [options |-> Merged(o, lakehouse), of |-> profile, lakehouse |-> lakehouse,
                  asked |-> \E k \in DOMAIN o.flag : k = "excludeLakehouseTables" /\ o.flag[k]]
       /\ UNCHANGED profile

OptionNext == SaveProfile \/ DeleteProfile \/ Dump
OptionSpec == OptionInit /\ [][OptionNext]_optionVars
-----------------------------------------------------------------------------
Keeps(f, g) == \A k \in DOMAIN f : k \in DOMAIN g /\ g[k] = f[k]

\* A stored profile that is opened and saved again unchanged is accepted and keeps
\* every option it had, one of an earlier version included.
FormKeepsOptions ==
  LET form == FormState(profile) IN
  profile # NoOptions =>
    /\ ~FormRefused(form)
    /\ Keeps(profile.flag, Built(form).flag) /\ Built(form).text = profile.text
    /\ Built(form).list = profile.list /\ Built(form).advanced = profile.advanced

\* mysqlsh never sees the option that only the form knows; a run leaves out all the
\* Lakehouse tables if it was asked to, and otherwise has the options of its profile.
RunAsAsked ==
  LET excluded == IF "excludeTables" \in DOMAIN run.options.list THEN run.options.list.excludeTables ELSE {}
      before   == IF "excludeTables" \in DOMAIN run.of.list THEN run.of.list.excludeTables ELSE {}
  IN /\ DOMAIN run.options.flag = DOMAIN run.of.flag \ {"excludeLakehouseTables"}
     /\ excluded = before \cup (IF run.asked THEN run.lakehouse ELSE {})
     /\ Keeps(Only(run.of.list, {"includeTables"}), run.options.list)
     /\ run.options.text = run.of.text /\ run.options.advanced = run.of.advanced

\* An option that the profile has comes through the form and reaches mysqlsh, and
\* nothing is added to it but the Lakehouse tables that were asked to be left out.
OptionsKept == FormKeepsOptions /\ RunAsAsked
=============================================================================
