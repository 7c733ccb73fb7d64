---------------------------- MODULE ConfigStores ----------------------------
(***************************************************************************)
(* The files an administrator edits: connection profiles and their SSH     *)
(* keys (modules/profile_store.py, admin_routes.py), Object Storage        *)
(* profiles (object_storage_util.py), OCI configurations                   *)
(* (config_services.py).                                                   *)
(*                                                                         *)
(* An edit reads a whole file, changes what it has read and writes the     *)
(* whole file back, by rename; nothing is locked meanwhile.  Keys are      *)
(* files of their own, written before the profile that names them.         *)
(***************************************************************************)
EXTENDS Naturals, Sequences, FiniteSets, SequencesExt

CONSTANTS
    Editors,       \* requests of administrators that may overlap
    ProfileNames,  \* names of profiles of both kinds, and of OCI configurations
    FoldedName,    \* [ProfileNames -> ProfileNames]: the name in lower case
    KeyDirOf,      \* [ProfileNames -> ...]: safe_profile_key_dir_name
    Settings,      \* what else a profile says
    DefaultName,   \* DEFAULT
    LocalAdmin,    \* the profile with the password to be changed
    Missing,       \* no file, no setting, no key
    EditWorks      \* the edits that occur in this instance

AllEditWorks == {"save", "delete", "password", "store", "activate", "remove", "oci"}

ASSUME EditAssumption ==
    /\ {DefaultName, LocalAdmin} \subseteq ProfileNames
    /\ FoldedName \in [ProfileNames -> ProfileNames]
    /\ \A n \in ProfileNames : FoldedName[FoldedName[n]] = FoldedName[n]
    /\ Missing \notin ProfileNames \cup Settings /\ "cleared" \notin Settings
    /\ EditWorks \subseteq AllEditWorks

VARIABLES
    connections,  \* connection profiles: Missing or a set of rows
    sshKeys,      \* [directories -> Settings or Missing]: the key file in it
    objects,      \* Object Storage profiles: Missing or [active, rows]
    ociFiles,     \* [ProfileNames -> [key, config]]: the two files of a configuration
    editor,       \* [Editors -> the request being served]
    latest,       \* history: [store -> [name -> what the last answered edit made of it]]
    raced         \* history: the stores written by a request that had read them before
                  \* another one's write

storeFiles == <<connections, sshKeys, objects, ociFiles>>
editHistory == <<latest, raced>>
editVars == <<storeFiles, editor, editHistory>>

KeyDirs == {KeyDirOf[n] : n \in ProfileNames}
Keys == {FoldedName[n] : n \in ProfileNames}
ProfileRow(name, value, key) == [name |-> name, value |-> value, key |-> key]
EmptyDefault == ProfileRow(DefaultName, Missing, Missing)
SameName(n, m) == FoldedName[n] = FoldedName[m]
Has(rows, name) == \E row \in rows : SameName(row.name, name)
The(rows, name) == CHOOSE row \in rows : SameName(row.name, name)

\* The rows in their order, but for those that are gone.
Dropping(rows, gone) ==
    LET kept[i \in 0 .. Len(rows)] ==
            IF i = 0 THEN <<>>
            ELSE IF rows[i] \in gone THEN kept[i - 1] ELSE Append(kept[i - 1], rows[i])
    IN kept[Len(rows)]

Without(rows, name) == Dropping(rows, {row \in ToSet(rows) : SameName(row.name, name)})

NoEdit == [work |-> "none", at |-> "idle", name |-> DefaultName, value |-> Missing,
           upload |-> FALSE, snapshot |-> Missing]

StoreOf(work) == IF work \in {"save", "delete", "password"} THEN "connections" ELSE "objects"
FileOf(work) == IF StoreOf(work) = "connections" THEN connections ELSE objects

NothingEdited == [store \in {"connections", "objects"} |-> [k \in Keys |-> Missing]]
StoresInit ==
    /\ connections = Missing /\ objects = Missing
    /\ sshKeys = [d \in KeyDirs |-> Missing]
    /\ ociFiles = [n \in ProfileNames |-> [key |-> Missing, config |-> Missing]]
    /\ editor = [e \in Editors |-> NoEdit]
    /\ latest = NothingEdited /\ raced = {}

Move(e, from, to) == editor[e].at = from /\ editor' = [editor EXCEPT ![e].at = to]
Forget(e) == editor' = [editor EXCEPT ![e] = NoEdit]

StartEdit(e, work, name, value, upload) ==
    /\ editor[e].at = "idle" /\ work \in EditWorks
    /\ editor' = [editor EXCEPT ![e] = [NoEdit EXCEPT !.work = work, !.name = name, !.value = value,
                                           !.upload = upload,
                                           !.at = IF work = "oci" THEN "oci_key" ELSE "load"]]
    /\ UNCHANGED <<storeFiles, editHistory>>

-----------------------------------------------------------------------------
(* Reading a store; one that is not there is made first.                   *)

FindMissing(e) ==
    /\ FileOf(editor[e].work) = Missing /\ Move(e, "load", "make")
    /\ UNCHANGED <<storeFiles, editHistory>>

\* ensure_profile_store, ensure_object_storage_store; the store may be there by now.
MakeStore(e) ==
    /\ Move(e, "make", "load")
    /\ IF StoreOf(editor[e].work) = "connections"
       THEN connections' = {} /\ UNCHANGED objects
       ELSE objects' = [active |-> DefaultName, rows |-> <<EmptyDefault>>] /\ UNCHANGED connections
    /\ LET store == StoreOf(editor[e].work)
       IN IF FileOf(editor[e].work) = Missing THEN UNCHANGED <<latest, raced>>
          ELSE /\ raced' = raced \cup {store}
               /\ latest' = [latest EXCEPT ![store] = NothingEdited[store]]
    /\ UNCHANGED <<sshKeys, ociFiles>>

LoadStore(e) ==
    /\ editor[e].at = "load" /\ FileOf(editor[e].work) # Missing
    /\ editor' = [editor EXCEPT ![e].snapshot = FileOf(editor[e].work),
                                ![e].at = IF editor[e].work = "save" THEN "key" ELSE "write"]
    /\ UNCHANGED <<storeFiles, editHistory>>

-----------------------------------------------------------------------------
(* Connection profiles.                                                    *)

\* save_uploaded_profile_ssh_key; without an upload the key of the profile of
\* that name, read again, stays.
UploadKey(e) ==
    LET dir == KeyDirOf[editor[e].name]
    IN /\ Move(e, "key", "check") /\ editor[e].upload
       /\ sshKeys' = [sshKeys EXCEPT ![dir] = editor[e].value]
       /\ UNCHANGED <<connections, objects, ociFiles, editHistory>>

KeepKey(e) ==
    /\ Move(e, "key", "check") /\ ~editor[e].upload
    /\ UNCHANGED <<storeFiles, editHistory>>

\* An SSH profile without host, user or key is refused after the upload.
RefuseProfile(e) ==
    /\ editor[e].at = "check" /\ Forget(e)
    /\ UNCHANGED <<storeFiles, editHistory>>

AcceptProfile(e) == Move(e, "check", "write") /\ UNCHANGED <<storeFiles, editHistory>>

\* Mutant of KeyPath: the path is derived from the name.
KeyPathOfName(e, rows) == KeyDirOf[editor[e].name]

KeyPath(e, rows) ==
    IF editor[e].upload THEN KeyDirOf[editor[e].name]
    ELSE IF Has(rows, editor[e].name) THEN The(rows, editor[e].name).key ELSE Missing

\* Mutant of Deduped: the row that is saved is added to the ones that are there.
DedupedKeepingFirst(rows, row) == IF Has(rows, row.name) THEN rows ELSE rows \cup {row}

\* save_profiles, after the rows of that name are taken out.
Deduped(rows, row) == {old \in rows : ~SameName(old.name, row.name)} \cup {row}

ChangedConnections(e) ==
    LET rows == editor[e].snapshot  name == editor[e].name
    IN CASE editor[e].work = "save" ->
              Deduped(rows, ProfileRow(name, editor[e].value, KeyPath(e, rows)))
         [] editor[e].work = "delete" -> {row \in rows : ~SameName(row.name, name)}
         [] OTHER -> {IF row.name = LocalAdmin THEN [row EXCEPT !.value = "cleared"] ELSE row :
                        row \in rows}

-----------------------------------------------------------------------------
(* Object Storage profiles.                                                *)

\* Mutant of Normalized: the active name is written as it is.
NormalizedAsGiven(active, rows) == [active |-> active, rows |-> rows]

\* normalize_object_storage_store: the active profile is one of the rows.
Normalized(active, rows) ==
    [active |-> IF Has(ToSet(rows), active) THEN The(ToSet(rows), active).name ELSE rows[1].name,
     rows |-> rows]

ChangedObjects(e) ==
    LET rows == editor[e].snapshot.rows  active == editor[e].snapshot.active  name == editor[e].name
        others == Dropping(Without(rows, name),
                           IF SameName(name, DefaultName) THEN {} ELSE {EmptyDefault})
    IN CASE editor[e].work = "store" ->
              Normalized(name, Append(others, ProfileRow(name, editor[e].value, Missing)))
         [] editor[e].work = "activate" -> Normalized(name, rows)
         [] OTHER -> Normalized(IF SameName(active, name) THEN Without(rows, name)[1].name ELSE active,
                                Without(rows, name))

\* What is not there cannot be deleted or activated, the last one stays; a password
\* change writes only if it was required.
RefusesEdit(e) ==
    LET work == editor[e].work  snapshot == editor[e].snapshot
    IN \/ work = "delete" /\ ~Has(snapshot, editor[e].name)
       \/ work = "password" /\ ~\E row \in snapshot : row.name = LocalAdmin /\ row.value # "cleared"
       \/ work \in {"activate", "remove"} /\ ~Has(ToSet(snapshot.rows), editor[e].name)
       \/ work = "remove" /\ Len(snapshot.rows) = 1

RefuseEdit(e) ==
    /\ editor[e].at = "write" /\ RefusesEdit(e) /\ Forget(e)
    /\ UNCHANGED <<storeFiles, editHistory>>

\* The file as a whole is replaced by the changed snapshot.
WriteStore(e) ==
    LET work == editor[e].work  store == StoreOf(work)  key == FoldedName[editor[e].name]
    IN /\ editor[e].at = "write" /\ ~RefusesEdit(e)
       /\ IF store = "connections"
          THEN connections' = ChangedConnections(e) /\ UNCHANGED objects
          ELSE objects' = ChangedObjects(e) /\ UNCHANGED connections
       /\ raced' = IF FileOf(work) = editor[e].snapshot THEN raced ELSE raced \cup {store}
       /\ latest' = CASE store \in raced' -> [latest EXCEPT ![store] = NothingEdited[store]]
                      [] store \notin raced' /\ work \in {"save", "store"} ->
                            [latest EXCEPT ![store][key] = editor[e].value]
                      [] store \notin raced' /\ work \in {"delete", "remove"} ->
                            [latest EXCEPT ![store][key] = Missing]
                      [] store \notin raced' /\ work = "password" ->
                            [latest EXCEPT ![store][FoldedName[LocalAdmin]] = "cleared"]
                      [] OTHER -> latest
       /\ Forget(e)
       /\ UNCHANGED <<sshKeys, ociFiles>>

-----------------------------------------------------------------------------
(* OCI configurations: save_oci_config_fields.                             *)

RefuseOci(e) ==
    /\ editor[e].at = "oci_key" /\ ~editor[e].upload /\ ociFiles[editor[e].name].key = Missing
    /\ Forget(e)
    /\ UNCHANGED <<storeFiles, editHistory>>

\* Mutant of WriteOciKey: a new key is not written before the configuration.
WriteOciKeyLater(e) ==
    /\ Move(e, "oci_key", "oci_config")
    /\ UNCHANGED <<storeFiles, editHistory>>

WriteOciKey(e) ==
    /\ Move(e, "oci_key", "oci_config")
    /\ editor[e].upload \/ ociFiles[editor[e].name].key # Missing
    /\ ociFiles' = IF editor[e].upload THEN [ociFiles EXCEPT ![editor[e].name].key = editor[e].value]
                   ELSE ociFiles
    /\ UNCHANGED <<connections, sshKeys, objects, editHistory>>

WriteOciConfig(e) ==
    /\ editor[e].at = "oci_config" /\ Forget(e)
    /\ ociFiles' = [ociFiles EXCEPT ![editor[e].name].config = editor[e].value]
    /\ UNCHANGED <<connections, sshKeys, objects, editHistory>>

\* The web process ends, and every request with it.
EditsCutOff ==
    /\ \E e \in Editors : editor[e].at # "idle"
    /\ editor' = [e \in Editors |-> NoEdit]
    /\ UNCHANGED <<storeFiles, editHistory>>

\* A form arrives; only some have a value or a file.
AnyEdit(e) ==
    \E work \in EditWorks, name \in ProfileNames, value \in Settings, upload \in BOOLEAN :
        /\ work \in {"delete", "password", "activate", "remove"} =>
              value = (CHOOSE v \in Settings : TRUE)
        /\ work \notin {"save", "oci"} => ~upload
        /\ StartEdit(e, work, name, value, upload)

EditStep(e) ==
    \/ AnyEdit(e)
    \/ FindMissing(e) \/ MakeStore(e) \/ LoadStore(e)
    \/ UploadKey(e) \/ KeepKey(e) \/ RefuseProfile(e) \/ AcceptProfile(e)
    \/ RefuseEdit(e) \/ WriteStore(e)
    \/ RefuseOci(e) \/ WriteOciKey(e) \/ WriteOciConfig(e)

StoresNext == (\E e \in Editors : EditStep(e)) \/ EditsCutOff
StoresSpec == StoresInit /\ [][StoresNext]_editVars

-----------------------------------------------------------------------------
ValueIn(rows, k) == IF Has(rows, k) THEN The(rows, k).value ELSE Missing
Twice(rows) == \E row, other \in rows : row # other /\ SameName(row.name, other.name)

\* As long as no request writes over what another has written since it read,
\* every answered edit is in the file as it was last made, whatever the names'
\* case and the order of edits; with such an overlap one of the two is lost.
EditsKept ==
    /\ "connections" \notin raced /\ connections # Missing =>
          \A k \in Keys : ValueIn(connections, k) = latest["connections"][k]
    /\ "objects" \notin raced /\ objects # Missing =>
          \A k \in Keys : ValueIn(ToSet(objects.rows), k) = latest["objects"][k]

\* However edits overlap, the active Object Storage profile exists and there is
\* one, and no name is in a store twice.
StoresConsistent ==
    /\ objects # Missing => /\ objects.active \in {row.name : row \in ToSet(objects.rows)}
                            /\ IsInjective(objects.rows) /\ ~Twice(ToSet(objects.rows))
    /\ connections # Missing => ~Twice(connections)

\* A profile that names a key file, and a configuration that lists one, has it,
\* wherever a save was cut off.
KeyFilesThere ==
    /\ connections # Missing =>
          \A row \in connections : row.key # Missing => sshKeys[row.key] # Missing
    /\ \A n \in ProfileNames : ociFiles[n].config # Missing => ociFiles[n].key # Missing

\* Neither overlapping nor interrupted edits leave the stores with a name, a key
\* or an active profile that is not what the other file or row says it is.
FilesConsistent == StoresConsistent /\ KeyFilesThere
=============================================================================
