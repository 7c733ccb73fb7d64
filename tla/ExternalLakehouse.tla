------------------------- MODULE ExternalLakehouse -------------------------
(***************************************************************************)
(* The page of external Lakehouse tables (heatwave_external_table_page of  *)
(* modules/heatwave_routes.py with object_storage_util.py and oci_util.py):*)
(* it uploads a file, perhaps into a folder it makes first, and then lists *)
(* folders and files of the bucket, page by page, while others change it.  *)
(*                                                                         *)
(* A name is the sequence of its parts between "/"; the object that stands *)
(* for a folder itself ends with an empty part.                            *)
(***************************************************************************)
EXTENDS Naturals, Sequences, FiniteSets, SequencesExt

CONSTANTS
    Names,         \* the names that occur, a sequence in their order
    Base,          \* bucket_prefix of the profile, a folder
    Limit,         \* entries of one page
    MaxFolders, MaxObjects, MaxPages,
    MaxChanges,    \* bound: changes that others make to the bucket
    BucketFaults   \* the failures that occur in this instance

Objects == {Names[i] : i \in DOMAIN Names}
Parts == UNION {{n[i] : i \in DOMAIN n} : n \in Objects}

ASSUME LakehouseAssumption ==
    /\ {Limit, MaxObjects, MaxPages} \subseteq Nat \ {0} /\ MaxFolders \in Nat /\ MaxFolders > 1
    /\ MaxChanges \in Nat /\ BucketFaults \subseteq {"call"}
    /\ Names \in Seq(Seq(Parts) \ {<<>>}) /\ Base \in Seq(Parts)

Folders == {<<>>} \cup UNION {{SubSeq(n, 1, k) : k \in 1..Len(n) - 1} : n \in Objects}

VARIABLES
    bucket,    \* the names of the objects in the bucket
    view,      \* the request that the page serves, or its answer
    stayed,    \* history: names in the bucket ever since it began to list
    changes    \* how often others have changed the bucket

lakehouseVars == <<bucket, view, stayed, changes>>

Idle == [at |-> "answered", tab |-> "load", folder |-> <<>>, made |-> "", file |-> "",
         touched |-> FALSE, upload |-> "none", folders |-> {Base}, foldersError |-> "unlisted",
         files |-> {}, filesError |-> "none",
         pending |-> <<>>, start |-> 0, tokens |-> {}, pages |-> 0]

LakehouseInit == bucket \in SUBSET Objects /\ view = Idle /\ stayed = {} /\ changes = 0

-----------------------------------------------------------------------------
(* One page of the service: names from start on, those deeper than the     *)
(* next "/" folded into their folder, and where the next page starts.      *)

Under(n, prefix) == IsStrictPrefix(prefix, n)
Entry(n, prefix) == SubSeq(n, 1, Len(prefix) + 1)
Deeper(n, prefix) == Len(n) > Len(prefix) + 1

PageOf(prefix, start) ==
    LET rest == {i \in DOMAIN Names : i >= start /\ Names[i] \in bucket /\ Under(Names[i], prefix)}
        upTo(i) == {<<Entry(Names[j], prefix), Deeper(Names[j], prefix)>> : j \in {k \in rest : k <= i}}
        taken == {i \in rest : Cardinality(upTo(i)) <= Limit}
    IN [objects |-> {Names[i] : i \in {j \in taken : ~Deeper(Names[j], prefix)}},
        prefixes |-> {Entry(Names[i], prefix) : i \in {j \in taken : Deeper(Names[j], prefix)}},
        next |-> IF taken = rest THEN 0 ELSE CHOOSE i \in rest \ taken : \A j \in rest \ taken : i <= j]

-----------------------------------------------------------------------------
(* The request.                                                            *)

\* normalize_folder_for_target: no folder is the base, others lie under it.
Target(folder) == IF folder = <<>> THEN Base ELSE folder
OutsideBase(folder) == ~IsPrefix(Base, Target(folder))

\* What served the listing goes with the request.
Answered(v) == [v EXCEPT !.at = "answered", !.pending = <<>>, !.start = 0, !.tokens = {}, !.pages = 0,
                         !.touched = FALSE, !.made = "", !.file = ""]
Listing(v) == [v EXCEPT !.at = "folders", !.foldersError = "none", !.pending = <<Base>>,
                        !.touched = FALSE]
ListingFiles(v) ==
    IF v.tab = "upload" THEN Answered(v)
    ELSE IF OutsideBase(v.folder) THEN Answered([v EXCEPT !.filesError = "outside"])
    ELSE [Answered(v) EXCEPT !.at = "files"]

\* A file is sent, to a folder and perhaps a new one in it.
OpenUpload(folder, made, file) ==
    /\ view.at = "answered"
    /\ LET sent == [Idle EXCEPT !.tab = "upload", !.folder = folder, !.made = made, !.file = file]
       IN view' = IF OutsideBase(folder) THEN Listing([sent EXCEPT !.upload = "failed"])
                  ELSE [sent EXCEPT !.at = IF made = "" THEN "put" ELSE "make", !.folder = Target(folder)]
    /\ stayed' = bucket
    /\ UNCHANGED <<bucket, changes>>

\* The files of a folder are asked for; populated: the folders are as well.
OpenLoad(folder, populated) ==
    /\ view.at = "answered"
    /\ LET sent == [Idle EXCEPT !.folder = folder]
       IN view' = IF populated THEN Listing(sent) ELSE ListingFiles(sent)
    /\ stayed' = bucket
    /\ UNCHANGED <<bucket, changes>>

MakeFolder ==
    LET folder == Append(view.folder, view.made) IN
    /\ view.at = "make"
    /\ bucket' = bucket \cup {Append(folder, "")}
    /\ view' = [view EXCEPT !.at = "put", !.folder = folder]
    /\ stayed' = bucket'
    /\ UNCHANGED changes

PutObject ==
    LET name == Append(view.folder, view.file) IN
    /\ view.at = "put"
    /\ bucket' = bucket \cup {name}
    /\ view' = [view EXCEPT !.at = "head"]
    /\ stayed' = bucket'
    /\ UNCHANGED changes

\* The size that the service tells is compared; another's file may have the same.
HeadObject ==
    /\ view.at = "head"
    /\ \E told \in {"ok", "failed"} :
        /\ Append(view.folder, view.file) \notin bucket => told = "failed"
        /\ ~view.touched /\ Append(view.folder, view.file) \in bucket => told = "ok"
        /\ view' = Listing([view EXCEPT !.upload = told])
    /\ stayed' = bucket
    /\ UNCHANGED <<bucket, changes>>

-----------------------------------------------------------------------------
(* list_object_storage_folders: breadth first, a call per page.            *)

\* Mutant of TokenKey: a page token counts as seen whatever the folder.
TokenKeyAlone(prefix, next) == next

TokenKey(prefix, next) == <<prefix, next>>

FoldersFail(error) ==
    view' = ListingFiles([view EXCEPT !.foldersError = error, !.folders = {Base}, !.pending = <<>>])

\* What the page adds, in its order and no more than there is room for.
First(folder) == CHOOSE i \in DOMAIN Names : /\ Under(Names[i], folder)
                                             /\ \A j \in 1..i - 1 : ~Under(Names[j], folder)
InOrder(folders) ==
    CHOOSE s \in [1 .. Cardinality(folders) -> folders] :
        \A i, j \in DOMAIN s : i < j => First(s[i]) < First(s[j])
Added(page) ==
    LET new == InOrder(page.prefixes \ view.folders)
        room == MaxFolders - Cardinality(view.folders)
    IN SubSeq(new, 1, IF Len(new) < room THEN Len(new) ELSE room)

\* The folder's next page, or the next folder, or the end of the listing.
AfterPage(v, next) ==
    LET goesOn == next # 0
        left == IF goesOn THEN v.pending ELSE Tail(v.pending)
        w == [v EXCEPT !.pending = left, !.start = next,
                       !.tokens = IF goesOn THEN @ \cup {TokenKey(Head(v.pending), next)} ELSE @]
    IN IF left = <<>> \/ Cardinality(v.folders) >= MaxFolders
       THEN ListingFiles([w EXCEPT !.pending = <<>>]) ELSE w

\* Mutant of FolderPage: a page with no folder on it is taken for the last one.
FolderPageUntilEmpty ==
    LET prefix == Head(view.pending) page == PageOf(prefix, view.start) added == Added(page) IN
    /\ view.at = "folders"
    /\ IF view.pages >= MaxPages THEN FoldersFail("page_limit")
       ELSE IF TokenKey(prefix, page.next) \in view.tokens THEN FoldersFail("repeated")
       ELSE view' = AfterPage([view EXCEPT !.pages = @ + 1, !.folders = @ \cup ToSet(added),
                                           !.pending = @ \o added],
                              IF page.prefixes = {} THEN 0 ELSE page.next)
    /\ UNCHANGED <<bucket, stayed, changes>>

FolderPage ==
    LET prefix == Head(view.pending) page == PageOf(prefix, view.start) added == Added(page) IN
    /\ view.at = "folders"
    /\ IF view.pages >= MaxPages THEN FoldersFail("page_limit")
       ELSE IF TokenKey(prefix, page.next) \in view.tokens THEN FoldersFail("repeated")
       ELSE view' = AfterPage([view EXCEPT !.pages = @ + 1, !.folders = @ \cup ToSet(added),
                                           !.pending = @ \o added], page.next)
    /\ UNCHANGED <<bucket, stayed, changes>>

-----------------------------------------------------------------------------
(* list_object_storage_files: one folder, a call per page.                 *)

FilesFail(error) == view' = Answered([view EXCEPT !.filesError = error, !.files = {}])

FilesOf(page) == {n \in page.objects : Last(n) # ""}

\* Mutant of FilePage: at the limit the listing ends as the folders' does.
FilePageCutOff ==
    LET page == PageOf(Target(view.folder), view.start)
        found == view.files \cup FilesOf(page)
    IN /\ view.at = "files"
       /\ IF view.pages >= MaxPages THEN FilesFail("page_limit")
          ELSE IF page.next = 0 \/ Cardinality(found) >= MaxObjects
               THEN view' = Answered([view EXCEPT !.files = found])
          ELSE view' = [view EXCEPT !.pages = @ + 1, !.files = found, !.start = page.next]
       /\ UNCHANGED <<bucket, stayed, changes>>

FilePage ==
    LET page == PageOf(Target(view.folder), view.start)
        found == view.files \cup FilesOf(page)
    IN /\ view.at = "files"
       /\ IF view.pages >= MaxPages THEN FilesFail("page_limit")
          ELSE IF Cardinality(found) > MaxObjects THEN FilesFail("too_many")
          ELSE IF page.next = 0 THEN view' = Answered([view EXCEPT !.files = found])
          ELSE IF Cardinality(found) >= MaxObjects THEN FilesFail("truncated")
          ELSE IF page.next \in view.tokens THEN FilesFail("repeated")
          ELSE view' = [view EXCEPT !.pages = @ + 1, !.files = found, !.start = page.next,
                                    !.tokens = @ \cup {page.next}]
       /\ UNCHANGED <<bucket, stayed, changes>>

-----------------------------------------------------------------------------
(* Calls that fail, and other users of the bucket.                         *)

CallFails ==
    /\ "call" \in BucketFaults
    /\ \/ view.at \in {"make", "put", "head"} /\ view' = Listing([view EXCEPT !.upload = "failed"])
       \/ view.at = "folders" /\ FoldersFail("call")
       \/ view.at = "files" /\ FilesFail("call")
    /\ UNCHANGED <<bucket, stayed, changes>>

\* While a request is served: between requests the bucket is any, as at first.
OtherChanges(name) ==
    /\ changes < MaxChanges /\ view.at # "answered"
    /\ changes' = changes + 1
    /\ \/ bucket' = bucket \cup {name} /\ stayed' = stayed
       \/ bucket' = bucket \ {name} /\ stayed' = stayed \ {name}
    /\ view' = [view EXCEPT !.touched = @ \/ (view.at = "head" /\ name = Append(view.folder, view.file))]

\* A file is uploaded into its folder, or that is made on the way.
OpenUploads(folder, name) ==
    /\ Last(name) # ""
    /\ \/ Target(folder) = Front(name) /\ OpenUpload(folder, "", Last(name))
       \/ /\ Len(name) > 1 /\ Last(Front(name)) # "" /\ Append(Front(name), "") \in Objects
          /\ Target(folder) = Front(Front(name))
          /\ OpenUpload(folder, Last(Front(name)), Last(name))

LakehouseNext ==
    \/ \E folder \in Folders :
          \/ \E populated \in BOOLEAN : OpenLoad(folder, populated)
          \/ \E name \in Objects : OpenUploads(folder, name)
    \/ \E name \in Objects : OtherChanges(name)
    \/ MakeFolder \/ PutObject \/ HeadObject \/ FolderPage \/ FilePage \/ CallFails

LakehouseSpec == LakehouseInit /\ [][LakehouseNext]_lakehouseVars

-----------------------------------------------------------------------------
(* What the answers promise.                                               *)

\* The list of files to load from is whole: unless the page shows an error, no
\* file that was in the folder all the time is missing from it, however many
\* pages the listing took and whatever came and went meanwhile.
FilesComplete ==
    view.at = "answered" /\ view.tab = "load" /\ view.filesError = "none" =>
        {n \in stayed : Len(n) = Len(Target(view.folder)) + 1 /\ Under(n, Target(view.folder)) /\ Last(n) # ""}
            \subseteq view.files

\* So is the tree of folders, unless it is cut off at its limit: every folder
\* under the base that held something all the time, such as the one that the
\* file was uploaded to, can be chosen.
FoldersComplete ==
    view.at \in {"files", "answered"} /\ view.foldersError = "none" /\ Cardinality(view.folders) < MaxFolders =>
        {f \in Folders : IsPrefix(Base, f) /\ \E n \in stayed : Under(n, f)} \subseteq view.folders

\* A listing is given up for a page token that comes again only if the service
\* repeats itself: one that answers as it should is never taken for one that
\* does not, although names move between the pages of different folders.
TokensTrusted == "repeated" \notin {view.foldersError, view.filesError}

\* A listing without an error is whole, and an error about tokens is the service's:
\* list_object_storage_folders and _files over any interleaving with other users.
ListingsComplete == FilesComplete /\ FoldersComplete /\ TokensTrusted
=============================================================================
