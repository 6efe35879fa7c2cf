---------------------------- MODULE MediaVersions ---------------------------
(***************************************************************************)
(* The versions of one media item: service/media_version.go with           *)
(* repository/media_version.go, and the two operations of service/media.go *)
(* that write the same row (UpdateMetadata saves all of it, Delete).       *)
(*                                                                         *)
(* The row of the item, the rows of its versions and the stored files are  *)
(* three places; an operation is a sequence of statements and calls of the *)
(* storage, none of them in a transaction.  One action is one of these.    *)
(* A file is a number, because its name is a fresh uuid; 0 is the file the *)
(* item was created with.  The number of a version is unique in the table, *)
(* soft-deleted rows included (migration 000019).                          *)
(***************************************************************************)
EXTENDS Integers, FiniteSets

CONSTANTS
    Requests,       \* concurrent requests
    Contents,       \* contents (checksums) of files
    Original,       \* the content the item was created with
    NoSum,          \* the checksum of a file that could not be read
    MaxUploads,     \* bound: files stored
    MaxVersionFaults  \* bound: failed statements, storage calls, dead processes

ASSUME VersionBoundsAssumption == {MaxUploads, MaxVersionFaults} \subseteq Nat
ASSUME VersionNamesAssumption == Original \in Contents /\ NoSum \notin Contents

VARIABLES
    current,        \* media.current_version
    live,           \* media.deleted_at is null
    rows,           \* media_versions, by number
    files,          \* what the storage holds
    task,           \* the requests
    stored,         \* files stored so far: the next name
    versionFaults,
    restored,       \* history: a version was restored
    contended,      \* history: a restore or a save overlapped what it is at odds with
    stranded        \* history: files whose version could not be retracted

versionVars == <<current, live, rows, files, task, stored, versionFaults, restored, contended,
                 stranded>>
history == <<restored, contended, stranded>>

Versions == 1..(MaxUploads + 2)
Sums == Contents \cup {NoSum}
Row == [st : {"none", "live", "deleted"}, file : Nat, sum : Sums]
NoRow == [st |-> "none", file |-> 0, sum |-> NoSum]

VersionPC == {"idle", "count", "retro", "checkcurrent", "checksum", "store", "create",
              "advance", "retract", "erase", "restorefind", "restore", "deletefind",
              "delete", "save", "remove"}
Request == [pc : VersionPC, v : 0..(MaxUploads + 2), cur : 0..(MaxUploads + 2),
            file : Nat, sum : Sums]
NoRequest == [pc |-> "idle", v |-> 0, cur |-> 0, file |-> 0, sum |-> NoSum]

VersionTypeOK ==
    /\ current \in Versions /\ live \in BOOLEAN
    /\ rows \in [Versions -> Row]
    /\ files \subseteq 0..stored
    /\ task \in [Requests -> Request]
    /\ stored \in 0..MaxUploads
    /\ versionFaults \in 0..MaxVersionFaults
    /\ restored \in BOOLEAN /\ contended \in BOOLEAN
    /\ stranded \subseteq Nat

VersionInit ==
    /\ current = 1 /\ live = TRUE
    /\ rows = [v \in Versions |-> NoRow]
    /\ files = {0}
    /\ task = [r \in Requests |-> NoRequest]
    /\ stored = 0 /\ versionFaults = 0
    /\ restored = FALSE /\ contended = FALSE /\ stranded = {}

-----------------------------------------------------------------------------
TaskAt(r, label) == task[r].pc = label
TaskGoto(r, label) == task' = [task EXCEPT ![r].pc = label]
TaskDone(r) == task' = [task EXCEPT ![r] = NoRequest]
Live(v) == v \in Versions /\ rows[v].st = "live"
Fault == versionFaults < MaxVersionFaults /\ versionFaults' = versionFaults + 1

\* FindByID, with which every operation begins.
Find(r, label, v, x) ==
    /\ TaskAt(r, "idle") /\ live
    /\ task' = [task EXCEPT ![r] = [pc |-> label, v |-> v, cur |-> current, file |-> 0,
                                  sum |-> x]]
    /\ UNCHANGED <<current, live, rows, files, stored, versionFaults, history>>

\* Another request is taking version v away, because it was not the current one,
\* or has not finished adding it.
Leaving(v) == \E q \in Requests :
    task[q].pc \in {"deletefind", "delete"} /\ task[q].v = v /\ task[q].cur # v
Arriving(v) == \E q \in Requests : task[q].pc \in {"advance", "retract"} /\ task[q].v = v

-----------------------------------------------------------------------------
(* UploadVersion *)

UploadFind(r) == \E x \in Contents : stored < MaxUploads /\ Find(r, "count", current + 1, x)

UploadCount(r) ==
    /\ TaskAt(r, "count")
    /\ TaskGoto(r, IF \E v \in Versions : Live(v) THEN "checkcurrent" ELSE "retro")
    /\ UNCHANGED <<current, live, rows, files, stored, versionFaults, history>>

\* createRetroactiveV1: the first version is written down when it is needed.
\* Another upload may have been quicker: the duplicate is not an error.
CreateRetroactiveV1(r) ==
    /\ TaskAt(r, "retro")
    /\ \/ /\ rows[1].st = "none"
          /\ rows' = [rows EXCEPT ![1] = [st |-> "live", file |-> 0, sum |-> Original]]
          /\ UNCHANGED versionFaults
       \/ /\ rows[1].st = "none" /\ Fault
          /\ rows' = [rows EXCEPT ![1] = [st |-> "live", file |-> 0, sum |-> NoSum]]
       \/ rows[1].st # "none" /\ UNCHANGED <<rows, versionFaults>>
    /\ TaskGoto(r, "checkcurrent")
    /\ UNCHANGED <<current, live, files, stored, history>>

\* checkDuplicateChecksum: its two queries.  An error passes for no duplicate.
CheckCurrent(r) ==
    /\ TaskAt(r, "checkcurrent")
    /\ \/ /\ IF Live(task[r].cur) /\ rows[task[r].cur].sum = task[r].sum
             THEN TaskDone(r) ELSE TaskGoto(r, "checksum")
          /\ UNCHANGED versionFaults
       \/ Fault /\ TaskGoto(r, "checksum")
    /\ UNCHANGED <<current, live, rows, files, stored, history>>

\* Mutant of KnownContent: only the current version is compared (CheckCurrent).
KnownNever(r) == FALSE

\* FindByChecksum.
KnownContent(r) == \E v \in Versions : Live(v) /\ rows[v].sum = task[r].sum

CheckChecksum(r) ==
    /\ TaskAt(r, "checksum")
    /\ \/ IF KnownContent(r) THEN TaskDone(r) /\ UNCHANGED versionFaults
                             ELSE TaskGoto(r, "store") /\ UNCHANGED versionFaults
       \/ Fault /\ TaskGoto(r, "store")
    /\ UNCHANGED <<current, live, rows, files, stored, history>>

Store(r) ==
    /\ TaskAt(r, "store") /\ stored < MaxUploads
    /\ stored' = stored + 1
    /\ files' = files \cup {stored + 1}
    /\ task' = [task EXCEPT ![r].pc = "create", ![r].file = stored + 1]
    /\ UNCHANGED <<current, live, rows, versionFaults, history>>

\* Mutant of Taken: the soft-deleted rows are not in the way.
TakenByLive(v) == rows[v].st = "live"

\* The unique index over the numbers of an item.
Taken(v) == rows[v].st # "none"

\* Create: a duplicate number is an error, and the file is deleted again.
CreateVersion(r) ==
    /\ TaskAt(r, "create")
    /\ \/ /\ ~Taken(task[r].v)
          /\ rows' = [rows EXCEPT ![task[r].v] =
                        [st |-> "live", file |-> task[r].file, sum |-> task[r].sum]]
          /\ TaskGoto(r, "advance") /\ UNCHANGED versionFaults
       \/ Taken(task[r].v) /\ TaskGoto(r, "erase") /\ UNCHANGED <<rows, versionFaults>>
       \/ Fault /\ TaskGoto(r, "erase") /\ UNCHANGED rows
    /\ UNCHANGED <<current, live, files, stored, history>>

\* Mutant of Unmoved: no optimistic lock.
MovedOrNot(r) == live

\* UpdateCurrentVersion: WHERE current_version is still the one that was read.
Unmoved(r) == live /\ current = task[r].cur

Advance(r) ==
    /\ TaskAt(r, "advance")
    /\ \/ /\ Unmoved(r)
          /\ current' = task[r].v
          /\ contended' = (contended \/ ~Live(task[r].v) \/ Leaving(task[r].v))
          /\ TaskDone(r) /\ UNCHANGED versionFaults
       \/ ~Unmoved(r) /\ TaskGoto(r, "retract") /\ UNCHANGED <<current, versionFaults, contended>>
       \/ Fault /\ TaskGoto(r, "retract") /\ UNCHANGED <<current, contended>>
    /\ UNCHANGED <<live, rows, files, stored, restored, stranded>>

\* Mutant of Retract: the row stays.
RetractNothing(r) ==
    /\ TaskAt(r, "retract")
    /\ TaskGoto(r, "erase")
    /\ UNCHANGED <<current, live, rows, files, stored, versionFaults, history>>

\* The row is soft-deleted again, or not: the file goes in any case.
Retract(r) ==
    /\ TaskAt(r, "retract")
    /\ \/ /\ rows' = [rows EXCEPT ![task[r].v].st = "deleted"]
          /\ UNCHANGED <<versionFaults, stranded>>
       \/ /\ Fault /\ stranded' = stranded \cup {task[r].file}
          /\ UNCHANGED rows
    /\ TaskGoto(r, "erase")
    /\ UNCHANGED <<current, live, files, stored, restored, contended>>

\* The file of a version that was refused, retracted or deleted.
Erase(r) ==
    /\ TaskAt(r, "erase")
    /\ \/ files' = files \ {task[r].file} /\ UNCHANGED versionFaults
       \/ Fault /\ UNCHANGED files
    /\ TaskDone(r)
    /\ UNCHANGED <<current, live, rows, stored, history>>

-----------------------------------------------------------------------------
(* RestoreVersion *)

RestoreFind(r) == \E v \in Versions : Find(r, "restorefind", v, NoSum)

\* Mutant of Chosen: a deleted version can be chosen.
ChosenAny(r) == Taken(task[r].v) /\ task[r].v # task[r].cur

\* The version is found, so not deleted, and is not the current one.
Chosen(r) == Live(task[r].v) /\ task[r].v # task[r].cur

RestoreCheck(r) ==
    /\ TaskAt(r, "restorefind")
    /\ IF Chosen(r) THEN TaskGoto(r, "restore") ELSE TaskDone(r)
    /\ UNCHANGED <<current, live, rows, files, stored, versionFaults, history>>

Restore(r) ==
    /\ TaskAt(r, "restore")
    /\ IF Unmoved(r)
       THEN /\ current' = task[r].v /\ restored' = TRUE
            /\ contended' = (contended \/ ~Live(task[r].v) \/ Leaving(task[r].v)
                                \/ Arriving(task[r].v))
       ELSE UNCHANGED <<current, restored, contended>>
    /\ TaskDone(r)
    /\ UNCHANGED <<live, rows, files, stored, versionFaults, stranded>>

-----------------------------------------------------------------------------
(* DeleteVersion *)

DeleteFind(r) == \E v \in Versions : Find(r, "deletefind", v, NoSum)

\* Mutant of Expendable: the current version may go, too.
ExpendableAny(r) == Live(task[r].v)

\* The current version stays.
Expendable(r) == Live(task[r].v) /\ task[r].v # task[r].cur

DeleteCheck(r) ==
    /\ TaskAt(r, "deletefind")
    /\ IF Expendable(r)
       THEN task' = [task EXCEPT ![r].pc = "delete", ![r].file = rows[task[r].v].file]
       ELSE TaskDone(r)
    /\ UNCHANGED <<current, live, rows, files, stored, versionFaults, history>>

DeleteRow(r) ==
    /\ TaskAt(r, "delete")
    /\ IF Live(task[r].v)
       THEN rows' = [rows EXCEPT ![task[r].v].st = "deleted"] /\ TaskGoto(r, "erase")
       ELSE TaskDone(r) /\ UNCHANGED rows
    /\ UNCHANGED <<current, live, files, stored, versionFaults, history>>

-----------------------------------------------------------------------------
(* service/media.go *)

\* UpdateMetadata writes back the whole row it has read.  When that finds no
\* row, because the item was deleted meanwhile, Save inserts it again.
MetadataFind(r) == Find(r, "save", 0, NoSum)
MetadataSave(r) ==
    /\ TaskAt(r, "save")
    /\ current' = task[r].cur /\ live' = TRUE
    /\ contended' = (contended \/ ~Unmoved(r))
    /\ TaskDone(r)
    /\ UNCHANGED <<rows, files, stored, versionFaults, restored, stranded>>

DeleteMediaFind(r) == Find(r, "remove", 0, NoSum)
DeleteMedia(r) ==
    /\ TaskAt(r, "remove")
    /\ live' = FALSE
    /\ TaskDone(r)
    /\ UNCHANGED <<current, rows, files, stored, versionFaults, history>>

-----------------------------------------------------------------------------
\* A statement or a call fails where that ends the request, or its process dies.
Abandon(r) ==
    /\ ~TaskAt(r, "idle") /\ Fault
    /\ TaskDone(r)
    /\ UNCHANGED <<current, live, rows, files, stored, history>>

VersionStep(r) ==
    \/ UploadFind(r) \/ UploadCount(r) \/ CreateRetroactiveV1(r) \/ CheckCurrent(r)
    \/ CheckChecksum(r) \/ Store(r) \/ CreateVersion(r) \/ Advance(r) \/ Retract(r)
    \/ Erase(r)
    \/ RestoreFind(r) \/ RestoreCheck(r) \/ Restore(r)
    \/ DeleteFind(r) \/ DeleteCheck(r) \/ DeleteRow(r)
    \/ MetadataFind(r) \/ MetadataSave(r) \/ DeleteMediaFind(r) \/ DeleteMedia(r)
    \/ Abandon(r)

VersionNext == \E r \in Requests : VersionStep(r)

VersionSpec == VersionInit /\ [][VersionNext]_versionVars

-----------------------------------------------------------------------------
(* Reads *)

\* FindByMediaID: the soft-deleted rows are left out.
FindByMediaID == {v \in Versions : Live(v)}

ListVersions == IF live THEN FindByMediaID ELSE {}

GetVersion(v) == live /\ Live(v)

\* The row is found, and the storage still has its file.
DownloadVersion(v) == GetVersion(v) /\ rows[v].file \in files

\* The file a signed link leads to; nothing looks whether it is there.
GetVersionSignedURL(v) == IF GetVersion(v) THEN {rows[v].file} ELSE {}

\* What a download streams.
HandleDownloadVersion(v) == IF DownloadVersion(v) THEN {rows[v].sum} ELSE {}

-----------------------------------------------------------------------------
(* Properties *)

\* Whoever has the list of an item in hand can use it: one of its versions is
\* marked as the current one (unless contended), each can be downloaded
\* and its link leads to the same file, but for a failed retraction; no two
\* downloads stream the same content, and no two links lead to the same file.
VersionsAreServed ==
    /\ live /\ ListVersions # {} /\ ~contended => current \in ListVersions
    /\ \A v \in ListVersions :
         /\ DownloadVersion(v) \/ rows[v].file \in stranded
         /\ GetVersionSignedURL(v) \subseteq files \cup stranded
    /\ \A v, w \in ListVersions : v # w =>
         /\ versionFaults = 0 => HandleDownloadVersion(v) \cap HandleDownloadVersion(w) = {}
         /\ GetVersionSignedURL(v) \cap GetVersionSignedURL(w) = {}

\* Numbers are given out in order and never again, and the current version is
\* one of them, although nothing is locked, rows are soft-deleted, and restores
\* and stale saves move the current version back.  And as long as nothing was
\* restored or saved over, the next upload finds its number free: one that lost
\* the race for the current version leaves no number behind above it.
NumbersInOrder ==
    /\ VersionTypeOK
    /\ \A v \in Versions : v > 1 /\ Taken(v) => Taken(v - 1)
    /\ Taken(current) \/ current = 1
    /\ /\ versionFaults = 0 /\ ~restored /\ ~contended /\ live
       /\ \A r \in Requests : TaskAt(r, "idle")
       => \A v \in Versions : v > current => ~Taken(v)

\* A version that can be listed can be downloaded: its file is there, whatever
\* uploads, deletions and retractions overlap, unless a retraction failed.
LiveHasFile ==
    \A v \in Versions : Live(v) =>
        rows[v].file \in files \/ rows[v].file \in stranded

\* Two versions that can be listed never have the same content, although the
\* check and the insert are apart (as long as the queries of the check answer).
ContentsDiffer ==
    versionFaults = 0 =>
        \A v, w \in Versions : Live(v) /\ Live(w) /\ v # w => rows[v].sum # rows[w].sum

\* The current version is one that can be listed, unless what made it current
\* met its deletion or, a restore, its unfinished upload, or a save of metadata
\* wrote back an older row.
CurrentIsLive == Taken(current) /\ ~contended => Live(current)

-----------------------------------------------------------------------------
(* The inductive invariant *)

Checked == {"checkcurrent", "checksum", "store", "create", "advance", "retract"}

\* A number is one more than one that was in use, and there are no more numbers
\* than files were stored.
Bounded ==
    /\ current <= stored + 1
    /\ \A v \in Versions : Taken(v) => v <= stored + 1
    /\ \A r \in Requests :
         /\ task[r].cur <= stored + 1
         /\ task[r].pc # "idle" => task[r].cur >= 1
         /\ task[r].pc \in Checked \cup {"count", "retro"} =>
              task[r].v = task[r].cur + 1 /\ task[r].sum # NoSum
         /\ task[r].pc \in {"create", "advance", "retract"} => task[r].v <= stored + 1

\* The numbers in use are closed downwards, and whatever a request goes by is
\* among them.
Ordered ==
    /\ \A v, w \in Versions : w < v /\ Taken(v) => Taken(w)
    /\ Taken(current) \/ current = 1
    /\ \A r \in Requests :
         /\ task[r].pc # "idle" => Taken(task[r].cur) \/ task[r].cur = 1
         /\ task[r].pc \in Checked => Taken(task[r].cur)
         /\ task[r].pc \in {"advance", "retract", "restore", "delete"} =>
              task[r].v \in Versions /\ Taken(task[r].v)

\* A number above the current one is about to become current.
Unhurried == versionFaults = 0 /\ ~restored /\ ~contended /\ live
LockHolds == Unhurried =>
    /\ \A r \in Requests : task[r].cur <= current
    /\ \A v \in Versions : Taken(v) /\ v > current =>
         \E r \in Requests : TaskAt(r, "advance") /\ task[r].v = v /\ task[r].cur = current

\* A file belongs to one row or to one request, and who erases it has made sure
\* that no version that can be listed needs it.
FilesOwned ==
    /\ \A v \in Versions : Taken(v) =>
         rows[v].file <= stored /\ (rows[v].file = 0 <=> v = 1)
    /\ \A v, w \in Versions :
         Taken(v) /\ Taken(w) /\ rows[v].file = rows[w].file => v = w
    /\ rows[1].st = "none" => 0 \in files
    /\ \A r \in Requests :
         /\ task[r].file <= stored
         /\ TaskAt(r, "create") =>
              /\ task[r].file \in files /\ task[r].file > 0
              /\ \A v \in Versions : Taken(v) => rows[v].file # task[r].file
              /\ \A q \in Requests :
                   q # r /\ task[q].pc \in {"create", "erase"} => task[q].file # task[r].file
         /\ task[r].pc \in {"advance", "retract", "delete"} =>
              rows[task[r].v].file = task[r].file
         /\ TaskAt(r, "erase") =>
              /\ task[r].file = 0 => Taken(1)
              /\ \A v \in Versions :
                   Live(v) /\ rows[v].file = task[r].file => task[r].file \in stranded

\* What was checked stays true of the numbers that were in use then.
ContentsKnown == versionFaults = 0 =>
    \A r \in Requests : task[r].pc \in {"store", "create"} =>
        \A w \in Versions : w <= task[r].cur /\ Live(w) => rows[w].sum # task[r].sum

\* Nobody is about to take the current version away, but for named overlaps.
CurrentIsKept ==
    /\ \A r \in Requests : TaskAt(r, "delete") => task[r].cur # task[r].v
    /\ \A r, q \in Requests :
         /\ r # q
         /\ task[r].pc \in {"advance", "retract"} /\ task[q].pc \in {"advance", "retract"}
         => task[r].v # task[q].v
    /\ ~contended => ~Leaving(current) /\ ~Arriving(current)

VersionInv ==
    /\ VersionTypeOK
    /\ Bounded
    /\ Ordered
    /\ LockHolds
    /\ FilesOwned
    /\ LiveHasFile
    /\ ContentsKnown
    /\ ContentsDiffer
    /\ CurrentIsKept
    /\ CurrentIsLive
=============================================================================
