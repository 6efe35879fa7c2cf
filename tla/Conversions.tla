----------------------------- MODULE Conversions -----------------------------
(***************************************************************************)
(* Uploaded media and their conversions: internal/service/media.go,        *)
(* internal/conversion and the storage, over the tables media and          *)
(* media_conversions and the list and the locks in Redis.                  *)
(*                                                                         *)
(* An upload of an image leads to a thumbnail and a preview, made by       *)
(* goroutines of the uploading process when the file is small and by the   *)
(* workers, through Redis, when it is large.  A conversion is a pair of a  *)
(* medium and a name, and exists as a job in one place at a time.  The     *)
(* workers' map processingJobs is written by all goroutines without a      *)
(* lock: two of them may end the process.                                  *)
(***************************************************************************)
EXTENDS Requests, Sequences, SequencesExt

CONSTANTS
    Media,          \* uploads
    ConversionNames,\* conversions of a medium
    Converters,     \* goroutines of processLoop
    MaxAttempts,    \* maxRetries
    ChannelSize     \* capacity of jobCh

\* A path is that of a medium or of a conversion.
ASSUME ConversionsAssumption ==
    /\ {MaxAttempts, ChannelSize} \subseteq Nat \ {0}
    /\ Media \cap (Media \X ConversionNames) = {}

VARIABLES
    medium,     \* the table: none, live or deleted, and whether the file is large
    files,      \* paths in storage: a medium or a conversion
    converted,  \* media_conversions
    spawned,    \* conversions that the goroutine of an upload has yet to start
    convQueue,  \* the list in Redis, its left end first
    locks,      \* the locks in Redis
    polled,     \* the job the poller holds, in a sequence
    convCh,     \* jobCh, from the poller to the converters
    handling,   \* the goroutines in handleJob
    later,      \* jobs to be tried again
    running,    \* stopCh is open
    gaveUp      \* history: conversions that failed MaxAttempts times

conversionVars == <<medium, files, converted, spawned, convQueue, locks, polled, convCh,
                    handling, later, running, gaveUp>>
mediaRows == <<medium, converted>>

-----------------------------------------------------------------------------
(* Types *)

Conversion == Media \X ConversionNames
ConversionJob == [c : Conversion, attempt : 0..MaxAttempts]
Steps == {"find", "convert", "record", "release"}

\* A goroutine of EnqueueSync is no converter.
Handling == [job : ConversionJob, pc : Steps, by : Converters \cup {"sync"}]

UploadRequest ==
    [pc : {"store", "create", "cleanup", "orphan", "delete"}, m : Media, large : BOOLEAN]

ConversionsTypeOK ==
    /\ medium \in [Media -> [st : {"none", "live", "deleted"}, large : BOOLEAN]]
    /\ files \subseteq Media \cup Conversion
    /\ converted \subseteq Conversion
    /\ spawned \subseteq Conversion
    /\ convQueue \in Seq(ConversionJob) /\ convCh \in Seq(ConversionJob)
    /\ polled \in Seq(ConversionJob) /\ Len(polled) <= 1
    /\ locks \subseteq Conversion
    /\ handling \subseteq Handling
    /\ later \subseteq ConversionJob
    /\ running \in BOOLEAN
    /\ gaveUp \subseteq Conversion
    /\ RequestsAre(UploadRequest)

ConversionsInit ==
    /\ medium = [m \in Media |-> [st |-> "none", large |-> FALSE]]
    /\ files = {} /\ converted = {} /\ spawned = {}
    /\ convQueue = <<>> /\ polled = <<>> /\ convCh = <<>>
    /\ locks = {} /\ handling = {} /\ later = {}
    /\ running = TRUE
    /\ gaveUp = {}

-----------------------------------------------------------------------------
(* Storage *)

Store(path) == files' = files \cup {path}
Delete(path) == files' = files \ {path}
Exists(path) == path \in files

\* A signature covers the medium and the time; one for a conversion covers its
\* path and name, too, but a download checks the other kind.
SignBasic(m) == <<"basic", m>>
SignWithConversion(m, n) == <<"conversion", m, n>>
GetSignedURL(m, n) ==
    [m |-> m, n |-> n, signature |-> IF n = {} THEN SignBasic(m) ELSE SignWithConversion(m, n)]
Validate(url) == url.signature = SignBasic(url.m)

\* The path a download of a link that has not expired sends; the original when
\* there is no such conversion.
Download(url) ==
    {p \in files : /\ medium[url.m].st = "live" /\ Validate(url)
                   /\ p = IF {url.m} \X url.n \cap converted = {} THEN url.m
                          ELSE CHOOSE c \in {url.m} \X url.n \cap converted : TRUE}

-----------------------------------------------------------------------------
(* What a user who may view media is shown *)

FindByModelTypeAndID == {m \in Media : medium[m].st = "live"}
ListMedia == FindByModelTypeAndID
GetByID(m) == {m} \cap FindByModelTypeAndID

\* The links a user who may download gets: one, to a medium that is found.
HandleGetSignedURL(m, n) == {GetSignedURL(x, n) : x \in GetByID(m)}

-----------------------------------------------------------------------------
(* Uploads and deletions *)

HandleUpload(r, m, large) ==
    /\ medium[m].st = "none" /\ ~Exists(m)
    /\ {s \in Slots : ~At(s, "idle") /\ req[s].m = m} = {}
    /\ Begin(r, [pc |-> "store", m |-> m, large |-> large])
    /\ UNCHANGED conversionVars

\* Upload: the size, extension and content are fit.  The file is stored under a
\* new name ...
StoreUpload(r) ==
    /\ At(r, "store")
    /\ Store(req[r].m)
    /\ Goto(r, "create")
    /\ UNCHANGED <<mediaRows, spawned, convQueue, locks, polled, convCh, handling, later,
                   running, gaveUp>>

\* Mutant of CreateMedia: the conversions are queued and made at once.
CreateMediaTwice(r) ==
    /\ At(r, "create")
    /\ medium' = [medium EXCEPT ![req[r].m] = [st |-> "live", large |-> req[r].large]]
    /\ spawned' = spawned \cup {req[r].m} \X ConversionNames
    /\ convQueue' = SetToSeq([c : {req[r].m} \X ConversionNames, attempt : {0}]) \o convQueue
    /\ Finish(r)
    /\ UNCHANGED <<files, converted, locks, polled, convCh, handling, later, running, gaveUp>>

\* ... and the row is inserted; a goroutine starts the conversions.
CreateMedia(r) ==
    /\ At(r, "create")
    /\ medium' = [medium EXCEPT ![req[r].m] = [st |-> "live", large |-> req[r].large]]
    /\ spawned' = spawned \cup {req[r].m} \X ConversionNames
    /\ Finish(r)
    /\ UNCHANGED <<files, converted, convQueue, locks, polled, convCh, handling, later,
                   running, gaveUp>>

\* If that fails the file is deleted again.
CreateMediaFails(r) ==
    /\ At(r, "create")
    /\ Stumble(r, [req[r] EXCEPT !.pc = "cleanup"])
    /\ UNCHANGED conversionVars

CleanUpFile(r) ==
    /\ At(r, "cleanup")
    /\ Delete(req[r].m)
    /\ Finish(r)
    /\ UNCHANGED <<mediaRows, spawned, convQueue, locks, polled, convCh, handling, later,
                   running, gaveUp>>

\* The owner or an administrator: the row is read ...
HandleDelete(r, m) ==
    /\ medium[m].st = "live"
    /\ Begin(r, [pc |-> "orphan", m |-> m, large |-> medium[m].large])
    /\ UNCHANGED conversionVars

\* ... marked as an orphan, an error passed over, ...
MarkOrphaned(r) ==
    /\ At(r, "orphan")
    /\ Goto(r, "delete")
    /\ UNCHANGED conversionVars

\* ... and deleted softly; the files stay.
SoftDeleteMedia(r) ==
    /\ At(r, "delete")
    /\ medium' = [medium EXCEPT ![req[r].m].st = "deleted"]
    /\ Finish(r)
    /\ UNCHANGED <<files, converted, spawned, convQueue, locks, polled, convCh, handling, later,
                   running, gaveUp>>

-----------------------------------------------------------------------------
(* Locks, the list and the workers *)

ConversionFault ==
    /\ faults < MaxFaults
    /\ faults' = faults + 1
    /\ UNCHANGED <<req, begun>>

\* SET NX.
AcquireLock(c) == c \notin locks /\ locks' = locks \cup {c}

First(c) == [c |-> c, attempt |-> 0]
Work(job, who) == [job |-> job, pc |-> "find", by |-> who]

\* EnqueueSync: without the lock nothing is done.
EnqueueSync(c) ==
    /\ c \in spawned /\ ~medium[c[1]].large
    /\ spawned' = spawned \ {c}
    /\ \/ AcquireLock(c) /\ handling' = handling \cup {Work(First(c), "sync")}
       \/ c \in locks /\ UNCHANGED <<locks, handling>>
    /\ UNCHANGED <<mediaRows, files, convQueue, polled, convCh, later, running, gaveUp,
                   requestVars>>

\* EnqueueAsync: LPUSH.
EnqueueAsync(c) ==
    /\ c \in spawned /\ medium[c[1]].large
    /\ spawned' = spawned \ {c}
    /\ convQueue' = <<First(c)>> \o convQueue
    /\ UNCHANGED <<mediaRows, files, locks, polled, convCh, handling, later, running, gaveUp,
                   requestVars>>

\* Redis refuses the lock or the job: the conversion is given up.
EnqueueFails(c) ==
    /\ c \in spawned
    /\ spawned' = spawned \ {c}
    /\ ConversionFault
    /\ UNCHANGED <<mediaRows, files, convQueue, locks, polled, convCh, handling, later, running,
                   gaveUp>>

\* pollQueue takes from the left, where EnqueueAsync pushes; the job is off the
\* list from now on.
PollQueue ==
    /\ polled = <<>> /\ convQueue # <<>>
    /\ polled' = <<Head(convQueue)>>
    /\ convQueue' = Tail(convQueue)
    /\ UNCHANGED <<mediaRows, files, spawned, locks, convCh, handling, later, running, gaveUp,
                   requestVars>>

\* It is sent to the channel under its lock, or dropped if it is locked.
PollLock ==
    /\ polled # <<>>
    /\ \/ Len(convCh) < ChannelSize /\ AcquireLock(polled[1].c) /\ convCh' = convCh \o polled
       \/ polled[1].c \in locks /\ UNCHANGED <<locks, convCh>>
    /\ polled' = <<>>
    /\ UNCHANGED <<mediaRows, files, spawned, convQueue, handling, later, running, gaveUp,
                   requestVars>>

ProcessLoop(w) ==
    /\ convCh # <<>>
    /\ \A g \in handling : g.by # w
    /\ handling' = handling \cup {Work(Head(convCh), w)}
    /\ convCh' = Tail(convCh)
    /\ UNCHANGED <<mediaRows, files, spawned, convQueue, locks, polled, later, running, gaveUp,
                   requestVars>>

-----------------------------------------------------------------------------
(* handleJob *)

Move(g, label) == handling' = (handling \ {g}) \cup {[g EXCEPT !.pc = label]}

\* Mutant of HandleError: the attempt is not counted.
HandleErrorAgain(g) ==
    /\ Move(g, "release")
    /\ later' = later \cup {g.job}
    /\ UNCHANGED gaveUp

\* handleError: once more, or never.
HandleError(g) ==
    LET n == g.job.attempt + 1
    IN  /\ Move(g, "release")
        /\ IF n < MaxAttempts
           THEN later' = later \cup {[g.job EXCEPT !.attempt = n]} /\ UNCHANGED gaveUp
           ELSE gaveUp' = gaveUp \cup {g.job.c} /\ UNCHANGED later

\* FindByID: a medium that is deleted by now is an error like any other.
FindMedia(g) ==
    /\ g.pc = "find"
    /\ IF medium[g.job.c[1]].st = "live" THEN Move(g, "convert") /\ UNCHANGED <<later, gaveUp>>
       ELSE HandleError(g)
    /\ UNCHANGED <<mediaRows, files, spawned, convQueue, locks, polled, convCh, running,
                   requestVars>>

\* Handle: the image is scaled and stored under a name of its own.
Handle(c) == Store(c)

\* The file is read and converted, either of which may fail.
Convert(g) ==
    /\ g.pc = "convert"
    /\ \/ /\ Exists(g.job.c[1]) /\ Handle(g.job.c)
          /\ Move(g, "record") /\ UNCHANGED <<later, gaveUp>>
       \/ HandleError(g) /\ UNCHANGED files
    /\ UNCHANGED <<mediaRows, spawned, convQueue, locks, polled, convCh, running, requestVars>>

\* CreateConversion: the pair of medium and name is unique.
RecordConversion(g) ==
    /\ g.pc = "record"
    /\ IF g.job.c \notin converted
       THEN /\ converted' = converted \cup {g.job.c}
            /\ Move(g, "release") /\ UNCHANGED <<later, gaveUp>>
       ELSE HandleError(g) /\ UNCHANGED converted
    /\ UNCHANGED <<medium, files, spawned, convQueue, locks, polled, convCh, running, requestVars>>

\* A statement of either fails.
HandleFails(g) ==
    /\ g.pc \in {"find", "record"}
    /\ HandleError(g)
    /\ ConversionFault
    /\ UNCHANGED <<mediaRows, files, spawned, convQueue, locks, polled, convCh, running>>

\* The lock is deleted, whoever holds it by now.
ReleaseLock(g) ==
    /\ g.pc = "release"
    /\ handling' = handling \ {g}
    /\ locks' = locks \ {g.job.c}
    /\ UNCHANGED <<mediaRows, files, spawned, convQueue, polled, convCh, later, running, gaveUp,
                   requestVars>>

\* The pause is over and the job is pushed.  That the lock of the failed attempt
\* is still there takes a Redis that is slower than the pause.
EnqueueToRedis(job) ==
    /\ job \in later
    /\ later' = later \ {job}
    /\ convQueue' = <<job>> \o convQueue
    /\ IF \A g \in handling : g.job.c # job.c THEN UNCHANGED requestVars ELSE ConversionFault
    /\ UNCHANGED <<mediaRows, files, spawned, locks, polled, convCh, handling, running, gaveUp>>

-----------------------------------------------------------------------------
(* Time, stops and crashes *)

\* An hour has passed.
LockExpires(c) ==
    /\ c \in locks
    /\ locks' = locks \ {c}
    /\ ConversionFault
    /\ UNCHANGED <<mediaRows, files, spawned, convQueue, polled, convCh, handling, later, running,
                   gaveUp>>

\* Stop waits for nothing; a job waiting to be tried again may be dropped.
ConverterStop ==
    /\ running
    /\ running' = FALSE
    /\ \E kept \in SUBSET later : later' = kept
    /\ ConversionFault
    /\ UNCHANGED <<mediaRows, files, spawned, convQueue, locks, polled, convCh, handling, gaveUp>>

\* What is in memory is gone, requests included; the list and the locks are not.
ConverterRestart ==
    /\ running' = TRUE
    /\ req' = [r \in Slots |-> Idle] /\ UNCHANGED begun
    /\ spawned' = {} /\ polled' = <<>> /\ convCh' = <<>> /\ handling' = {} /\ later' = {}
    /\ UNCHANGED <<mediaRows, files, convQueue, locks, gaveUp>>

StartAgain == ~running /\ ConverterRestart /\ UNCHANGED faults

\* The process dies, as it may when two goroutines write processingJobs.
ConverterCrash == ConverterRestart /\ faults < MaxFaults /\ faults' = faults + 1

-----------------------------------------------------------------------------

ConversionStep ==
    \/ \E c \in spawned : EnqueueSync(c) \/ EnqueueAsync(c)
    \/ PollQueue \/ PollLock
    \/ \E w \in Converters : ProcessLoop(w)
    \/ \E g \in handling : FindMedia(g) \/ Convert(g) \/ RecordConversion(g) \/ ReleaseLock(g)
    \/ \E job \in later : EnqueueToRedis(job)

ConversionsNext ==
    \/ \E r \in Slots :
        \/ \E m \in Media, large \in BOOLEAN : HandleUpload(r, m, large)
        \/ \E m \in Media : HandleDelete(r, m)
        \/ StoreUpload(r) \/ CreateMedia(r) \/ CreateMediaFails(r) \/ CleanUpFile(r)
        \/ MarkOrphaned(r) \/ SoftDeleteMedia(r)
        \/ Abort(r) /\ UNCHANGED conversionVars
    \/ ConversionStep
    \/ \E c \in spawned : EnqueueFails(c)
    \/ \E g \in handling : HandleFails(g)
    \/ \E c \in locks : LockExpires(c)
    \/ ConverterStop \/ StartAgain \/ ConverterCrash

\* The goroutines of a running process get on, and a stopped one is started.
ConversionsFairness ==
    /\ WF_<<conversionVars, requestVars>>(running /\ ConversionStep)
    /\ WF_<<conversionVars, requestVars>>(StartAgain)

-----------------------------------------------------------------------------
(* Properties *)

\* The jobs of a conversion, wherever they are.
JobsIn(s, c) == Cardinality({i \in DOMAIN s : s[i].c = c})
MadeBy(c) == {g \in handling : g.job.c = c /\ g.pc # "release"}
JobsOf(c) ==
    Cardinality(spawned \cap {c})
        + JobsIn(convQueue, c) + JobsIn(polled, c) + JobsIn(convCh, c)
        + Cardinality(MadeBy(c)) + Cardinality({j \in later : j.c = c})

\* A conversion is in one place at a time, so that no two goroutines make it;
\* without faults it is made, under way or given up after MaxAttempts, and its
\* lock is held by somebody; a medium that is listed can be downloaded by a link
\* to it, and a file without one is that of a request in progress.
MediaAccounted ==
    /\ \A c \in Conversion :
        /\ JobsOf(c) + Cardinality(converted \cap {c}) <= 1
        /\ faults = 0 /\ medium[c[1]].st # "none"
            => JobsOf(c) = 1 \/ c \in converted \/ c \in gaveUp
        /\ faults = 0 /\ c \in locks
            => \/ \E g \in handling : g.job.c = c
               \/ \E i \in DOMAIN convCh : convCh[i].c = c
        /\ c \in converted => Exists(c)
    /\ \A m \in Media :
        /\ m \in ListMedia => HandleGetSignedURL(m, {}) # {}
        /\ \A url \in HandleGetSignedURL(m, {}) : Download(url) = {m}
        /\ faults = 0 /\ Exists(m) /\ medium[m].st = "none"
            => \E r \in Slots : At(r, "create") /\ req[r].m = m

\* A conversion does not stay under way, though the poller takes the job that was
\* pushed last and an error brings a job back: it is made, given up or lost.
ConversionsEnd == \A c \in Conversion : []<>(JobsOf(c) = 0)
=============================================================================
