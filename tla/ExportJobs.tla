------------------------------- MODULE ExportJobs -------------------------------
(***************************************************************************)
(* Exports: internal/service/export_service.go and export_worker.go over   *)
(* the table export_jobs.                                                  *)
(*                                                                         *)
(* A small export is made by the request, in a row that says completed     *)
(* from the start.  A large one is left in the table, where the workers    *)
(* poll for it, newest first; the queue is only asked whether it is there  *)
(* (cmd/api/main.go sets none, with which the workers do nothing: the      *)
(* module is about a process that has one).  A worker that is done records *)
(* the file and announces the export, and leaves the row in processing.    *)
(* Nothing sets file_expires_at, so that export_cleanup.go finds no row.   *)
(***************************************************************************)
EXTENDS Requests, Sequences

CONSTANTS
    Exports,        \* rows of export_jobs
    Exporters,      \* goroutines of the workers
    NoExport

ASSUME ExportsAssumption == IsFiniteSet(Exports) /\ NoExport \notin Exports

VARIABLES
    export,         \* the table
    exporter,       \* the goroutines
    files,          \* exports whose file is in storage
    announced,      \* history: the outcomes published for each export,
    unqueued        \* and those that could not be put on the queue

exportVars == <<export, exporter, files, announced, unqueued>>

-----------------------------------------------------------------------------

\* "no" numbers the rows in the order of created_at.
ExportRow == [st : {"none", "queued", "processing", "completed", "failed"},
              path : {"null", "empty", "stored"}, no : 0..Cardinality(Exports)]

ExporterState == [pc : {"idle", "claim", "stream", "store", "path", "fail"},
                  job : Exports \cup {NoExport}]

FreeExporter == [pc |-> "idle", job |-> NoExport]

ExportRequest == [pc : {"create", "stream", "sign", "undo", "insert", "enqueue", "unqueue",
                        "find", "cancel"}, job : Exports]

ExportJobsTypeOK ==
    /\ export \in [Exports -> ExportRow]
    /\ exporter \in [Exporters -> ExporterState]
    /\ files \subseteq Exports
    /\ announced \in [Exports -> Seq({"completed", "failed"})]
    /\ unqueued \subseteq Exports
    /\ RequestsAre(ExportRequest)

ExportJobsInit ==
    /\ export = [j \in Exports |-> [st |-> "none", path |-> "null", no |-> 0]]
    /\ exporter = [w \in Exporters |-> FreeExporter]
    /\ files = {}
    /\ announced = [j \in Exports |-> <<>>]
    /\ unqueued = {}

-----------------------------------------------------------------------------
(* The repository *)

Created(j) == export[j].st # "none"

\* Create.
InsertExport(j, st) ==
    /\ ~Created(j)
    /\ export' = [export EXCEPT ![j].st = st,
                    ![j].no = 1 + Cardinality({k \in Exports : Created(k)})]

\* UpdateStatus, whatever the status was.
UpdateExport(j, st) == export' = [export EXCEPT ![j].st = st]

\* Mutant of ClaimExportJob: whatever the status was.
ClaimExportAny(j) == TRUE

\* ClaimJob: WHERE id = ? AND status = 'queued'.
ClaimExportJob(j) == export[j].st = "queued"

\* UpdateFilePath writes the path, the number of records and the signature.
UpdateFilePath(j, path) == export' = [export EXCEPT ![j].path = path]

\* Publication of an outcome.
Announce(j, outcome) == announced' = [announced EXCEPT ![j] = Append(@, outcome)]

-----------------------------------------------------------------------------
(* CreateExport *)

\* The user may, the entity types are known, the rate limit allows it.
HandleCreateExport(r, j) ==
    /\ ~Created(j)
    /\ \E size \in {"create", "insert"} : Begin(r, [pc |-> size, job |-> j])
    /\ UNCHANGED exportVars

\* createSyncExport inserts the row ...
CreateSyncExport(r) ==
    /\ At(r, "create")
    /\ InsertExport(req[r].job, "completed")
    /\ Goto(r, "stream")
    /\ UNCHANGED <<exporter, files, announced, unqueued>>

\* ... streams, under the rate limit once more ...
StreamExport(r) ==
    /\ At(r, "stream")
    /\ Goto(r, "sign") \/ Goto(r, "undo")
    /\ UNCHANGED exportVars

\* ... and records the signature with an empty path, an error passed over, ...
SignExport(r) ==
    LET j == req[r].job
    IN  /\ At(r, "sign")
        /\ \/ UpdateFilePath(j, "empty") /\ Finish(r)
           \/ UNCHANGED export /\ Stumble(r, Idle)
        /\ Announce(j, "completed")
        /\ UNCHANGED <<exporter, files, unqueued>>

\* ... or that it failed.
UndoExport(r) ==
    LET j == req[r].job
    IN  /\ At(r, "undo")
        /\ \/ UpdateExport(j, "failed") /\ Finish(r)
           \/ UNCHANGED export /\ Stumble(r, Idle)
        /\ Announce(j, "failed")
        /\ UNCHANGED <<exporter, files, unqueued>>

\* createAsyncExport inserts the row, from where a worker may take it, ...
CreateAsyncExport(r) ==
    /\ At(r, "insert")
    /\ InsertExport(req[r].job, "queued")
    /\ Goto(r, "enqueue")
    /\ UNCHANGED <<exporter, files, announced, unqueued>>

\* ... puts it on the queue ...
EnqueueExport(r) ==
    /\ At(r, "enqueue")
    /\ \/ Finish(r) /\ UNCHANGED exportVars
       \/ /\ Stumble(r, [req[r] EXCEPT !.pc = "unqueue"])
          /\ unqueued' = unqueued \cup {req[r].job}
          /\ UNCHANGED <<export, exporter, files, announced>>

\* ... and if it cannot, calls it failed.
UnqueueExport(r) ==
    LET j == req[r].job
    IN  /\ At(r, "unqueue")
        /\ \/ UpdateExport(j, "failed") /\ Finish(r)
           \/ UNCHANGED export /\ Stumble(r, Idle)
        /\ Announce(j, "failed")
        /\ UNCHANGED <<exporter, files, unqueued>>

-----------------------------------------------------------------------------
(* CancelExport *)

HandleCancelExport(r, j) ==
    /\ Created(j)
    /\ Begin(r, [pc |-> "find", job |-> j])
    /\ UNCHANGED exportVars

FindToCancel(r) ==
    /\ At(r, "find")
    /\ IF export[req[r].job].st \in {"queued", "processing"} THEN Goto(r, "cancel")
       ELSE Finish(r)
    /\ UNCHANGED exportVars

\* A worker that has the export goes on with it.
CancelExport(r) ==
    /\ At(r, "cancel")
    /\ UpdateExport(req[r].job, "failed")
    /\ Finish(r)
    /\ UNCHANGED <<exporter, files, announced, unqueued>>

-----------------------------------------------------------------------------
(* The workers *)

ExporterAt(w, label) == exporter[w].pc = label
ExporterGoes(w, label) == exporter' = [exporter EXCEPT ![w].pc = label]
ExporterEnds(w) == exporter' = [exporter EXCEPT ![w] = FreeExporter]

\* A statement of a worker fails, and the code goes on.
ExporterFault == faults < MaxFaults /\ faults' = faults + 1 /\ UNCHANGED <<req, begun>>

\* dequeueJob: the newest row that is queued.
DequeueExport(w) ==
    /\ ExporterAt(w, "idle")
    /\ \E j \in Exports :
        /\ export[j].st = "queued"
        /\ \A k \in Exports : export[k].st = "queued" => export[k].no <= export[j].no
        /\ exporter' = [exporter EXCEPT ![w] = [pc |-> "claim", job |-> j]]
    /\ UNCHANGED <<export, files, announced, unqueued, requestVars>>

\* processExport: it may have been claimed since.
ClaimExport(w) ==
    LET j == exporter[w].job
    IN  /\ ExporterAt(w, "claim")
        /\ IF ClaimExportJob(j) THEN UpdateExport(j, "processing") /\ ExporterGoes(w, "stream")
           ELSE UNCHANGED export /\ ExporterEnds(w)
        /\ UNCHANGED <<files, announced, unqueued, requestVars>>

StreamToBuffer(w) ==
    /\ ExporterAt(w, "stream")
    /\ ExporterGoes(w, "store") \/ ExporterGoes(w, "fail")
    /\ UNCHANGED <<export, files, announced, unqueued, requestVars>>

StoreFile(w) ==
    /\ ExporterAt(w, "store")
    /\ \/ files' = files \cup {exporter[w].job} /\ ExporterGoes(w, "path")
       \/ UNCHANGED files /\ ExporterGoes(w, "fail")
    /\ UNCHANGED <<export, announced, unqueued, requestVars>>

\* The path is recorded, an error passed over; the status is not touched.
RecordFile(w) ==
    LET j == exporter[w].job
    IN  /\ ExporterAt(w, "path")
        /\ \/ UpdateFilePath(j, "stored") /\ UNCHANGED requestVars
           \/ UNCHANGED export /\ ExporterFault
        /\ Announce(j, "completed")
        /\ ExporterEnds(w)
        /\ UNCHANGED <<files, unqueued>>

FailExport(w) ==
    LET j == exporter[w].job
    IN  /\ ExporterAt(w, "fail")
        /\ \/ UpdateExport(j, "failed") /\ UNCHANGED requestVars
           \/ UNCHANGED export /\ ExporterFault
        /\ Announce(j, "failed")
        /\ ExporterEnds(w)
        /\ UNCHANGED <<files, unqueued>>

\* A worker is stopped or dies, or reads its row and cannot.
ExporterStops(w) ==
    /\ ~ExporterAt(w, "idle")
    /\ ExporterFault
    /\ ExporterEnds(w)
    /\ UNCHANGED <<export, files, announced, unqueued>>

-----------------------------------------------------------------------------

ExportJobsNext ==
    \/ \E r \in Slots :
        \/ \E j \in Exports : HandleCreateExport(r, j) \/ HandleCancelExport(r, j)
        \/ CreateSyncExport(r) \/ StreamExport(r) \/ SignExport(r) \/ UndoExport(r)
        \/ CreateAsyncExport(r) \/ EnqueueExport(r) \/ UnqueueExport(r)
        \/ FindToCancel(r) \/ CancelExport(r)
        \/ Abort(r) /\ UNCHANGED exportVars
    \/ \E w \in Exporters :
        \/ DequeueExport(w) \/ ClaimExport(w) \/ StreamToBuffer(w) \/ StoreFile(w)
        \/ RecordFile(w) \/ FailExport(w) \/ ExporterStops(w)

ExportJobsSpec ==
    ExportJobsInit /\ RequestsInit /\ [][ExportJobsNext]_<<exportVars, requestVars>>

-----------------------------------------------------------------------------
(* Properties *)

\* DownloadExport: what the table lets a user fetch.
DownloadExport(j) == export[j].st = "completed" /\ export[j].path # "null"

\* However many workers poll the same row, one exports it, and its outcome is
\* announced once, unless the export could not be queued and was taken all the
\* same; and what may be downloaded has been announced as completed.  (That a
\* worker's export ever may be is not said: nobody writes "completed" in its row.)
ExportsAccounted ==
    \A j \in Exports :
        /\ j \notin unqueued => Len(announced[j]) <= 1
        /\ Cardinality({w \in Exporters : exporter[w].job = j
                                          /\ exporter[w].pc # "claim"}) <= 1
        /\ DownloadExport(j) => announced[j] = <<"completed">>

\* A worker has a job if it is not free.
ExportersHaveJobs ==
    \A w \in Exporters : ~ExporterAt(w, "idle") <=> exporter[w].job \in Exports

\* Why: an export that is made by a request, or by a worker that has claimed it, is
\* made by nobody else ...
ExportersOn(j) == {w \in Exporters : exporter[w].job = j /\ exporter[w].pc # "claim"}
MakersOf(j) == {r \in Slots : req[r].pc \in {"stream", "sign", "undo"} /\ req[r].job = j}
LeftToWorkers(j) == export[j].st \in {"queued", "processing", "failed"}

OneMaker(j) ==
    /\ \A v, w \in ExportersOn(j) : v = w
    /\ ExportersOn(j) # {} => export[j].st \in {"processing", "failed"}
    /\ \A q, r \in MakersOf(j) : q = r
    /\ MakersOf(j) # {} => export[j].st = "completed" /\ export[j].path = "null"

\* ... and announced by the one who makes it, ...
ToldOnce(j) ==
    /\ ~Created(j) \/ MakersOf(j) # {} => announced[j] = <<>> /\ export[j].path = "null"
    /\ j \in unqueued => LeftToWorkers(j)
    /\ j \notin unqueued =>
        /\ Len(announced[j]) <= 1
        /\ export[j].st = "queued" \/ ExportersOn(j) # {} => announced[j] = <<>>
    /\ DownloadExport(j) => announced[j] = <<"completed">>

\* ... a worker that says so has stored the file, ...
WorkIsDone(j) ==
    /\ \A w \in ExportersOn(j) : exporter[w].pc = "path" => j \in files
    /\ export[j].st = "processing" /\ faults = 0 /\ ExportersOn(j) = {}
        => announced[j] = <<"completed">> /\ j \in files

\* ... and a request that left an export to the workers, or cancels it, finds it so.
ExportRequestsCarry ==
    \A r \in Slots :
        /\ req[r].pc \in {"enqueue", "unqueue", "cancel"} => LeftToWorkers(req[r].job)
        /\ At(r, "unqueue") => req[r].job \in unqueued

ExportJobsInv ==
    /\ ExportJobsTypeOK
    /\ ExportersHaveJobs
    /\ \A j \in Exports : OneMaker(j) /\ ToldOnce(j) /\ WorkIsDone(j)
    /\ ExportRequestsCarry
    /\ faults = 0 => unqueued = {}

=============================================================================
