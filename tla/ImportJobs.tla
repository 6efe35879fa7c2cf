------------------------------- MODULE ImportJobs -------------------------------
(***************************************************************************)
(* Imports: internal/service/import_service.go and import_worker.go over   *)
(* the table import_jobs.                                                  *)
(*                                                                         *)
(* The workers poll the table and claim a row by a conditional UPDATE;     *)
(* every other change of the status is unconditional.  A reaper puts back  *)
(* the rows that have been in processing for longer than five minutes,     *)
(* whether their worker is dead or slow.  What is imported is the rows of  *)
(* import_id_maps, in one transaction for each type of entity; the module  *)
(* keeps the outcome.                                                      *)
(***************************************************************************)
EXTENDS Requests

CONSTANTS
    Imports,        \* rows of import_jobs, each with its file
    Importers,      \* goroutines of the workers
    NoImport

ASSUME ImportsAssumption == IsFiniteSet(Imports) /\ NoImport \notin Imports

VARIABLES
    import,         \* the table
    importer,       \* the goroutines
    overdue,          \* the rows the reaper has listed
    reset,          \* history: rows it has put back,
    cancelled       \* and rows cancelled before a worker had read them

importVars == <<import, importer, overdue, reset, cancelled>>

-----------------------------------------------------------------------------

\* "started" is processing_started_at: null, less or more than five minutes old.
ImportRow == [st : {"none", "queued", "processing", "completed", "failed", "cancelled"},
              started : {"null", "fresh", "old"}, no : 0..Cardinality(Imports)]

ImporterState == [pc : {"idle", "claim", "start", "load", "process", "entities", "complete",
                        "fail"},
                  job : Imports \cup {NoImport}]

FreeImporter == [pc |-> "idle", job |-> NoImport]

ImportRequest == [pc : {"lookup", "insertimport", "findimport", "cancelimport"}, job : Imports]

ImportJobsTypeOK ==
    /\ import \in [Imports -> ImportRow]
    /\ importer \in [Importers -> ImporterState]
    /\ overdue \subseteq Imports /\ reset \subseteq Imports /\ cancelled \subseteq Imports
    /\ RequestsAre(ImportRequest)

ImportJobsInit ==
    /\ import = [j \in Imports |-> [st |-> "none", started |-> "null", no |-> 0]]
    /\ importer = [w \in Importers |-> FreeImporter]
    /\ overdue = {} /\ reset = {} /\ cancelled = {}

ImportStatus(j) == import[j].st
SetImport(j, st) == import' = [import EXCEPT ![j].st = st]

\* The workers on j that have claimed it.
ImportersOn(j) == {w \in Importers : importer[w].job = j /\ importer[w].pc # "claim"}

-----------------------------------------------------------------------------
(* CreateImport and CancelImport *)

\* The file is read and validated, and hashed into the idempotency key.
HandleCreateImport(r, j) ==
    /\ Begin(r, [pc |-> "lookup", job |-> j])
    /\ UNCHANGED importVars

\* FindByIdempotencyKey: whatever became of an earlier import of this file.
LookUpImport(r) ==
    /\ At(r, "lookup")
    /\ IF ImportStatus(req[r].job) = "none" THEN Goto(r, "insertimport") ELSE Finish(r)
    /\ UNCHANGED importVars

\* Create: the key is unique.
InsertImport(r) ==
    LET j == req[r].job
    IN  /\ At(r, "insertimport")
        /\ IF ImportStatus(j) = "none"
           THEN import' = [import EXCEPT ![j] = [st |-> "queued", started |-> "null",
                    no |-> 1 + Cardinality({k \in Imports : ImportStatus(k) # "none"})]]
           ELSE UNCHANGED import
        /\ Finish(r)
        /\ UNCHANGED <<importer, overdue, reset, cancelled>>

HandleCancelImport(r, j) ==
    /\ ImportStatus(j) # "none"
    /\ Begin(r, [pc |-> "findimport", job |-> j])
    /\ UNCHANGED importVars

FindImport(r) ==
    /\ At(r, "findimport")
    /\ IF ImportStatus(req[r].job) \in {"queued", "processing"} THEN Goto(r, "cancelimport")
       ELSE Finish(r)
    /\ UNCHANGED importVars

\* UpdateStatus, whatever the status is by now.
CancelImport(r) ==
    LET j == req[r].job
    IN  /\ At(r, "cancelimport")
        /\ SetImport(j, "cancelled")
        /\ cancelled' = IF ImportStatus(j) \in {"queued", "processing"} /\ j \notin overdue
                            /\ \A w \in ImportersOn(j) : importer[w].pc \in {"start", "load"}
                        THEN cancelled \cup {j} ELSE cancelled
        /\ Finish(r)
        /\ UNCHANGED <<importer, overdue, reset>>

-----------------------------------------------------------------------------
(* The workers *)

ImporterAt(w, label) == importer[w].pc = label
ImporterGoes(w, label) == importer' = [importer EXCEPT ![w].pc = label]
ImporterEnds(w) == importer' = [importer EXCEPT ![w] = FreeImporter]
ImporterFault == faults < MaxFaults /\ faults' = faults + 1 /\ UNCHANGED <<req, begun>>
ImportHistory == UNCHANGED <<overdue, reset, cancelled>>

\* FindQueued: the oldest.
FindQueued(w) ==
    /\ ImporterAt(w, "idle")
    /\ \E j \in Imports :
        /\ ImportStatus(j) = "queued"
        /\ \A k \in Imports : ImportStatus(k) = "queued" => import[j].no <= import[k].no
        /\ importer' = [importer EXCEPT ![w] = [pc |-> "claim", job |-> j]]
    /\ UNCHANGED <<import, requestVars>> /\ ImportHistory

\* Mutant of ClaimImportJob: whatever the status was.
ClaimImportAny(j) == TRUE

\* ClaimJob: WHERE id = ? AND status = 'queued'.
ClaimImportJob(j) == ImportStatus(j) = "queued"

\* processJob claims the row ...
ClaimImport(w) ==
    LET j == importer[w].job
    IN  /\ ImporterAt(w, "claim")
        /\ IF ClaimImportJob(j) THEN SetImport(j, "processing") /\ ImporterGoes(w, "start")
           ELSE UNCHANGED import /\ ImporterEnds(w)
        /\ UNCHANGED requestVars /\ ImportHistory

\* ... and notes the time, an error passed over.
MarkStarted(w) ==
    LET j == importer[w].job
    IN  /\ ImporterAt(w, "start")
        /\ \/ import' = [import EXCEPT ![j].started = "fresh"] /\ UNCHANGED requestVars
           \/ UNCHANGED import /\ ImporterFault
        /\ ImporterGoes(w, "load")
        /\ ImportHistory

\* Mutant of Abandoned: only a failed import is left alone.
AbandonedIfFailed(j) == ImportStatus(j) = "failed"

Abandoned(j) == ImportStatus(j) = "cancelled"

\* ProcessImport reads the row, and leaves one that was cancelled ...
LoadImport(w) ==
    /\ ImporterAt(w, "load")
    /\ IF Abandoned(importer[w].job) THEN ImporterEnds(w) ELSE ImporterGoes(w, "process")
    /\ UNCHANGED <<import, requestVars>> /\ ImportHistory

\* ... calls it processing, though it may have been cancelled since, ...
SetProcessing(w) ==
    /\ ImporterAt(w, "process")
    /\ SetImport(importer[w].job, "processing")
    /\ ImporterGoes(w, "entities")
    /\ UNCHANGED requestVars /\ ImportHistory

\* A transaction for each type of entity; the first that does not commit ends
\* the import.
Outcomes == {"complete", "fail"}

\* ... imports one type after another, and writes the result ...
ProcessEntities(w) ==
    /\ ImporterAt(w, "entities")
    /\ \E label \in Outcomes : ImporterGoes(w, label)
    /\ UNCHANGED <<import, requestVars>> /\ ImportHistory

\* ... and the outcome, an error passed over, and publishes it.
FinishImport(w) ==
    LET j == importer[w].job
        st == IF ImporterAt(w, "complete") THEN "completed" ELSE "failed"
    IN  /\ ImporterAt(w, "complete") \/ ImporterAt(w, "fail")
        /\ \/ SetImport(j, st) /\ UNCHANGED requestVars
           \/ UNCHANGED import /\ ImporterFault
        /\ ImporterEnds(w)
        /\ ImportHistory

\* A statement fails and the worker gives up, is stopped or dies.
ImporterStops(w) ==
    /\ ~ImporterAt(w, "idle")
    /\ ImporterFault
    /\ ImporterEnds(w)
    /\ UNCHANGED import /\ ImportHistory

-----------------------------------------------------------------------------
(* The reaper *)

\* Five minutes have passed; a worker that is still at it is slow.
GrowOld(j) ==
    /\ import[j].started = "fresh"
    /\ import' = [import EXCEPT ![j].started = "old"]
    /\ IF ImportersOn(j) = {} THEN UNCHANGED requestVars ELSE ImporterFault
    /\ UNCHANGED importer /\ ImportHistory

\* Mutant of FindStuckProcessing: rows that nobody has claimed.
FindStuckQueued ==
    /\ overdue = {}
    /\ overdue' = {j \in Imports : ImportStatus(j) = "queued" /\ import[j].started = "old"}
    /\ overdue' # {}
    /\ UNCHANGED <<import, importer, reset, cancelled, requestVars>>

\* FindStuckProcessing: the time is that of the last claim that wrote it.
FindStuckProcessing ==
    /\ overdue = {}
    /\ overdue' = {j \in Imports : ImportStatus(j) = "processing" /\ import[j].started = "old"}
    /\ overdue' # {}
    /\ UNCHANGED <<import, importer, reset, cancelled, requestVars>>

\* Each of them is queued again, whatever its status is by now.
RequeueImport(j) ==
    /\ j \in overdue
    /\ overdue' = overdue \ {j}
    /\ SetImport(j, "queued")
    /\ reset' = reset \cup {j}
    /\ UNCHANGED <<importer, cancelled, requestVars>>

-----------------------------------------------------------------------------

ImporterStep(w) ==
    \/ FindQueued(w) \/ ClaimImport(w) \/ MarkStarted(w) \/ LoadImport(w)
    \/ SetProcessing(w) \/ ProcessEntities(w) \/ FinishImport(w)

ImportReaperStep == FindStuckProcessing \/ \E j \in Imports : RequeueImport(j)

ImportJobsNext ==
    \/ \E r \in Slots :
        \/ \E j \in Imports : HandleCreateImport(r, j) \/ HandleCancelImport(r, j)
        \/ LookUpImport(r) \/ InsertImport(r) \/ FindImport(r) \/ CancelImport(r)
        \/ Abort(r) /\ UNCHANGED importVars
    \/ \E w \in Importers : ImporterStep(w) \/ ImporterStops(w)
    \/ \E j \in Imports : GrowOld(j)
    \/ ImportReaperStep

\* The workers and the reaper of a process get on, and time passes.
ImportJobsFairness ==
    /\ \A w \in Importers : WF_<<importVars, requestVars>>(ImporterStep(w))
    /\ WF_<<importVars, requestVars>>(ImportReaperStep)
    /\ \A j \in Imports : WF_<<importVars, requestVars>>(ImportersOn(j) = {} /\ GrowOld(j))

ImportJobsSpec ==
    /\ ImportJobsInit /\ RequestsInit
    /\ [][ImportJobsNext]_<<importVars, requestVars>>
    /\ ImportJobsFairness

-----------------------------------------------------------------------------
(* Properties *)

\* An import that the reaper never put back has at most one worker, however
\* many polled the same row; and one that was cancelled before its worker had
\* read it, and that the reaper had not listed, is not imported.
ImportsTakenOnce ==
    \A j \in Imports :
        /\ j \notin reset => Cardinality(ImportersOn(j)) <= 1
        /\ j \in cancelled /\ j \notin reset => ImportStatus(j) = "cancelled"

\* A worker that is not free has a job.
ImportersHaveJobs ==
    \A w \in Importers : ~ImporterAt(w, "idle") => importer[w].job \in Imports

\* Why: a row that was claimed is queued again by the reaper alone, so that its
\* worker is the only one, ...
OneImporter(j) ==
    /\ \A v, w \in ImportersOn(j) : v = w
    /\ ImportersOn(j) # {} => ImportStatus(j) \notin {"none", "queued"}

\* ... and one that was cancelled in time is not listed, and its worker has still
\* to read it.
StaysCancelled(j) ==
    /\ ImportStatus(j) = "cancelled"
    /\ j \notin overdue
    /\ \A w \in ImportersOn(j) : importer[w].pc \in {"start", "load"}

ImportJobsInv ==
    /\ ImportJobsTypeOK
    /\ ImportersHaveJobs
    /\ \A j \in Imports \ reset :
        OneImporter(j) /\ (j \in cancelled => StaysCancelled(j))

\* An import whose worker noted when it began and then died, leaving it in
\* processing, is queued again or has been cancelled.
AbandonedIsRetaken ==
    \A j \in Imports :
        []<>~(ImportStatus(j) = "processing" /\ import[j].started # "null"
                /\ ImportersOn(j) = {})

=============================================================================
