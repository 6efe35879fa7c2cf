---------------------------- MODULE WorkersProofs ----------------------------
(***************************************************************************)
(* Proofs about what gets on by itself, imports, the policies of the       *)
(* enforcers, emails and conversions, and what MCWorkers makes of them,    *)
(* for any workers, requests, instances and rows.                          *)
(***************************************************************************)
EXTENDS MCWorkers, FiniteSetTheorems, TLAPS

-----------------------------------------------------------------------------
(* Finite sets *)

\* A set that is not the whole has room for one more.
LEMMA RoomForOneMore ==
    ASSUME NEW T, IsFiniteSet(T), NEW S \in SUBSET T, S # T
    PROVE  1 + Cardinality(S) \in 0..Cardinality(T)
<1>1. PICK x \in T : x \notin S
  OBVIOUS
<1>2. IsFiniteSet(S) /\ Cardinality(S) \in Nat /\ Cardinality(T) \in Nat
  BY FS_Subset, FS_CardinalityType
<1>3. Cardinality(S \cup {x}) = Cardinality(S) + 1
  BY <1>1, <1>2, FS_AddElement
<1>4. Cardinality(S \cup {x}) <= Cardinality(T)
  BY <1>1, FS_Subset
<1> QED BY <1>2, <1>3, <1>4

\* A set whose members are equal has at most one.
LEMMA OneMember ==
    ASSUME NEW S, \A v, w \in S : v = w
    PROVE  Cardinality(S) <= 1
<1>1. CASE S = {}
  BY <1>1, FS_EmptySet
<1>2. CASE S # {}
  <2>1. PICK w \in S : TRUE
    BY <1>2
  <2>2. S = {w}
    BY <2>1
  <2>3. Cardinality({w}) = 1
    BY FS_Singleton
  <2> QED BY <2>2, <2>3
<1> QED BY <1>1, <1>2

\* A set of no or one member, and its size.
LEMMA SmallSets ==
    ASSUME NEW S, IsFiniteSet(S)
    PROVE  /\ Cardinality(S) \in Nat
           /\ S = {} <=> Cardinality(S) = 0
           /\ \A x \in S : Cardinality(S) >= 1 /\ (Cardinality(S) <= 1 => S = {x})
           /\ \A x : S = {x} => Cardinality(S) = 1
<1>1. Cardinality(S) \in Nat /\ (S = {} <=> Cardinality(S) = 0)
  BY FS_CardinalityType, FS_EmptySet
<1>2. \A x : S = {x} => Cardinality(S) = 1
  BY FS_Singleton
<1>3. ASSUME NEW x \in S PROVE Cardinality(S) >= 1 /\ (Cardinality(S) <= 1 => S = {x})
  <2>1. Cardinality(S) >= 1
    BY <1>1, <1>3
  <2>2. ASSUME Cardinality(S) <= 1 PROVE S = {x}
    <3>1. Cardinality(S) = 1
      BY <1>1, <2>1, <2>2
    <3>2. PICK y : S = {y}
      BY <3>1, FS_Singleton
    <3> QED BY <1>3, <3>2
  <2> QED BY <2>1, <2>2
<1> QED BY <1>1, <1>2, <1>3

-----------------------------------------------------------------------------
(* Imports *)

\* What an importer and a row may become.
LEMMA ImportersAreTyped ==
    /\ FreeImporter \in ImporterState
    /\ \A s \in ImporterState :
        /\ s.job \in Imports \cup {NoImport}
        /\ \A label \in {"start", "load", "process", "entities", "complete", "fail"} :
            [s EXCEPT !.pc = label] \in ImporterState
    /\ \A j \in Imports : [pc |-> "claim", job |-> j] \in ImporterState
<1>1. /\ FreeImporter \in ImporterState
      /\ \A j \in Imports : [pc |-> "claim", job |-> j] \in ImporterState
  BY DEF FreeImporter, ImporterState
<1>2. ASSUME NEW s \in ImporterState PROVE s.job \in Imports \cup {NoImport}
  BY DEF ImporterState
<1>3. ASSUME NEW s \in ImporterState,
             NEW label \in {"start", "load", "process", "entities", "complete", "fail"}
      PROVE  [s EXCEPT !.pc = label] \in ImporterState
  BY DEF ImporterState
<1> QED BY <1>1, <1>2, <1>3

\* The requests keep their types.
LEMMA ImportRequestTypes ==
    ASSUME ImportJobsTypeOK, NEW r \in Slots,
           \/ \E j \in Imports : HandleCreateImport(r, j) \/ HandleCancelImport(r, j)
           \/ LookUpImport(r) \/ InsertImport(r) \/ FindImport(r) \/ CancelImport(r)
           \/ Abort(r)
    PROVE  RequestsAre(ImportRequest)' /\ (~At(r, "idle") => req[r].job \in Imports)
<1>1. /\ req \in [Slots -> ImportRequest \cup {Idle}]
      /\ begun \in 0..MaxRequests /\ faults \in 0..MaxFaults
      /\ \A s \in Slots : req[s].pc # "idle" => req[s] \in ImportRequest
  BY DEF ImportJobsTypeOK, RequestsAre, Idle
<1>2. \A j \in Imports :
        /\ [pc |-> "lookup", job |-> j] \in ImportRequest
        /\ [pc |-> "findimport", job |-> j] \in ImportRequest
  BY DEF ImportRequest
<1>3. ASSUME NEW q \in ImportRequest
      PROVE  /\ [q EXCEPT !.pc = "insertimport"] \in ImportRequest
             /\ [q EXCEPT !.pc = "cancelimport"] \in ImportRequest
             /\ q.job \in Imports
  BY DEF ImportRequest
<1>4. ASSUME NEW q \in ImportRequest \cup {Idle}, Begin(r, q) \/ Become(r, q) \/ Stumble(r, q)
      PROVE  RequestsAre(ImportRequest)'
  BY <1>1, <1>4, RequestBoundsAssumption DEF Begin, Become, Stumble, RequestsAre
<1>5. CASE \E j \in Imports : HandleCreateImport(r, j) \/ HandleCancelImport(r, j)
  BY <1>2, <1>4, <1>5 DEF HandleCreateImport, HandleCancelImport, Begin
<1>6. CASE LookUpImport(r) \/ InsertImport(r) \/ FindImport(r) \/ CancelImport(r)
  <2>1. req[r] \in ImportRequest
    BY <1>1, <1>6 DEF LookUpImport, InsertImport, FindImport, CancelImport, At
  <2>2. \E q \in ImportRequest \cup {Idle} : Become(r, q)
    BY <1>3, <1>6, <2>1
    DEF LookUpImport, InsertImport, FindImport, CancelImport, Goto, Finish
  <2> QED BY <1>3, <1>4, <2>1, <2>2
<1>7. CASE Abort(r)
  BY <1>1, <1>3, <1>4, <1>7 DEF Abort, At
<1> QED BY <1>5, <1>6, <1>7

\* What a statement writes is a row, and the number of an import that is inserted
\* is at most that of the files.
LEMMA ImportRowsAreTyped ==
    /\ \A row \in ImportRow :
        /\ \A st \in {"queued", "processing", "completed", "failed", "cancelled"} :
            [row EXCEPT !.st = st] \in ImportRow
        /\ \A started \in {"fresh", "old"} : [row EXCEPT !.started = started] \in ImportRow
    /\ \A S \in SUBSET Imports : S # Imports =>
        [st |-> "queued", started |-> "null", no |-> 1 + Cardinality(S)] \in ImportRow
<1>1. ASSUME NEW row \in ImportRow,
             NEW st \in {"queued", "processing", "completed", "failed", "cancelled"}
      PROVE  [row EXCEPT !.st = st] \in ImportRow
  BY DEF ImportRow
<1>2. ASSUME NEW row \in ImportRow, NEW started \in {"fresh", "old"}
      PROVE  [row EXCEPT !.started = started] \in ImportRow
  BY DEF ImportRow
<1>3. ASSUME NEW S \in SUBSET Imports, S # Imports
      PROVE  1 + Cardinality(S) \in 0..Cardinality(Imports)
  BY <1>3, ImportsAssumption, RoomForOneMore
<1>4. \A n \in 0..Cardinality(Imports) :
        [st |-> "queued", started |-> "null", no |-> n] \in ImportRow
  BY DEF ImportRow
<1> QED BY <1>1, <1>2, <1>3, <1>4

\* The tables and the goroutines keep their types, and a goroutine its job.
LEMMA ImportTypes ==
    ASSUME ImportJobsTypeOK, ImportersHaveJobs, ImportJobsNext
    PROVE  ImportJobsTypeOK' /\ ImportersHaveJobs'
<1> USE DEF ImportersHaveJobs, ImporterAt
<1>1. /\ import \in [Imports -> ImportRow]
      /\ importer \in [Importers -> ImporterState]
      /\ overdue \subseteq Imports /\ reset \subseteq Imports /\ cancelled \subseteq Imports
      /\ RequestsAre(ImportRequest)
      /\ FreeImporter.pc = "idle"
  BY DEF ImportJobsTypeOK, FreeImporter
<1>2. ASSUME UNCHANGED requestVars PROVE RequestsAre(ImportRequest)'
  BY <1>1, <1>2 DEF requestVars, RequestsAre
<1>3. ASSUME ImporterFault PROVE RequestsAre(ImportRequest)'
  BY <1>1, <1>3, RequestBoundsAssumption DEF ImporterFault, RequestsAre
<1>4. ASSUME NEW r \in Slots,
             \/ \E j \in Imports : HandleCreateImport(r, j) \/ HandleCancelImport(r, j)
             \/ LookUpImport(r) \/ InsertImport(r) \/ FindImport(r) \/ CancelImport(r)
             \/ Abort(r) /\ UNCHANGED importVars
      PROVE  ImportJobsTypeOK' /\ ImportersHaveJobs'
  <2>1. RequestsAre(ImportRequest)' /\ (~At(r, "idle") => req[r].job \in Imports)
    BY <1>4, ImportRequestTypes
  <2>2. CASE InsertImport(r)
    <3>1. req[r].job \in Imports
      BY <2>1, <2>2 DEF InsertImport, At
    <3>2. import' \in [Imports -> ImportRow]
      <4> DEFINE Taken == {k \in Imports : ImportStatus(k) # "none"}
      <4>1. CASE ImportStatus(req[r].job) = "none"
        <5>1. Taken \in SUBSET Imports /\ Taken # Imports
          BY <3>1, <4>1
        <5> QED BY <1>1, <2>2, <4>1, <5>1, ImportRowsAreTyped DEF InsertImport
      <4> QED BY <1>1, <2>2, <4>1 DEF InsertImport
    <3> QED BY <1>1, <2>1, <2>2, <3>2 DEF InsertImport, ImportJobsTypeOK
  <2>3. CASE CancelImport(r)
    BY <1>1, <2>1, <2>3, ImportRowsAreTyped
    DEF CancelImport, SetImport, At, ImportJobsTypeOK
  <2> QED
    BY <1>1, <1>4, <2>1, <2>2, <2>3
    DEF HandleCreateImport, HandleCancelImport, LookUpImport, FindImport, importVars,
        ImportJobsTypeOK
<1>5. ASSUME NEW w \in Importers, ImporterStep(w) \/ ImporterStops(w)
      PROVE  ImportJobsTypeOK' /\ ImportersHaveJobs'
  <2>1. RequestsAre(ImportRequest)' /\ ImportHistory
    BY <1>2, <1>3, <1>5
    DEF ImporterStep, ImporterStops, FindQueued, ClaimImport, MarkStarted, LoadImport,
        SetProcessing, ProcessEntities, FinishImport, requestVars
  <2>2. \E s \in ImporterState :
          importer' = [importer EXCEPT ![w] = s] /\ (s.pc # "idle" => s.job \in Imports)
    <3>1. importer[w] \in ImporterState
      BY <1>1
    <3>2. CASE FindQueued(w)
      BY <3>2, ImportersAreTyped DEF FindQueued
    <3>3. CASE ImporterEnds(w)
      BY <1>1, <3>3, ImportersAreTyped DEF ImporterEnds
    <3>4. ASSUME NEW label \in {"start", "load", "process", "entities", "complete", "fail"},
                 importer[w].pc # "idle", ImporterGoes(w, label)
          PROVE  \E s \in ImporterState :
                    importer' = [importer EXCEPT ![w] = s] /\ (s.pc # "idle" => s.job \in Imports)
      <4> DEFINE s == [importer[w] EXCEPT !.pc = label]
      <4>1. s \in ImporterState /\ importer' = [importer EXCEPT ![w] = s]
        BY <3>1, <3>4, ImportersAreTyped DEF ImporterGoes
      <4>2. s.job \in Imports
        BY <3>1, <3>4 DEF ImporterState
      <4> QED BY <4>1, <4>2
    <3>5. FindQueued(w) \/ ImporterEnds(w) \/ \E label \in
            {"start", "load", "process", "entities", "complete", "fail"} :
                importer[w].pc # "idle" /\ ImporterGoes(w, label)
      BY <1>5
      DEF ImporterStep, ImporterStops, ClaimImport, MarkStarted, LoadImport, SetProcessing,
          ProcessEntities, FinishImport, Outcomes
    <3> QED BY <3>2, <3>3, <3>4, <3>5
  <2>3. /\ importer' \in [Importers -> ImporterState]
        /\ ImportersHaveJobs'
    BY <1>1, <2>2
  <2>4. import' \in [Imports -> ImportRow]
    <3>1. CASE UNCHANGED import
      BY <1>1, <3>1
    <3>2. ASSUME NEW j \in Imports,
                 NEW st \in {"queued", "processing", "completed", "failed", "cancelled"},
                 SetImport(j, st)
          PROVE  import' \in [Imports -> ImportRow]
      BY <1>1, <3>2, ImportRowsAreTyped DEF SetImport
    <3>3. CASE MarkStarted(w)
      <4> DEFINE j == importer[w].job
      <4>1. j \in Imports
        BY <3>3 DEF MarkStarted
      <4>2. UNCHANGED import \/ import' = [import EXCEPT ![j].started = "fresh"]
        BY <3>3 DEF MarkStarted
      <4>3. [import[j] EXCEPT !.started = "fresh"] \in ImportRow
        BY <1>1, <4>1, ImportRowsAreTyped
      <4> HIDE DEF j
      <4> QED BY <1>1, <4>1, <4>2, <4>3
    <3>4. ~ImporterAt(w, "idle") => importer[w].job \in Imports
      OBVIOUS
    <3>5. CASE ClaimImport(w) \/ SetProcessing(w) \/ FinishImport(w)
      BY <3>1, <3>2, <3>4, <3>5 DEF ClaimImport, SetProcessing, FinishImport
    <3> QED
      BY <1>5, <3>1, <3>3, <3>5
      DEF ImporterStep, ImporterStops, FindQueued, LoadImport, ProcessEntities
  <2> QED BY <1>1, <2>1, <2>3, <2>4 DEF ImportHistory, ImportJobsTypeOK
<1>6. ASSUME NEW j \in Imports, GrowOld(j) PROVE ImportJobsTypeOK' /\ ImportersHaveJobs'
  <2>1. RequestsAre(ImportRequest)'
    BY <1>2, <1>3, <1>6 DEF GrowOld
  <2>2. import' \in [Imports -> ImportRow]
    BY <1>1, <1>6, ImportRowsAreTyped DEF GrowOld
  <2> QED BY <1>1, <1>6, <2>1, <2>2 DEF GrowOld, ImportHistory, ImportJobsTypeOK
<1>7. CASE FindStuckProcessing
  BY <1>1, <1>2, <1>7 DEF FindStuckProcessing, ImportJobsTypeOK
<1>8. ASSUME NEW j \in Imports, RequeueImport(j) PROVE ImportJobsTypeOK' /\ ImportersHaveJobs'
  <2>1. import' \in [Imports -> ImportRow]
    BY <1>1, <1>8, ImportRowsAreTyped DEF RequeueImport, SetImport
  <2> QED BY <1>1, <1>2, <1>8, <2>1 DEF RequeueImport, ImportJobsTypeOK
<1> QED BY <1>4, <1>5, <1>6, <1>7, <1>8 DEF ImportJobsNext, ImportReaperStep

\* The next states of one import that was not put back: who is on it and its status.
LEMMA ImportSteps ==
    ASSUME ImportJobsInv, ImportJobsNext, NEW j \in Imports, j \notin reset'
    PROVE  OneImporter(j)' /\ (j \in cancelled' => StaysCancelled(j)')
<1> DEFINE Before == OneImporter(j) /\ (j \in cancelled => StaysCancelled(j))
           After == OneImporter(j)' /\ (j \in cancelled' => StaysCancelled(j)')
<1>1. /\ import \in [Imports -> ImportRow]
      /\ importer \in [Importers -> ImporterState]
      /\ ImportersHaveJobs
      /\ FreeImporter.pc = "idle" /\ FreeImporter.job = NoImport /\ NoImport \notin Imports
  BY ImportsAssumption DEF ImportJobsInv, ImportJobsTypeOK, FreeImporter
<1>2. reset \subseteq reset' /\ Before
  <2>1. reset \subseteq reset'
    BY DEF ImportJobsNext, ImporterStep, ImportReaperStep, HandleCreateImport, HandleCancelImport,
        LookUpImport, InsertImport, FindImport, CancelImport, FindQueued, ClaimImport,
        MarkStarted, LoadImport, SetProcessing, ProcessEntities, FinishImport, ImporterStops,
        GrowOld, FindStuckProcessing, RequeueImport, ImportHistory, importVars
  <2> QED BY <2>1 DEF ImportJobsInv
<1>3. ASSUME NEW w \in Importers, ImporterStep(w) \/ ImporterStops(w) PROVE After
  <2>1. CASE FindQueued(w)
    BY <1>1, <1>2, <2>1
    DEF FindQueued, ImportHistory, OneImporter, StaysCancelled, ImportersOn, ImportStatus, ImporterAt
  <2>2. CASE ClaimImport(w)
    <3> DEFINE k == importer[w].job
    <3>1. k \in Imports
      BY <1>1, <2>2 DEF ClaimImport, ImportersHaveJobs, ImporterAt
    <3>2. CASE ImportStatus(k) = "queued"
      <4>1. /\ import' = [import EXCEPT ![k].st = "processing"]
            /\ importer' = [importer EXCEPT ![w].pc = "start"]
            /\ UNCHANGED <<overdue, cancelled>>
        BY <2>2, <3>2 DEF ClaimImport, ClaimImportJob, SetImport, ImporterGoes, ImportHistory
      <4>2. CASE k = j
        <5>1. ImportersOn(j) = {} /\ j \notin cancelled
          BY <1>2, <3>2, <4>2 DEF OneImporter, StaysCancelled
        <5>2. ImportersOn(j)' = {w} /\ ImportStatus(j)' = "processing"
          BY <1>1, <3>1, <4>1, <4>2, <5>1 DEF ImportersOn, ImportStatus
        <5> QED BY <4>1, <5>1, <5>2 DEF OneImporter
      <4>3. CASE k # j
        <5>1. ImportersOn(j)' = ImportersOn(j) /\ ImportStatus(j)' = ImportStatus(j)
          BY <1>1, <3>1, <4>1, <4>3 DEF ImportersOn, ImportStatus
        <5>2. \A v \in ImportersOn(j) : importer'[v] = importer[v]
          BY <1>1, <4>1, <4>3 DEF ImportersOn
        <5> QED BY <1>2, <4>1, <5>1, <5>2 DEF OneImporter, StaysCancelled
      <4> QED BY <4>2, <4>3
    <3>3. CASE ImportStatus(k) # "queued"
      <4>1. /\ UNCHANGED <<import, overdue, cancelled>>
            /\ importer' = [importer EXCEPT ![w] = FreeImporter]
        BY <2>2, <3>3 DEF ClaimImport, ClaimImportJob, ImporterEnds, ImportHistory
      <4>2. ImportersOn(j)' \subseteq ImportersOn(j)
            /\ \A v \in ImportersOn(j)' : importer'[v] = importer[v]
        BY <1>1, <4>1 DEF ImportersOn
      <4> QED BY <1>2, <4>1, <4>2 DEF OneImporter, StaysCancelled, ImportStatus
    <3> QED BY <3>2, <3>3
  <2>3. CASE MarkStarted(w)
    <3>1. /\ importer' = [importer EXCEPT ![w].pc = "load"]
          /\ importer[w].pc = "start" /\ UNCHANGED <<overdue, cancelled>>
      BY <2>3 DEF MarkStarted, ImporterGoes, ImporterAt, ImportHistory
    <3>2. ImportStatus(j)' = ImportStatus(j)
      <4> DEFINE k == importer[w].job
      <4>1. UNCHANGED import \/ import' = [import EXCEPT ![k].started = "fresh"]
        BY <2>3 DEF MarkStarted
      <4>2. k \in Imports
        BY <1>1, <3>1 DEF ImportersHaveJobs, ImporterAt
      <4> HIDE DEF k
      <4>3. [import[k] EXCEPT !.started = "fresh"].st = import[k].st
        BY <1>1, <4>2 DEF ImportRow
      <4>4. import'[j] = import[j] \/ (k = j /\ import'[j] = [import[k] EXCEPT !.started = "fresh"])
        BY <1>1, <4>1, <4>2
      <4> QED BY <4>3, <4>4 DEF ImportStatus
    <3>3. ImportersOn(j)' = ImportersOn(j)
          /\ \A v \in ImportersOn(j) : v # w => importer'[v] = importer[v]
      BY <1>1, <3>1 DEF ImportersOn
    <3>4. importer'[w].pc = "load"
      BY <1>1, <3>1
    <3> QED BY <1>2, <3>1, <3>2, <3>3, <3>4 DEF OneImporter, StaysCancelled
  <2>4. CASE LoadImport(w)
    <3>1. UNCHANGED <<import, overdue, cancelled>> /\ importer[w].pc = "load"
      BY <2>4 DEF LoadImport, ImporterAt, ImportHistory
    <3>2. CASE ImportStatus(importer[w].job) = "cancelled"
      <4>1. importer' = [importer EXCEPT ![w] = FreeImporter]
        BY <2>4, <3>2 DEF LoadImport, Abandoned, ImporterEnds
      <4>2. ImportersOn(j)' \subseteq ImportersOn(j)
            /\ \A v \in ImportersOn(j)' : importer'[v] = importer[v]
        BY <1>1, <4>1 DEF ImportersOn
      <4> QED BY <1>2, <3>1, <4>2 DEF OneImporter, StaysCancelled, ImportStatus
    <3>3. CASE ImportStatus(importer[w].job) # "cancelled"
      <4>1. importer' = [importer EXCEPT ![w].pc = "process"]
        BY <2>4, <3>3 DEF LoadImport, Abandoned, ImporterGoes
      <4>2. ImportersOn(j)' = ImportersOn(j)
            /\ \A v \in ImportersOn(j) : v # w => importer'[v] = importer[v]
        BY <1>1, <3>1, <4>1 DEF ImportersOn
      <4>3. w \in ImportersOn(j) => j \notin cancelled
        BY <1>2, <3>3 DEF ImportersOn, StaysCancelled
      <4> QED BY <1>2, <3>1, <4>2, <4>3 DEF OneImporter, StaysCancelled, ImportStatus
    <3> QED BY <3>2, <3>3
  <2>5. CASE SetProcessing(w)
    BY <1>1, <1>2, <2>5
    DEF SetProcessing, ImportHistory, OneImporter, StaysCancelled, ImportersOn,
        ImportStatus, ImporterAt, ImporterGoes, SetImport, ImportersHaveJobs
  <2>6. CASE ProcessEntities(w)
    BY <1>1, <1>2, <2>6
    DEF ProcessEntities, Outcomes, ImportHistory, OneImporter, StaysCancelled, ImportersOn,
        ImportStatus, ImporterAt, ImporterGoes, ImportersHaveJobs
  <2>7. CASE FinishImport(w)
    BY <1>1, <1>2, <2>7
    DEF FinishImport, ImportHistory, OneImporter, StaysCancelled, ImportersOn,
        ImportStatus, ImporterAt, ImporterEnds, SetImport, ImportersHaveJobs
  <2>8. CASE ImporterStops(w)
    BY <1>1, <1>2, <2>8
    DEF ImporterStops, ImportHistory, OneImporter, StaysCancelled, ImportersOn,
        ImportStatus, ImporterAt, ImporterEnds
  <2> QED BY <1>3, <2>1, <2>2, <2>3, <2>4, <2>5, <2>6, <2>7, <2>8 DEF ImporterStep
<1>4. ASSUME NEW r \in Slots, InsertImport(r) \/ CancelImport(r) PROVE After
  <2>1. req[r].job \in Imports
    BY <1>4, ImportRequestTypes DEF ImportJobsInv, InsertImport, CancelImport, At
  <2>2. CASE InsertImport(r)
    BY <1>1, <1>2, <2>1, <2>2
    DEF InsertImport, OneImporter, StaysCancelled, ImportersOn, ImportStatus
  <2>3. CASE CancelImport(r)
    BY <1>1, <1>2, <2>1, <2>3
    DEF CancelImport, SetImport, OneImporter, StaysCancelled, ImportersOn, ImportStatus
  <2> QED BY <1>4, <2>2, <2>3
<1>5. CASE UNCHANGED importVars
  BY <1>2, <1>5 DEF importVars, OneImporter, StaysCancelled, ImportersOn, ImportStatus
<1>6. CASE (\E k \in Imports : GrowOld(k)) \/ ImportReaperStep
  <2>1. UNCHANGED <<importer, cancelled>> /\ ImportersOn(j)' = ImportersOn(j)
    BY <1>6
    DEF GrowOld, ImportReaperStep, FindStuckProcessing, RequeueImport, ImportHistory, ImportersOn
  <2>2. ImportStatus(j)' = ImportStatus(j) /\ (j \in overdue' => j \in overdue \/ ImportStatus(j) = "processing")
    <3>1. ASSUME NEW k \in Imports, GrowOld(k)
          PROVE  ImportStatus(j)' = ImportStatus(j) /\ overdue' = overdue
      BY <1>1, <3>1 DEF GrowOld, ImportHistory, ImportStatus
    <3>2. CASE FindStuckProcessing
      BY <1>1, <3>2 DEF FindStuckProcessing, ImportStatus
    <3>3. ASSUME NEW k \in Imports, RequeueImport(k)
          PROVE  ImportStatus(j)' = ImportStatus(j) /\ overdue' \subseteq overdue
      BY <1>1, <3>3 DEF RequeueImport, SetImport, ImportStatus
    <3> QED BY <1>6, <3>1, <3>2, <3>3 DEF ImportReaperStep
  <2> QED BY <1>2, <2>1, <2>2 DEF OneImporter, StaysCancelled
<1> QED
  BY <1>3, <1>4, <1>5, <1>6
  DEF ImportJobsNext, HandleCreateImport, HandleCancelImport, LookUpImport, FindImport,
      importVars

\* At first there is no import.
LEMMA ImportsStart == ImportJobsInit /\ RequestsInit => ImportJobsInv
<1> SUFFICES ASSUME ImportJobsInit, RequestsInit PROVE ImportJobsInv
  OBVIOUS
<1>1. [st |-> "none", started |-> "null", no |-> 0] \in ImportRow
  BY ImportsAssumption, FS_CardinalityType DEF ImportRow
<1>2. FreeImporter \in ImporterState /\ FreeImporter.pc = "idle"
      /\ FreeImporter.job = NoImport /\ NoImport \notin Imports
  BY ImportersAreTyped, ImportsAssumption DEF FreeImporter
<1>3. ImportJobsTypeOK
  BY <1>1, <1>2, RequestBoundsAssumption
  DEF ImportJobsInit, RequestsInit, ImportJobsTypeOK, RequestsAre
<1>4. ImportersHaveJobs /\ \A j \in Imports : ImportersOn(j) = {} /\ j \notin cancelled
  BY <1>2 DEF ImportJobsInit, ImportersHaveJobs, ImportersOn, ImporterAt
<1> QED BY <1>3, <1>4 DEF ImportJobsInv, OneImporter

\* ImportJobsInv is inductive.
LEMMA ImportInvSteps ==
    ImportJobsInv /\ [ImportJobsNext]_<<importVars, requestVars>> => ImportJobsInv'
<1>1. ASSUME ImportJobsInv, ImportJobsNext PROVE ImportJobsInv'
  <2>1. ImportJobsTypeOK' /\ ImportersHaveJobs'
    BY <1>1, ImportTypes DEF ImportJobsInv
  <2> QED BY <1>1, <2>1, ImportSteps DEF ImportJobsInv
<1>2. ASSUME ImportJobsInv, UNCHANGED <<importVars, requestVars>> PROVE ImportJobsInv'
  BY <1>2
  DEF importVars, requestVars, ImportJobsInv, ImportJobsTypeOK, RequestsAre, ImportersHaveJobs,
      OneImporter, StaysCancelled, ImportersOn, ImportStatus, ImporterAt
<1> QED BY <1>1, <1>2

\* However many workers poll the table, each import that the reaper has left alone
\* has one, and one that was cancelled in time stays so (import_worker.go,
\* import_service.go).
THEOREM ImportsAlwaysTakenOnce == ImportJobsSpec => []ImportsTakenOnce
<1>1. ImportJobsInv => ImportsTakenOnce
  BY OneMember DEF ImportJobsInv, OneImporter, StaysCancelled, ImportsTakenOnce
<1> QED BY <1>1, ImportsStart, ImportInvSteps, PTL DEF ImportJobsSpec

-----------------------------------------------------------------------------
(* Permissions *)

\* What a decision and a listener may become.
LEMMA ChecksAreTyped ==
    /\ \A b \in BOOLEAN : Answer(b) \in Decision /\ Answer(b) \in {"yes", "no"}
    /\ \A q \in Check :
        /\ q.by \in CacheInstances /\ q.decision \in Decision
        /\ [q EXCEPT !.pc = "enforce"] \in Check
        /\ \A d \in Decision : [q EXCEPT !.pc = "set", !.decision = d] \in Check
    /\ \A i \in CacheInstances : [pc |-> "get", by |-> i, decision |-> "none"] \in Check
<1>1. ASSUME NEW q \in Check
      PROVE  /\ q.by \in CacheInstances /\ q.decision \in Decision
             /\ [q EXCEPT !.pc = "enforce"] \in Check
             /\ \A d \in Decision : [q EXCEPT !.pc = "set", !.decision = d] \in Check
  BY DEF Check
<1>2. \A i \in CacheInstances : [pc |-> "get", by |-> i, decision |-> "none"] \in Check
  BY DEF Check, Decision
<1>3. \A b \in BOOLEAN : Answer(b) \in Decision /\ Answer(b) \in {"yes", "no"}
  BY DEF Answer, Decision
<1> QED BY <1>1, <1>2, <1>3

\* The same of a listener.
LEMMA ListenersAreTyped ==
    /\ NotListening \in Listener /\ NotListening.pc = "idle"
    /\ \A b \in BOOLEAN : [pc |-> "swap", loaded |-> b] \in Listener
    /\ \A l \in Listener :
        /\ l.loaded \in BOOLEAN
        /\ [l EXCEPT !.pc = "clear"] \in Listener
        /\ [l EXCEPT !.pc = "load"] \in Listener
  BY DEF NotListening, Listener

\* The checks keep their types, and leave the policy alone.
LEMMA ChecksKeepTypes ==
    ASSUME PermissionCacheTypeOK, NEW r \in Slots, Permission(r) \/ Checking(r)
    PROVE  PermissionCacheTypeOK' /\ PolicyUnchanged
<1>1. /\ req \in [Slots -> Check \cup {Idle}]
      /\ begun \in 0..MaxRequests /\ faults \in 0..MaxFaults
      /\ cached \in Decision /\ known \in [CacheInstances -> BOOLEAN]
      /\ \A s \in Slots : req[s].pc # "idle" => req[s] \in Check
  BY DEF PermissionCacheTypeOK, RequestsAre, Idle
<1>2. PolicyUnchanged
  BY DEF Permission, Checking, CacheGet, EnforceWithCache, CacheSet
<1>3. ASSUME NEW q \in Check \cup {Idle}, Begin(r, q) \/ Become(r, q), cached' \in Decision
      PROVE  PermissionCacheTypeOK'
  <2>1. RequestsAre(Check)'
    BY <1>1, <1>3, RequestBoundsAssumption DEF Begin, Become, RequestsAre
  <2> QED BY <1>2, <1>3, <2>1 DEF PolicyUnchanged, PermissionCacheTypeOK
<1>4. CASE Permission(r)
  BY <1>1, <1>3, <1>4, ChecksAreTyped DEF Permission
<1>5. CASE Checking(r)
  <2>1. req[r] \in Check
    BY <1>1, <1>5 DEF Checking, CacheGet, EnforceWithCache, CacheSet, At
  <2>2. cached' \in Decision
    BY <1>1, <1>5, <2>1, ChecksAreTyped DEF Checking, CacheGet, EnforceWithCache, CacheSet
  <2>3. \E q \in Check \cup {Idle} : Become(r, q)
    <3>1. CASE CacheGet(r)
      BY <2>1, <3>1, ChecksAreTyped DEF CacheGet, Goto, Finish
    <3>2. CASE EnforceWithCache(r)
      <4>1. Answer(known[req[r].by]) \in Decision
        BY <1>1, <2>1, ChecksAreTyped
      <4> QED BY <2>1, <3>2, <4>1, ChecksAreTyped DEF EnforceWithCache
    <3>3. CASE CacheSet(r)
      BY <3>3 DEF CacheSet, Finish
    <3> QED BY <1>5, <3>1, <3>2, <3>3 DEF Checking
  <2>4. PICK q \in Check \cup {Idle} : Become(r, q)
    BY <2>3
  <2> QED BY <1>2, <1>3, <2>2, <2>4
<1> QED BY <1>2, <1>4, <1>5

\* Every step keeps the invariant.
LEMMA PermissionSteps ==
    ASSUME PermissionCacheInv, PermissionCacheNext
    PROVE  PermissionCacheInv'
<1> USE PermissionCacheBoundsAssumption
<1>1. PermissionCacheTypeOK /\ ChangesAreStored /\ LoadsAreRecent
  BY DEF PermissionCacheInv
<1>2. ASSUME NEW r \in Slots, Permission(r) \/ Checking(r) PROVE PermissionCacheInv'
  BY <1>1, <1>2, ChecksKeepTypes
  DEF PolicyUnchanged, PermissionCacheInv, ChangesAreStored, LoadsAreRecent
<1>3. ASSUME NEW i \in CacheInstances, NewEnforcer(i) PROVE PermissionCacheInv'
  <2>1. PermissionCacheTypeOK'
    BY <1>1, <1>3, ListenersAreTyped DEF NewEnforcer, PermissionCacheTypeOK, RequestsAre
  <2>2. LoadsAreRecent' /\ ChangesAreStored'
    BY <1>1, <1>3, ListenersAreTyped
    DEF NewEnforcer, PermissionCacheTypeOK, LoadsAreRecent, ChangesAreStored
  <2> QED BY <2>1, <2>2 DEF PermissionCacheInv
<1>4. CASE UNCHANGED requestVars /\ RequestsAre(Check)
  <2> USE <1>4
  <2>1. RequestsAre(Check)'
    BY DEF requestVars, RequestsAre
  <2>2. CASE Expire
    BY <1>1, <2>1, <2>2
    DEF Expire, PolicyUnchanged, PermissionCacheTypeOK, Decision, PermissionCacheInv,
        ChangesAreStored, LoadsAreRecent
  <2>3. ASSUME NEW i \in CacheInstances, ChangePolicy(i) PROVE PermissionCacheInv'
    <3>1. PermissionCacheTypeOK'
      <4>1. policyChanges' \in 0..MaxPolicyChanges
        BY <1>1, <2>3 DEF ChangePolicy, PermissionCacheTypeOK
      <4>2. /\ policy' \in BOOLEAN /\ raced' \in BOOLEAN
            /\ known' \in [CacheInstances -> BOOLEAN]
        BY <1>1, <2>3 DEF ChangePolicy, Crosses, PermissionCacheTypeOK
      <4>3. changedBy' \in SUBSET CacheInstances
        BY <2>3 DEF ChangePolicy
      <4> QED BY <1>1, <2>1, <2>3, <4>1, <4>2, <4>3 DEF ChangePolicy, PermissionCacheTypeOK
    <3>2. ChangesAreStored'
      BY <1>1, <2>3 DEF ChangePolicy, PermissionCacheTypeOK, ChangesAreStored
    <3>3. LoadsAreRecent'
      BY <1>1, <2>3 DEF ChangePolicy, Crosses, LoadsAreRecent
    <3> QED BY <3>1, <3>2, <3>3 DEF PermissionCacheInv
  <2>4. CASE CommandLoads \/ CommandSaves \/ PublishInvalidate
    <3>1. PermissionCacheTypeOK'
      <4>1. reloads' \in 0..MaxReloads
        BY <1>1, <2>4 DEF CommandLoads, CommandSaves, PublishInvalidate, PermissionCacheTypeOK
      <4>2. CASE CommandLoads
        BY <1>1, <2>1, <4>1, <4>2, ChecksAreTyped DEF CommandLoads, PermissionCacheTypeOK
      <4>3. CASE CommandSaves
        BY <1>1, <2>1, <4>1, <4>3 DEF CommandSaves, PermissionCacheTypeOK, Decision
      <4>4. CASE PublishInvalidate
        <5>1. inbox' \in [CacheInstances -> BOOLEAN]
          BY <1>1, <4>4 DEF PublishInvalidate, PermissionCacheTypeOK
        <5> QED BY <1>1, <2>1, <4>1, <4>4, <5>1 DEF PublishInvalidate, PermissionCacheTypeOK
      <4> QED BY <2>4, <4>2, <4>3, <4>4
    <3>2. LoadsAreRecent' /\ ChangesAreStored'
      BY <1>1, <2>4
      DEF CommandLoads, CommandSaves, PublishInvalidate, Answer, LoadsAreRecent,
          ChangesAreStored, PermissionCacheTypeOK
    <3> QED BY <3>1, <3>2 DEF PermissionCacheInv
  <2>5. ASSUME NEW i \in CacheInstances,
               SubscribeInvalidation(i) \/ InvalidateAll(i) \/ LoadModel(i) \/ SwapModel(i)
        PROVE  PermissionCacheInv'
    <3>1. PermissionCacheTypeOK'
      <4>1. listener' \in [CacheInstances -> Listener]
        <5>1. listener \in [CacheInstances -> Listener] /\ policy \in BOOLEAN
          BY <1>1 DEF PermissionCacheTypeOK
        <5>2. CASE SubscribeInvalidation(i) \/ InvalidateAll(i)
          <6>1. /\ [listener[i] EXCEPT !.pc = "clear"] \in Listener
                /\ [listener[i] EXCEPT !.pc = "load"] \in Listener
            BY <5>1, ListenersAreTyped
          <6> QED BY <5>1, <5>2, <6>1 DEF SubscribeInvalidation, InvalidateAll
        <5>3. CASE LoadModel(i) \/ SwapModel(i)
          BY <5>1, <5>3, ListenersAreTyped DEF LoadModel, SwapModel
        <5> QED BY <2>5, <5>2, <5>3
      <4>2. known' \in [CacheInstances -> BOOLEAN] /\ inbox' \in [CacheInstances -> BOOLEAN]
        BY <1>1, <2>5, ListenersAreTyped
        DEF SubscribeInvalidation, InvalidateAll, LoadModel, SwapModel, PermissionCacheTypeOK
      <4>3. cached' \in Decision
        BY <1>1, <2>5
        DEF SubscribeInvalidation, InvalidateAll, LoadModel, SwapModel, PermissionCacheTypeOK,
            Decision
      <4> QED
        BY <1>1, <2>1, <2>5, <4>1, <4>2, <4>3
        DEF SubscribeInvalidation, InvalidateAll, LoadModel, SwapModel, PermissionCacheTypeOK
    <3>2. LoadsAreRecent'
      <4>1. /\ UNCHANGED <<policy, command, changedBy, raced>>
            /\ \A k \in CacheInstances :
                listener'[k].pc = "swap"
                    => listener'[k] = listener[k] \/ listener'[k].loaded = policy
        <5>1. listener \in [CacheInstances -> Listener]
          BY <1>1 DEF PermissionCacheTypeOK
        <5>2. CASE SubscribeInvalidation(i) \/ InvalidateAll(i)
          BY <5>1, <5>2 DEF SubscribeInvalidation, InvalidateAll, Listener
        <5>3. CASE LoadModel(i)
          BY <5>1, <5>3, ListenersAreTyped DEF LoadModel
        <5>4. CASE SwapModel(i)
          BY <5>1, <5>4, ListenersAreTyped DEF SwapModel
        <5> QED BY <2>5, <5>2, <5>3, <5>4
      <4> QED BY <1>1, <4>1 DEF LoadsAreRecent
    <3>3. ChangesAreStored'
      BY <1>1, <2>5
      DEF SubscribeInvalidation, InvalidateAll, LoadModel, SwapModel, PermissionCacheTypeOK,
          LoadsAreRecent, ChangesAreStored
    <3> QED BY <3>1, <3>2, <3>3 DEF PermissionCacheInv
  <2> QED BY <1>2, <2>2, <2>3, <2>4, <2>5, <1>3 DEF PermissionCacheNext
<1> QED
  BY <1>1, <1>2, <1>3, <1>4
  DEF PermissionCacheNext, PermissionCacheTypeOK, Expire, ChangePolicy, SubscribeInvalidation,
      InvalidateAll, LoadModel, SwapModel, CommandLoads, CommandSaves, PublishInvalidate

\* At first nobody has changed the policy.
LEMMA PermissionsStart == PermissionCacheInit /\ RequestsInit => PermissionCacheInv
<1> SUFFICES ASSUME PermissionCacheInit, RequestsInit PROVE PermissionCacheInv
  OBVIOUS
<1>1. RequestsAre(Check)
  BY RequestBoundsAssumption DEF RequestsInit, RequestsAre
<1>2. policyChanges \in 0..MaxPolicyChanges /\ reloads \in 0..MaxReloads
  BY PermissionCacheBoundsAssumption DEF PermissionCacheInit
<1>3. PermissionCacheTypeOK
  BY <1>1, <1>2, ListenersAreTyped DEF PermissionCacheInit, PermissionCacheTypeOK, Decision
<1> QED BY <1>3 DEF PermissionCacheInit, PermissionCacheInv, ChangesAreStored, LoadsAreRecent

\* PermissionCacheInv is inductive.
LEMMA PermissionInvSteps ==
    PermissionCacheInv /\ [PermissionCacheNext]_<<permVars, requestVars>> => PermissionCacheInv'
<1>1. ASSUME PermissionCacheInv, UNCHANGED <<permVars, requestVars>> PROVE PermissionCacheInv'
  BY <1>1
  DEF permVars, requestVars, PermissionCacheInv, PermissionCacheTypeOK, RequestsAre,
      ChangesAreStored, LoadsAreRecent
<1> QED BY <1>1, PermissionSteps

\* What an instance has granted or taken back is in the database as in its memory,
\* unless a load or a rewriting command crossed it (internal/permission/enforcer.go).
THEOREM ChangesAreAlwaysStored == PermissionCacheSpec => []ChangesAreStored
<1>1. PermissionCacheInv => ChangesAreStored
  BY DEF PermissionCacheInv
<1> QED BY <1>1, PermissionsStart, PermissionInvSteps, PTL DEF PermissionCacheSpec

-----------------------------------------------------------------------------
(* Emails *)

\* Where an actor may go.
LEMMA ActorsAreTyped ==
    /\ Free \in Actor
    /\ \A q \in Actor : \A l \in {"send", "sent", "count", "check", "fail"} :
        [q EXCEPT !.pc = l] \in Actor /\ [q EXCEPT !.pc = l].pc = l /\ [q EXCEPT !.pc = l].e = q.e
    /\ \A e \in Emails, l \in {"claim", "send"} : [pc |-> l, e |-> e] \in Actor
BY DEF Actor, Free

\* What becomes of a row.
LEMMA EmailRowsAreTyped ==
    ASSUME NEW row \in EmailRow
    PROVE  /\ \A st \in {"queued", "processing", "sent", "failed", "delivered", "bounced"} :
                /\ [row EXCEPT !.st = st] \in EmailRow
                /\ [row EXCEPT !.st = st].st = st
                /\ [row EXCEPT !.st = st].attempts = row.attempts
                /\ [row EXCEPT !.st = st].no = row.no
           /\ row.attempts <= 1 =>
                /\ [row EXCEPT !.attempts = row.attempts + 1] \in EmailRow
                /\ [row EXCEPT !.st = "failed", !.attempts = row.attempts + 1] \in EmailRow
           /\ [row EXCEPT !.attempts = row.attempts + 1].attempts = row.attempts + 1
           /\ [row EXCEPT !.attempts = row.attempts + 1].st = row.st
           /\ [row EXCEPT !.st = "failed", !.attempts = row.attempts + 1].st = "failed"
           /\ [row EXCEPT !.st = "failed", !.attempts = row.attempts + 1].attempts
                = row.attempts + 1
<1> USE EmailBoundsAssumption DEF EmailRow
<1>1. ASSUME NEW st \in {"queued", "processing", "sent", "failed", "delivered", "bounced"}
      PROVE  /\ [row EXCEPT !.st = st] \in EmailRow
             /\ [row EXCEPT !.st = st].st = st
             /\ [row EXCEPT !.st = st].attempts = row.attempts
             /\ [row EXCEPT !.st = st].no = row.no
  OBVIOUS
<1>2. ASSUME row.attempts <= 1
      PROVE  /\ [row EXCEPT !.attempts = row.attempts + 1] \in EmailRow
             /\ [row EXCEPT !.st = "failed", !.attempts = row.attempts + 1] \in EmailRow
  <2>1. row.attempts + 1 \in 0..(RetryMax + 1)
    BY <1>2
  <2> QED BY <2>1
<1> QED BY <1>1, <1>2

\* The statements keep the types.
LEMMA EmailTypes ==
    ASSUME EmailInv, EmailNext
    PROVE  EmailTypeOK'
<1>1. /\ mail \in [Emails -> EmailRow]
      /\ actor \in [Actors -> Actor]
      /\ \A a \in Actors : actor[a].pc = "idle" <=> actor[a].e = NoEmail
      /\ emailRunning \in BOOLEAN
      /\ handed \in [Emails -> Nat]
      /\ unclear \in SUBSET Emails
      /\ emailFaults \in 0..MaxEmailFaults /\ MaxEmailFaults \in Nat
      /\ Mailers \subseteq Actors /\ Senders \subseteq Actors
  BY EmailBoundsAssumption DEF EmailInv, EmailTypeOK, Actors
<1>2. ASSUME NEW a \in Actors, actor[a].pc # "idle" PROVE actor[a].e \in Emails
  BY <1>1, <1>2 DEF Actor
<1> DEFINE Manned == /\ actor' \in [Actors -> Actor]
                     /\ \A a \in Actors : actor'[a].pc = "idle" <=> actor'[a].e = NoEmail
           Filed == mail' \in [Emails -> EmailRow]
           Rest == /\ emailRunning' \in BOOLEAN /\ handed' \in [Emails -> Nat]
                   /\ unclear' \in SUBSET Emails /\ emailFaults' \in 0..MaxEmailFaults
<1>3. ASSUME Manned, Filed, Rest PROVE EmailTypeOK'
  BY <1>3 DEF EmailTypeOK
<1>4. ASSUME NEW a \in Actors, LetGo(a) PROVE Manned
  BY <1>1, <1>4, ActorsAreTyped DEF LetGo, Free
<1>5. ASSUME NEW a \in Actors, actor[a].pc # "idle",
             NEW l \in {"send", "sent", "count", "check", "fail"}, ActorGoto(a, l)
      PROVE  Manned
  <2>1. /\ actor' = [actor EXCEPT ![a] = [actor[a] EXCEPT !.pc = l]]
        /\ [actor[a] EXCEPT !.pc = l] \in Actor
        /\ [actor[a] EXCEPT !.pc = l].pc = l /\ [actor[a] EXCEPT !.pc = l].e = actor[a].e
    BY <1>1, <1>5, ActorsAreTyped DEF ActorGoto
  <2> HIDE DEF Manned
  <2>2. /\ actor' \in [Actors -> Actor] /\ actor'[a].pc = l /\ actor'[a].e = actor[a].e
        /\ \A b \in Actors \ {a} : actor'[b] = actor[b]
    BY <1>1, <2>1
  <2>3. \A b \in Actors : actor'[b].pc = "idle" <=> actor'[b].e = NoEmail
    BY <1>1, <1>5, <2>2
  <2> QED BY <2>2, <2>3 DEF Manned
<1>6. ASSUME NEW a \in Actors, NEW e \in Emails, NEW l \in {"claim", "send"},
             actor' = [actor EXCEPT ![a] = [pc |-> l, e |-> e]]
      PROVE  Manned
  BY <1>1, <1>6, ActorsAreTyped, NoEmailAssumption
<1>7. ASSUME NEW e \in Emails, NEW st \in {"queued", "processing"}, InsertEmail(e, st) PROVE Filed
  <2> DEFINE before == {d \in Emails : EmailExists(d)}
  <2>1. before \in SUBSET Emails /\ before # Emails
    BY <1>7 DEF InsertEmail
  <2>2. 1 + Cardinality(before) \in 0..Cardinality(Emails)
    BY <2>1, NoEmailAssumption, RoomForOneMore
  <2>3. [st |-> st, attempts |-> 0, no |-> 1 + Cardinality(before)] \in EmailRow
    BY <2>2, EmailBoundsAssumption DEF EmailRow
  <2> QED BY <1>1, <1>7, <2>3 DEF InsertEmail
<1>8. ASSUME NEW e \in Emails,
             NEW st \in {"queued", "processing", "sent", "failed", "delivered", "bounced"},
             SetStatus(e, st)
      PROVE  Filed
  <2>1. [mail[e] EXCEPT !.st = st] \in EmailRow
    BY <1>1, EmailRowsAreTyped
  <2> QED BY <1>1, <1>8, <2>1 DEF SetStatus
<1>9. ASSUME UNCHANGED actor PROVE Manned
  BY <1>1, <1>9
<1>10. ASSUME UNCHANGED mail PROVE Filed
  BY <1>1, <1>10
<1>11. ASSUME UNCHANGED <<emailRunning, History>>, emailFaults' \in 0..MaxEmailFaults PROVE Rest
  BY <1>1, <1>11 DEF History
<1>12. ASSUME Fault PROVE emailFaults' \in 0..MaxEmailFaults
  BY <1>1, <1>12 DEF Fault
<1>13. ASSUME actor' = [a \in Actors |-> Free] PROVE Manned
  BY <1>13, ActorsAreTyped DEF Free
<1> HIDE DEF Manned, Filed, Rest
<1>14. ASSUME NEW w \in Mailers, GetNextBatch(w) PROVE EmailTypeOK'
  BY <1>1, <1>3, <1>6, <1>10, <1>11, <1>14 DEF GetNextBatch
<1>15. ASSUME NEW w \in Mailers, MarkProcessing(w) PROVE EmailTypeOK'
  <2>1. actor[w].e \in Emails /\ actor[w].pc # "idle"
    BY <1>1, <1>2, <1>15 DEF MarkProcessing, ActorAt
  <2> QED BY <1>1, <1>3, <1>4, <1>5, <1>8, <1>10, <1>11, <1>15, <2>1 DEF MarkProcessing
<1>16. ASSUME NEW a \in Actors, ProviderSend(a) PROVE EmailTypeOK'
  <2>1. actor[a].e \in Emails /\ actor[a].pc # "idle"
    BY <1>2, <1>16 DEF ProviderSend, ActorAt
  <2>2. PICK l \in {"sent", "count", "fail"} : ActorGoto(a, l)
    BY <1>16 DEF ProviderSend, OnError
  <2>3. Manned
    BY <1>5, <2>1, <2>2
  <2>4. Rest
    BY <1>1, <1>16, <2>1 DEF ProviderSend, History, Rest
  <2> QED BY <1>3, <1>10, <1>16, <2>3, <2>4 DEF ProviderSend
<1>17. ASSUME NEW a \in Actors, MarkSent(a) PROVE EmailTypeOK'
  <2>1. actor[a].e \in Emails
    BY <1>2, <1>17 DEF MarkSent, ActorAt
  <2> QED BY <1>1, <1>3, <1>4, <1>8, <1>11, <1>17, <2>1 DEF MarkSent
<1>18. ASSUME NEW a \in Actors, actor[a].pc \in {"count", "fail"}
       PROVE  /\ actor[a].e \in Emails
              /\ [mail[actor[a].e] EXCEPT !.attempts = mail[actor[a].e].attempts + 1] \in EmailRow
              /\ [mail[actor[a].e] EXCEPT !.st = "failed",
                                          !.attempts = mail[actor[a].e].attempts + 1] \in EmailRow
  <2>1. actor[a].e \in Emails /\ mail[actor[a].e].attempts <= 1
    BY <1>2, <1>18 DEF EmailInv, CarriersKnow, Carries, Knows
  <2> QED BY <1>1, <2>1, EmailRowsAreTyped
<1>19. ASSUME NEW w \in Mailers, IncrementAttempts(w) PROVE EmailTypeOK'
  <2>1. actor[w].pc = "count"
    BY <1>19 DEF IncrementAttempts, ActorAt
  <2>2. mail' \in [Emails -> EmailRow]
    BY <1>1, <1>18, <1>19, <2>1 DEF IncrementAttempts
  <2> QED BY <1>1, <1>3, <1>5, <1>11, <1>19, <2>1, <2>2 DEF IncrementAttempts, Filed
<1>20. ASSUME NEW w \in Mailers, CanRetry(w) PROVE EmailTypeOK'
  BY <1>1, <1>3, <1>4, <1>5, <1>10, <1>11, <1>20 DEF CanRetry, ActorAt
<1>21. ASSUME NEW a \in Actors, MarkFailed(a) PROVE EmailTypeOK'
  <2>1. actor[a].pc = "fail"
    BY <1>21 DEF MarkFailed, ActorAt
  <2>2. mail' \in [Emails -> EmailRow]
    BY <1>1, <1>18, <1>21, <2>1 DEF MarkFailed
  <2> QED BY <1>1, <1>3, <1>4, <1>11, <1>21, <2>2 DEF MarkFailed, Filed
<1>22. ASSUME NEW s \in Senders, NEW e \in Emails, SendDirect(s, e) PROVE EmailTypeOK'
  BY <1>1, <1>3, <1>6, <1>7, <1>11, <1>22 DEF SendDirect
<1>23. ASSUME NEW a \in Actors, QueryFails(a) PROVE EmailTypeOK'
  <2>1. /\ actor[a].pc # "idle"
        /\ LetGo(a) \/ \E l \in {"check", "fail"} : ActorGoto(a, l)
    BY <1>23 DEF QueryFails, AfterError
  <2>2. emailFaults' \in 0..MaxEmailFaults
    BY <1>1, <1>12, <1>23 DEF QueryFails
  <2> QED BY <1>3, <1>4, <1>5, <1>10, <1>11, <1>23, <2>1, <2>2 DEF QueryFails
<1>24. ASSUME NEW e \in Emails, QueueEmail(e) \/ RecordDelivery(e) \/ RecordBounce(e)
       PROVE  EmailTypeOK'
  BY <1>1, <1>3, <1>7, <1>8, <1>9, <1>11, <1>24 DEF QueueEmail, RecordDelivery, RecordBounce
<1>25. CASE StopWorkers \/ StartWorkers \/ CrashWorkers
  <2>1. Manned /\ Filed
    BY <1>9, <1>10, <1>13, <1>25 DEF StopWorkers, StartWorkers, CrashWorkers
  <2>2. Rest
    BY <1>1, <1>12, <1>25 DEF StopWorkers, StartWorkers, CrashWorkers, History, Rest
  <2> QED BY <1>3, <2>1, <2>2
<1> QED
  BY <1>1, <1>14, <1>15, <1>16, <1>17, <1>19, <1>20, <1>21, <1>22, <1>23, <1>24, <1>25
  DEF EmailNext, Worker

\* A step in which nobody takes an email, gives one up or gets further, and no row is
\* written.
LEMMA QuietActors ==
    ASSUME EmailInv, UNCHANGED <<mail, handed, unclear>>,
           emailFaults' \in Nat, emailFaults' >= emailFaults,
           \A a \in Actors : Carries(a) \/ Carries(a)' => actor'[a] = actor[a],
           ~emailRunning' => emailFaults' > 0
    PROVE  OneCarrier' /\ CarriersKnow' /\ (\A e \in Emails : RowIsAccounted(e)') /\ StopsAreFaults'
<1>1. \A a \in Actors : (Carries(a) <=> Carries(a)') /\ (Carries(a) => actor'[a] = actor[a])
  BY DEF Carries
<1>2. emailFaults \in Nat /\ (emailFaults' = 0 => emailFaults = 0)
  BY EmailBoundsAssumption DEF EmailInv, EmailTypeOK
<1>3. OneCarrier'
  BY <1>1 DEF EmailInv, OneCarrier
<1>4. CarriersKnow'
  <2>1. ASSUME NEW a \in Actors, Carries(a)' PROVE Knows(a)'
    <3>1. Knows(a) /\ actor'[a] = actor[a]
      BY <1>1, <2>1 DEF EmailInv, CarriersKnow
    <3> QED BY <1>2, <3>1 DEF Knows, ActorAt
  <2> QED BY <2>1 DEF CarriersKnow
<1>5. ASSUME NEW e \in Emails PROVE RowIsAccounted(e)'
  <2>1. RowIsAccounted(e)
    BY DEF EmailInv
  <2>2. (\E a \in Actors : Carries(a) /\ actor[a].e = e)
            => \E a \in Actors : Carries(a)' /\ actor'[a].e = e
    BY <1>1
  <2> QED BY <1>2, <2>1, <2>2 DEF RowIsAccounted
<1> QED BY <1>3, <1>4, <1>5 DEF StopsAreFaults

\* A step of an actor, on the email it carries or one that nobody does.
LEMMA ActorSteps ==
    ASSUME EmailInv, EmailTypeOK', NEW a \in Actors, NEW e \in Emails,
           \A b \in Actors \ {a} : actor'[b] = actor[b] /\ (Carries(b) => actor[b].e # e),
           \A d \in Emails \ {e} :
                mail'[d] = mail[d] /\ handed'[d] = handed[d] /\ (d \in unclear => d \in unclear'),
           emailFaults' >= emailFaults, emailRunning' = emailRunning,
           Carries(a) => actor[a].e = e,
           Carries(a)' => actor'[a].e = e /\ Knows(a)',
           RowIsAccounted(e)'
    PROVE  OneCarrier' /\ CarriersKnow' /\ (\A d \in Emails : RowIsAccounted(d)') /\ StopsAreFaults'
<1>1. \A b \in Actors \ {a} : (Carries(b)' <=> Carries(b)) /\ actor'[b] = actor[b]
  BY DEF Carries
<1>2. /\ emailFaults \in Nat /\ emailFaults' \in Nat /\ (emailFaults' = 0 => emailFaults = 0)
      /\ \A b \in Actors : Carries(b) => actor[b].e \in Emails
  <2>1. emailFaults \in Nat /\ emailFaults' \in Nat
    BY EmailBoundsAssumption DEF EmailInv, EmailTypeOK
  <2>2. ASSUME NEW b \in Actors, Carries(b) PROVE actor[b].e \in Emails
    <3>1. actor[b] \in Actor /\ actor[b].e # NoEmail
      BY <2>2 DEF EmailInv, EmailTypeOK, Carries
    <3> QED BY <3>1 DEF Actor
  <2> QED BY <2>1, <2>2
<1>3. OneCarrier'
  BY <1>1 DEF EmailInv, OneCarrier
<1>4. CarriersKnow'
  <2>1. ASSUME NEW b \in Actors \ {a}, Carries(b)' PROVE Knows(b)'
    <3>1. Knows(b) /\ actor'[b] = actor[b] /\ actor[b].e \in Emails \ {e}
      BY <1>1, <1>2, <2>1 DEF EmailInv, CarriersKnow
    <3> QED BY <1>2, <3>1 DEF Knows, ActorAt
  <2> QED BY <2>1 DEF CarriersKnow
<1>5. ASSUME NEW d \in Emails \ {e} PROVE RowIsAccounted(d)'
  <2>1. RowIsAccounted(d)
    BY DEF EmailInv
  <2>2. (\E b \in Actors : Carries(b) /\ actor[b].e = d)
            => \E b \in Actors : Carries(b)' /\ actor'[b].e = d
    BY <1>1
  <2> QED BY <1>2, <2>1, <2>2 DEF RowIsAccounted
<1>6. StopsAreFaults'
  BY <1>2 DEF EmailInv, StopsAreFaults
<1> QED BY <1>3, <1>4, <1>5, <1>6

\* A row is made, or a notice of the provider written to it.
LEMMA RowSteps ==
    ASSUME EmailInv, EmailTypeOK', NEW e \in Emails,
           QueueEmail(e) \/ RecordDelivery(e) \/ RecordBounce(e)
    PROVE  OneCarrier' /\ CarriersKnow' /\ (\A d \in Emails : RowIsAccounted(d)') /\ StopsAreFaults'
<1>1. /\ mail \in [Emails -> EmailRow] /\ mail' \in [Emails -> EmailRow]
      /\ UNCHANGED <<actor, emailRunning, handed, unclear, emailFaults>>
      /\ \A d \in Emails \ {e} : mail'[d] = mail[d]
  BY DEF EmailInv, EmailTypeOK, QueueEmail, RecordDelivery, RecordBounce, InsertEmail, SetStatus,
     History
<1>2. \A b \in Actors : Carries(b)' = Carries(b)
  BY <1>1 DEF Carries
<1>3. \/ /\ mail[e].st = "none" /\ mail'[e].st = "queued" /\ mail'[e].attempts = 0
      \/ /\ mail'[e].st \in {"delivered", "bounced"} /\ mail'[e].attempts = mail[e].attempts
  <2>1. CASE QueueEmail(e)
    BY <1>1, <2>1 DEF QueueEmail, InsertEmail, EmailExists
  <2>2. CASE RecordDelivery(e) \/ RecordBounce(e)
    <3>1. PICK st \in {"delivered", "bounced"} : mail' = [mail EXCEPT ![e].st = st]
      BY <2>2 DEF RecordDelivery, RecordBounce, SetStatus
    <3>2. mail'[e] = [mail[e] EXCEPT !.st = st] /\ mail[e] \in EmailRow
      BY <1>1, <3>1
    <3>3. /\ [mail[e] EXCEPT !.st = st].st = st
          /\ [mail[e] EXCEPT !.st = st].attempts = mail[e].attempts
      BY <3>2 DEF EmailRow
    <3> QED BY <3>2, <3>3
  <2> QED BY <2>1, <2>2
<1>4. ASSUME NEW b \in Actors, Carries(b), actor[b].e = e
      PROVE  mail'[e].st \in {"delivered", "bounced"} /\ mail'[e].attempts = mail[e].attempts
  <2>1. mail[e].st # "none"
    BY <1>4 DEF EmailInv, CarriersKnow, Knows
  <2> QED BY <1>3, <2>1
<1>5. OneCarrier' /\ StopsAreFaults'
  BY <1>1, <1>2 DEF EmailInv, OneCarrier, StopsAreFaults
<1>6. ASSUME NEW b \in Actors, Carries(b) PROVE Knows(b)'
  <2>1. Knows(b) /\ actor'[b] = actor[b]
    BY <1>1, <1>6 DEF EmailInv, CarriersKnow
  <2>2. CASE actor[b].e = e
    BY <1>1, <1>4, <1>6, <2>1, <2>2 DEF Knows, ActorAt
  <2>3. CASE actor[b].e # e
    <3>1. actor[b] \in Actor /\ actor[b].e # NoEmail
      BY <1>6 DEF EmailInv, EmailTypeOK, Carries
    <3>2. mail'[actor[b].e] = mail[actor[b].e]
      BY <1>1, <2>3, <3>1 DEF Actor
    <3> QED BY <1>1, <2>1, <3>2 DEF Knows, ActorAt
  <2> QED BY <2>2, <2>3
<1>7. ASSUME NEW d \in Emails PROVE RowIsAccounted(d)'
  <2>1. RowIsAccounted(d)
    BY DEF EmailInv
  <2>2. CASE d # e
    <3>1. mail'[d] = mail[d]
      BY <1>1, <2>2
    <3> QED BY <1>1, <1>2, <2>1, <3>1 DEF RowIsAccounted
  <2>3. CASE d = e
    BY <1>1, <1>3, <2>1, <2>3 DEF RowIsAccounted
  <2> QED BY <2>2, <2>3
<1> QED BY <1>2, <1>5, <1>6, <1>7 DEF CarriersKnow

\* Every step keeps the invariant.
LEMMA EmailsAreKept ==
    ASSUME EmailInv, EmailNext
    PROVE  EmailInv'
<1> DEFINE Kept == /\ OneCarrier' /\ CarriersKnow' /\ StopsAreFaults'
                   /\ \A d \in Emails : RowIsAccounted(d)'
<1>1. /\ EmailTypeOK'
      /\ mail \in [Emails -> EmailRow] /\ mail' \in [Emails -> EmailRow]
      /\ actor \in [Actors -> Actor] /\ handed \in [Emails -> Nat]
      /\ emailFaults \in Nat /\ emailFaults' \in Nat
      /\ Mailers \subseteq Actors /\ Senders \subseteq Actors
      /\ CarriersKnow /\ \A e \in Emails : RowIsAccounted(e)
      /\ RetryMax \in Nat \ {0}
  BY EmailTypes, EmailBoundsAssumption DEF EmailInv, EmailTypeOK, Actors
<1>2. ASSUME NEW a \in Actors, actor[a].pc # "idle" PROVE actor[a].e \in Emails
  <2>1. actor[a] \in Actor /\ actor[a].e # NoEmail
    BY <1>2 DEF EmailInv, EmailTypeOK
  <2> QED BY <2>1 DEF Actor
<1>3. ASSUME NEW e \in Emails, mail[e].st \notin {"processing", "delivered", "bounced"},
             NEW b \in Actors, Carries(b)
      PROVE  actor[b].e # e
  BY <1>1, <1>3 DEF CarriersKnow, Knows
<1>4. ASSUME NEW a \in Actors, Carries(a), NEW b \in Actors \ {a}, Carries(b)
      PROVE  actor[b].e # actor[a].e
  BY <1>4 DEF EmailInv, OneCarrier
<1>5. ASSUME NEW a \in Actors, LetGo(a)
      PROVE  ~Carries(a)' /\ \A b \in Actors \ {a} : actor'[b] = actor[b]
  BY <1>1, <1>5 DEF LetGo, Free, Carries
<1>6. ASSUME NEW a \in Actors, NEW l \in {"send", "sent", "count", "check", "fail"}, ActorGoto(a, l)
      PROVE  /\ actor'[a].pc = l /\ actor'[a].e = actor[a].e
             /\ \A b \in Actors \ {a} : actor'[b] = actor[b]
  <2>1. actor' = [actor EXCEPT ![a] = [actor[a] EXCEPT !.pc = l]] /\ actor[a] \in Actor
    BY <1>1, <1>6 DEF ActorGoto
  <2>2. [actor[a] EXCEPT !.pc = l].pc = l /\ [actor[a] EXCEPT !.pc = l].e = actor[a].e
    BY <2>1, ActorsAreTyped
  <2> QED BY <1>1, <2>1, <2>2
<1>7. ASSUME NEW e \in Emails, NEW st \in {"processing", "sent"}, SetStatus(e, st)
      PROVE  /\ mail'[e].st = st /\ mail'[e].attempts = mail[e].attempts
             /\ \A d \in Emails \ {e} : mail'[d] = mail[d]
  <2>1. mail'[e] = [mail[e] EXCEPT !.st = st] /\ \A d \in Emails \ {e} : mail'[d] = mail[d]
    BY <1>1, <1>7 DEF SetStatus
  <2>2. mail[e] \in EmailRow
    BY <1>1
  <2>3. [mail[e] EXCEPT !.st = st].st = st /\ [mail[e] EXCEPT !.st = st].attempts = mail[e].attempts
    BY <2>2 DEF EmailRow
  <2> QED BY <2>1, <2>3
<1> HIDE DEF Kept
<1>8. ASSUME NEW a \in Actors, Carries(a), NEW e, e = actor[a].e,
             \A b \in Actors \ {a} : actor'[b] = actor[b],
             \A d \in Emails \ {e} :
                mail'[d] = mail[d] /\ handed'[d] = handed[d] /\ (d \in unclear => d \in unclear'),
             emailFaults' >= emailFaults, emailRunning' = emailRunning,
             Carries(a)' => actor'[a].e = e /\ Knows(a)',
             RowIsAccounted(e)'
      PROVE  Kept
  <2>1. e \in Emails /\ \A b \in Actors \ {a} : Carries(b) => actor[b].e # e
    BY <1>2, <1>4, <1>8 DEF Carries
  <2> QED BY <1>1, <1>8, <2>1, ActorSteps DEF Kept
<1>9. ASSUME NEW w \in Mailers, GetNextBatch(w) PROVE Kept
  <2>1. PICK e \in Emails : actor' = [actor EXCEPT ![w] = [pc |-> "claim", e |-> e]]
    BY <1>9 DEF GetNextBatch
  <2>2. \A a \in Actors : Carries(a) \/ Carries(a)' => actor'[a] = actor[a]
    BY <1>1, <1>9, <2>1 DEF GetNextBatch, ActorAt, Carries
  <2> QED BY <1>1, <1>9, <2>2, QuietActors DEF GetNextBatch, History, Kept
<1>10. ASSUME NEW w \in Mailers, MarkProcessing(w) PROVE Kept
  <2> DEFINE e == actor[w].e
  <2>1. /\ e \in Emails /\ ~Carries(w) /\ UNCHANGED <<emailRunning, handed, unclear, emailFaults>>
        /\ emailRunning
    BY <1>1, <1>2, <1>10 DEF MarkProcessing, ActorAt, Carries, History
  <2>2. CASE mail[e].st = "queued"
    <3>1. /\ actor'[w].pc = "send" /\ actor'[w].e = e
          /\ \A b \in Actors \ {w} : actor'[b] = actor[b]
      BY <1>1, <1>6, <1>10, <2>2 DEF MarkProcessing
    <3>2. /\ mail'[e].st = "processing" /\ mail'[e].attempts = mail[e].attempts
          /\ \A d \in Emails \ {e} : mail'[d] = mail[d]
      BY <1>7, <1>10, <2>1, <2>2 DEF MarkProcessing
    <3>3. mail[e].attempts = 0 /\ handed[e] = 0
      BY <1>1, <2>1, <2>2 DEF RowIsAccounted
    <3>4. Knows(w)'
      BY <2>1, <3>1, <3>2, <3>3 DEF Knows, ActorAt
    <3>5. Carries(w)'
      BY <3>1 DEF Carries
    <3>6. PICK x \in Emails : x = e
      BY <2>1
    <3>7. RowIsAccounted(x)'
      BY <1>1, <2>1, <3>1, <3>2, <3>3, <3>5, <3>6 DEF RowIsAccounted
    <3>8. \A b \in Actors \ {w} : Carries(b) => actor[b].e # x
      BY <1>3, <2>1, <2>2, <3>6
    <3> QED BY <1>1, <2>1, <3>1, <3>2, <3>4, <3>6, <3>7, <3>8, ActorSteps DEF Kept
  <2>3. CASE mail[e].st # "queued"
    <3>1. UNCHANGED mail /\ ~Carries(w)' /\ \A b \in Actors \ {w} : actor'[b] = actor[b]
      BY <1>1, <1>5, <1>10, <2>3 DEF MarkProcessing
    <3> QED BY <1>1, <2>1, <3>1, QuietActors DEF Kept
  <2> QED BY <2>2, <2>3
<1>11. ASSUME NEW a \in Actors, ProviderSend(a) PROVE Kept
  <2> DEFINE e == actor[a].e
  <2>1. /\ e \in Emails /\ Carries(a) /\ ActorAt(a, "send")
        /\ UNCHANGED <<mail, emailRunning, emailFaults>>
    BY <1>2, <1>11 DEF ProviderSend, ActorAt, Carries
  <2>2. /\ Knows(a) /\ handed[e] = 0 /\ mail[e].attempts = 0
        /\ mail[e].st \in {"processing", "delivered", "bounced"}
    BY <1>1, <2>1 DEF CarriersKnow, Knows, ActorAt
  <2>3. PICK l \in {"sent", "count", "fail"} :
            /\ ActorGoto(a, l)
            /\ \A d \in Emails \ {e} : handed'[d] = handed[d] /\ (d \in unclear => d \in unclear')
            /\ \/ l = "sent" /\ handed'[e] = 1
               \/ l # "sent" /\ handed'[e] = 0
               \/ l # "sent" /\ handed'[e] = 1 /\ e \in unclear'
    <3>1. CASE handed' = [handed EXCEPT ![e] = @ + 1]
      <4>1. handed'[e] = 1 /\ \A d \in Emails \ {e} : handed'[d] = handed[d]
        BY <1>1, <2>1, <2>2, <3>1
      <4> QED BY <1>11, <2>2, <3>1, <4>1 DEF ProviderSend, OnError, History
    <3>2. CASE UNCHANGED History
      <4>1. \E l \in {"count", "fail"} : ActorGoto(a, l)
        <5>1. handed'[e] # handed[e] + 1
          BY <1>1, <2>1, <3>2 DEF History
        <5>2. handed' # [handed EXCEPT ![e] = @ + 1]
          BY <1>1, <2>1, <5>1
        <5> QED BY <1>11, <5>2 DEF ProviderSend, OnError
      <4> QED BY <2>2, <3>2, <4>1 DEF History
    <3> QED BY <1>11, <3>1, <3>2 DEF ProviderSend
  <2>4. actor'[a].pc = l /\ actor'[a].e = e /\ \A b \in Actors \ {a} : actor'[b] = actor[b]
    BY <1>6, <2>3
  <2>5. Knows(a)' /\ Carries(a)'
    BY <2>1, <2>2, <2>3, <2>4 DEF Knows, ActorAt, Carries
  <2>6. PICK x \in Emails : x = e
    BY <2>1
  <2>7. RowIsAccounted(x)'
    BY <2>1, <2>2, <2>3, <2>4, <2>5, <2>6 DEF RowIsAccounted
  <2> QED BY <1>1, <1>8, <2>1, <2>3, <2>4, <2>5, <2>6, <2>7
<1>12. ASSUME NEW a \in Actors, MarkSent(a) PROVE Kept
  <2>1. /\ actor[a].e \in Emails /\ Carries(a) /\ ActorAt(a, "sent")
        /\ UNCHANGED <<emailRunning, handed, unclear, emailFaults>>
    BY <1>2, <1>12 DEF MarkSent, ActorAt, Carries, History
  <2>2. handed[actor[a].e] = 1 /\ mail[actor[a].e].attempts = 0
    BY <1>1, <2>1 DEF CarriersKnow, Knows, ActorAt
  <2>3. ~Carries(a)' /\ \A b \in Actors \ {a} : actor'[b] = actor[b]
    BY <1>5, <1>12 DEF MarkSent
  <2>4. PICK x \in Emails : x = actor[a].e
    BY <2>1
  <2>5. /\ mail'[x].st = "sent" /\ mail'[x].attempts = mail[x].attempts
        /\ \A d \in Emails \ {x} : mail'[d] = mail[d]
    BY <1>7, <1>12, <2>4 DEF MarkSent
  <2>6. RowIsAccounted(x)'
    BY <2>1, <2>2, <2>4, <2>5 DEF RowIsAccounted
  <2> QED BY <1>1, <1>8, <2>1, <2>3, <2>4, <2>5, <2>6
<1>13. ASSUME NEW w \in Mailers, IncrementAttempts(w) PROVE Kept
  <2>1. /\ actor[w].e \in Emails /\ Carries(w) /\ actor[w].pc = "count" /\ w \in Actors
        /\ UNCHANGED <<emailRunning, handed, unclear, emailFaults>>
    BY <1>1, <1>2, <1>13 DEF IncrementAttempts, ActorAt, Carries, History
  <2>2. Knows(w) /\ mail[actor[w].e].attempts = 0
    BY <1>1, <2>1 DEF CarriersKnow, Knows
  <2>3. /\ actor'[w].pc = "check" /\ actor'[w].e = actor[w].e
        /\ \A b \in Actors \ {w} : actor'[b] = actor[b]
    BY <1>6, <1>13, <2>1 DEF IncrementAttempts
  <2>4. PICK x \in Emails : x = actor[w].e
    BY <2>1
  <2>5. /\ mail'[x] = [mail[x] EXCEPT !.attempts = mail[x].attempts + 1]
        /\ \A d \in Emails \ {x} : mail'[d] = mail[d]
    BY <1>1, <1>13, <2>4 DEF IncrementAttempts
  <2>6. mail'[x].st = mail[x].st /\ mail'[x].attempts = 1
    <3>1. mail[x] \in EmailRow /\ mail[x].attempts = 0
      BY <1>1, <2>2, <2>4
    <3>2. /\ [mail[x] EXCEPT !.attempts = mail[x].attempts + 1].st = mail[x].st
          /\ [mail[x] EXCEPT !.attempts = mail[x].attempts + 1].attempts = mail[x].attempts + 1
      BY <3>1, EmailRowsAreTyped
    <3> QED BY <2>5, <3>1, <3>2
  <2>7. Knows(w)' /\ Carries(w)'
    BY <2>1, <2>2, <2>3, <2>4, <2>6 DEF Knows, ActorAt, Carries
  <2>8. RowIsAccounted(x)'
    <3>1. RowIsAccounted(x) /\ mail[x].st \in {"processing", "delivered", "bounced"}
      BY <1>1, <2>2, <2>4 DEF Knows
    <3> QED BY <2>1, <2>3, <2>4, <2>6, <2>7, <3>1 DEF RowIsAccounted
  <2> QED BY <1>1, <1>8, <2>1, <2>3, <2>4, <2>5, <2>7, <2>8
<1>14. ASSUME NEW w \in Mailers, CanRetry(w) PROVE Kept
  <2>1. /\ actor[w].e \in Emails /\ Carries(w) /\ actor[w].pc = "check" /\ w \in Actors
        /\ UNCHANGED <<mail, emailRunning, handed, unclear, emailFaults>>
    BY <1>1, <1>2, <1>14 DEF CanRetry, ActorAt, Carries, History
  <2>2. Knows(w)
    BY <1>1, <2>1 DEF CarriersKnow
  <2>3. PICK x \in Emails : x = actor[w].e /\ RowIsAccounted(x)
    BY <1>1, <2>1
  <2>4. CASE mail[actor[w].e].attempts < RetryMax
    <3>1. ~Carries(w)' /\ \A b \in Actors \ {w} : actor'[b] = actor[b]
      BY <1>5, <1>14, <2>1, <2>4 DEF CanRetry
    <3>2. mail[x].attempts \in Nat /\ (emailFaults = 0 => mail[x].attempts = 1)
      BY <1>1, <2>1, <2>2, <2>3 DEF Knows, ActorAt, EmailRow
    <3>3. emailFaults = 0 => mail[x].attempts \in 1..(RetryMax - 1)
      BY <1>1, <2>3, <2>4, <3>2
    <3>4. RowIsAccounted(x)'
      BY <2>1, <2>3, <3>3 DEF RowIsAccounted
    <3> QED BY <1>1, <1>8, <2>1, <2>3, <3>1, <3>4
  <2>5. CASE ~(mail[actor[w].e].attempts < RetryMax)
    <3>1. /\ actor'[w].pc = "fail" /\ actor'[w].e = actor[w].e
          /\ \A b \in Actors \ {w} : actor'[b] = actor[b]
      BY <1>6, <1>14, <2>1, <2>5 DEF CanRetry
    <3>2. Knows(w)' /\ Carries(w)'
      BY <2>1, <2>2, <3>1 DEF Knows, ActorAt, Carries
    <3>3. RowIsAccounted(x)'
      BY <2>1, <2>3, <3>1, <3>2 DEF RowIsAccounted
    <3> QED BY <1>1, <1>8, <2>1, <2>3, <3>1, <3>2, <3>3
  <2> QED BY <2>4, <2>5
<1>15. ASSUME NEW a \in Actors, MarkFailed(a) PROVE Kept
  <2>1. /\ actor[a].e \in Emails /\ Carries(a) /\ actor[a].pc = "fail"
        /\ UNCHANGED <<emailRunning, handed, unclear, emailFaults>>
    BY <1>2, <1>15 DEF MarkFailed, ActorAt, Carries, History
  <2>2. Knows(a)
    BY <1>1, <2>1 DEF CarriersKnow
  <2>3. ~Carries(a)' /\ \A b \in Actors \ {a} : actor'[b] = actor[b]
    BY <1>5, <1>15 DEF MarkFailed
  <2>4. PICK x \in Emails : x = actor[a].e
    BY <2>1
  <2>5. /\ mail'[x] = [mail[x] EXCEPT !.st = "failed", !.attempts = mail[x].attempts + 1]
        /\ \A d \in Emails \ {x} : mail'[d] = mail[d]
    BY <1>1, <1>15, <2>4 DEF MarkFailed
  <2>6. /\ mail'[x].st = "failed" /\ mail'[x].attempts = mail[x].attempts + 1
        /\ mail[x].attempts \in Nat /\ mail[x].attempts <= 1
    <3>1. mail[x] \in EmailRow /\ mail[x].attempts <= 1
      BY <1>1, <2>2, <2>4 DEF Knows
    <3>2. LET row == [mail[x] EXCEPT !.st = "failed", !.attempts = mail[x].attempts + 1]
          IN  row.st = "failed" /\ row.attempts = mail[x].attempts + 1
      BY <3>1, EmailRowsAreTyped
    <3>3. mail[x].attempts \in Nat
      BY <3>1 DEF EmailRow
    <3> QED BY <2>5, <3>1, <3>2, <3>3
  <2>7. RowIsAccounted(x)'
    <3>1. handed[x] = 0 \/ (handed[x] = 1 /\ x \in unclear)
      BY <2>1, <2>2, <2>4 DEF Knows
    <3> QED BY <2>1, <2>6, <3>1 DEF RowIsAccounted
  <2> QED BY <1>1, <1>8, <2>1, <2>3, <2>4, <2>5, <2>7
<1>16. ASSUME NEW s \in Senders, NEW e \in Emails, SendDirect(s, e) PROVE Kept
  <2>1. /\ s \in Actors /\ ~Carries(s) /\ UNCHANGED <<emailRunning, handed, unclear, emailFaults>>
        /\ mail[e].st = "none"
        /\ mail'[e].st = "processing" /\ mail'[e].attempts = 0
        /\ \A d \in Emails \ {e} : mail'[d] = mail[d]
    BY <1>1, <1>16 DEF SendDirect, InsertEmail, EmailExists, ActorAt, Carries, History
  <2>2. /\ actor'[s].pc = "send" /\ actor'[s].e = e
        /\ \A b \in Actors \ {s} : actor'[b] = actor[b]
    BY <1>1, <1>16, <2>1 DEF SendDirect
  <2>3. handed[e] = 0
    BY <1>1, <2>1 DEF RowIsAccounted
  <2>4. Knows(s)' /\ Carries(s)'
    BY <2>1, <2>2, <2>3 DEF Knows, ActorAt, Carries
  <2>5. RowIsAccounted(e)'
    BY <2>1, <2>2, <2>3, <2>4 DEF RowIsAccounted
  <2>6. \A b \in Actors \ {s} : Carries(b) => actor[b].e # e
    BY <1>3, <2>1
  <2> QED BY <1>1, <2>1, <2>2, <2>4, <2>5, <2>6, ActorSteps DEF Kept
<1>17. ASSUME NEW a \in Actors, QueryFails(a) PROVE Kept
  <2>1. /\ actor[a].e \in Emails /\ actor[a].pc \in {"claim", "sent", "count", "check", "fail"}
        /\ UNCHANGED <<mail, emailRunning, handed, unclear>>
        /\ emailFaults' >= emailFaults /\ emailFaults' > 0
    <3>1. emailFaults' >= emailFaults /\ emailFaults' > 0
      BY <1>1, <1>17 DEF QueryFails, CanQuery, Fault, EmailInv, StopsAreFaults
    <3> QED BY <1>2, <1>17, <3>1 DEF QueryFails, History
  <2>2. CASE actor[a].pc = "claim"
    <3>1. ~Carries(a) /\ ~Carries(a)' /\ \A b \in Actors \ {a} : actor'[b] = actor[b]
      BY <1>5, <1>17, <2>2 DEF QueryFails, AfterError, Carries
    <3> QED BY <1>1, <2>1, <3>1, QuietActors DEF Kept
  <2>3. CASE actor[a].pc # "claim"
    <3>1. PICK x \in Emails : x = actor[a].e /\ Carries(a) /\ RowIsAccounted(x)
      BY <1>1, <2>1, <2>3 DEF Carries
    <3>2. Knows(a)
      BY <1>1, <3>1 DEF CarriersKnow
    <3>3. RowIsAccounted(x)'
      BY <1>1, <2>1, <3>1 DEF RowIsAccounted
    <3>4. /\ \A b \in Actors \ {a} : actor'[b] = actor[b]
          /\ Carries(a)' => actor'[a].e = actor[a].e /\ actor[a].pc \in {"count", "check"}
                            /\ actor'[a].pc \in {"check", "fail"}
      <4>1. CASE LetGo(a)
        BY <1>5, <4>1
      <4>2. CASE ~LetGo(a)
        <5>1. PICK l \in {"check", "fail"} : ActorGoto(a, l) /\ actor[a].pc \in {"count", "check"}
          BY <1>17, <4>2 DEF QueryFails, AfterError
        <5> QED BY <1>6, <5>1
      <4> QED BY <4>1, <4>2
    <3>5. Carries(a)' => Knows(a)'
      BY <1>1, <2>1, <3>2, <3>4 DEF Knows, ActorAt
    <3> QED BY <1>1, <1>8, <2>1, <3>1, <3>3, <3>4, <3>5
  <2> QED BY <2>2, <2>3
<1>18. ASSUME NEW e \in Emails, QueueEmail(e) \/ RecordDelivery(e) \/ RecordBounce(e) PROVE Kept
  BY <1>1, <1>18, RowSteps DEF Kept
<1>19. ASSUME StopWorkers PROVE Kept
  <2>1. /\ UNCHANGED <<mail, actor, handed, unclear>>
        /\ emailFaults' >= emailFaults /\ emailFaults' > 0
    BY <1>1, <1>19 DEF StopWorkers, Fault, History
  <2>2. \A a \in Actors : actor'[a] = actor[a]
    BY <2>1
  <2> QED BY <1>1, <2>1, <2>2, QuietActors DEF Kept
<1>20. ASSUME StartWorkers \/ CrashWorkers PROVE Kept
  <2>1. /\ UNCHANGED <<mail, handed, unclear>> /\ emailFaults' > 0 /\ emailRunning'
        /\ actor' = [a \in Actors |-> Free]
    BY <1>1, <1>20 DEF StartWorkers, CrashWorkers, Fault, History, EmailInv, StopsAreFaults
  <2>2. \A a \in Actors : ~Carries(a)'
    BY <2>1 DEF Carries, Free
  <2>3. ASSUME NEW e \in Emails PROVE RowIsAccounted(e)'
    BY <1>1, <2>1 DEF RowIsAccounted
  <2>4. OneCarrier' /\ CarriersKnow' /\ StopsAreFaults'
    BY <2>1, <2>2 DEF OneCarrier, CarriersKnow, StopsAreFaults
  <2> QED BY <2>3, <2>4 DEF Kept
<1>21. Kept
  <2>1. ASSUME NEW w \in Mailers, Worker(w) PROVE Kept
    BY <1>1, <1>9, <1>10, <1>11, <1>12, <1>13, <1>14, <1>15, <2>1 DEF Worker
  <2>2. ASSUME NEW s \in Senders, ProviderSend(s) \/ MarkSent(s) \/ MarkFailed(s) PROVE Kept
    BY <1>1, <1>11, <1>12, <1>15, <2>2
  <2> QED BY <1>16, <1>17, <1>18, <1>19, <1>20, <2>1, <2>2 DEF EmailNext
<1> QED BY <1>1, <1>21 DEF EmailInv, Kept

\* At first no email is queued.
LEMMA EmailStarts == EmailInit => EmailInv
<1> SUFFICES ASSUME EmailInit PROVE EmailInv
  OBVIOUS
<1>1. EmailTypeOK
  BY EmailBoundsAssumption, NoEmailAssumption, FS_CardinalityType
  DEF EmailInit, EmailTypeOK, EmailRow, Actor, Free
<1>2. OneCarrier /\ CarriersKnow /\ StopsAreFaults
  BY DEF EmailInit, OneCarrier, CarriersKnow, StopsAreFaults, Carries, Free
<1>3. ASSUME NEW e \in Emails PROVE RowIsAccounted(e)
  BY DEF EmailInit, RowIsAccounted
<1> QED BY <1>1, <1>2, <1>3 DEF EmailInv

\* EmailInv is inductive.
LEMMA EmailInvSteps ==
    EmailInv /\ [EmailNext]_emailVars => EmailInv'
<1>1. ASSUME EmailInv, UNCHANGED emailVars PROVE EmailInv'
  BY <1>1
  DEF EmailInv, EmailTypeOK, OneCarrier, CarriersKnow, Knows, RowIsAccounted, StopsAreFaults,
      Carries, ActorAt, emailVars
<1> QED BY <1>1, EmailsAreKept

\* EmailsAccounted: no email is handed to the provider twice, and its row says what the
\* provider saw: service/email_worker.go processEmail.
THEOREM EmailsAlwaysAccounted == EmailSpec => []EmailsAccounted
<1>1. EmailInv => EmailsAccounted
  BY DEF EmailInv, RowIsAccounted, EmailsAccounted, SentOnce, StatusIsHonest
<1> QED BY <1>1, EmailStarts, EmailInvSteps, PTL DEF EmailSpec

-----------------------------------------------------------------------------
(* Media and their conversions *)

\* As many positions of t as of s hold a job of c, if those of t are those of s, all
\* moved by d.
LEMMA JobsMoved ==
    ASSUME NEW S \in SUBSET Nat, NEW d \in Nat, IsFiniteSet(S)
    PROVE  LET T == {i + d : i \in S}
           IN  IsFiniteSet(T) /\ Cardinality(T) = Cardinality(S)
<1> DEFINE T == {i + d : i \in S}
           f == [i \in S |-> i + d]
<1>1. f \in Bijection(S, T)
  BY DEF Bijection, Injection, Surjection, IsInjective
<1> HIDE DEF T, f
<1> QED BY <1>1, FS_Bijection DEF T, ExistsBijection

\* No job is in an empty sequence; ...
LEMMA JobsOfNone == \A c : JobsIn(<<>>, c) = 0
<1>1. ASSUME NEW c PROVE JobsIn(<<>>, c) = 0
  <2>1. {i \in DOMAIN <<>> : <<>>[i].c = c} = {}
    OBVIOUS
  <2> QED BY <2>1, FS_EmptySet DEF JobsIn
<1> QED BY <1>1

\* ... a job is put before or after others, ...
LEMMA JobsOfLonger ==
    ASSUME NEW s \in Seq(ConversionJob), NEW e \in ConversionJob, NEW c
    PROVE  /\ JobsIn(s, c) \in Nat
           /\ JobsIn(<<e>> \o s, c) = JobsIn(s, c) + IF e.c = c THEN 1 ELSE 0
           /\ JobsIn(Append(s, e), c) = JobsIn(s, c) + IF e.c = c THEN 1 ELSE 0
<1> DEFINE At1(t) == {i \in DOMAIN t : t[i].c = c}
           M == {i + 1 : i \in At1(s)}
           p == <<e>> \o s
           a == Append(s, e)
           n == Len(s) + 1
<1>1. Len(s) \in Nat /\ DOMAIN s = 1..Len(s)
  OBVIOUS
<1>2. IsFiniteSet(At1(s)) /\ At1(s) \in SUBSET Nat
  <2>1. IsFiniteSet(1..Len(s))
    BY <1>1, FS_Interval
  <2>2. At1(s) \in SUBSET (1..Len(s)) /\ At1(s) \in SUBSET Nat
    BY <1>1
  <2> HIDE DEF At1
  <2> QED BY <2>1, <2>2, FS_Subset
<1>3. Cardinality(At1(s)) \in Nat /\ IsFiniteSet(M) /\ Cardinality(M) = Cardinality(At1(s))
  BY <1>2, JobsMoved, FS_CardinalityType
<1>4. /\ DOMAIN p = 1..n /\ p[1] = e
      /\ \A i \in DOMAIN s : p[i + 1] = s[i]
  BY <1>1
<1>5. At1(p) = IF e.c = c THEN M \cup {1} ELSE M
  BY <1>1, <1>4
<1>6. 1 \notin M
  BY <1>1
<1>7. /\ DOMAIN a = 1..n /\ a[n] = e
      /\ \A i \in DOMAIN s : a[i] = s[i]
  BY <1>1
<1>8. At1(a) = IF e.c = c THEN At1(s) \cup {n} ELSE At1(s)
  BY <1>1, <1>7
<1>9. n \notin At1(s)
  BY <1>1
<1> HIDE DEF At1, M, p, a, n
<1>10. Cardinality(At1(p)) = Cardinality(At1(s)) + IF e.c = c THEN 1 ELSE 0
  <2>1. Cardinality(M \cup {1}) = Cardinality(M) + 1
    BY <1>3, <1>6, FS_AddElement
  <2> QED BY <1>3, <1>5, <2>1
<1>11. Cardinality(At1(a)) = Cardinality(At1(s)) + IF e.c = c THEN 1 ELSE 0
  <2>1. Cardinality(At1(s) \cup {n}) = Cardinality(At1(s)) + 1
    BY <1>2, <1>9, FS_AddElement
  <2> QED BY <1>3, <1>8, <2>1
<1> QED BY <1>2, <1>3, <1>10, <1>11 DEF JobsIn, At1, p, a

\* ... or the first is taken off.
LEMMA JobsOfTails ==
    ASSUME NEW s \in Seq(ConversionJob), s # <<>>, NEW c
    PROVE  /\ Head(s) \in ConversionJob /\ Tail(s) \in Seq(ConversionJob)
           /\ s = <<Head(s)>> \o Tail(s)
           /\ JobsIn(s, c) = JobsIn(Tail(s), c) + IF Head(s).c = c THEN 1 ELSE 0
<1>1. /\ Head(s) \in ConversionJob /\ Tail(s) \in Seq(ConversionJob)
      /\ s = <<Head(s)>> \o Tail(s)
  OBVIOUS
<1>2. JobsIn(<<Head(s)>> \o Tail(s), c)
        = JobsIn(Tail(s), c) + IF Head(s).c = c THEN 1 ELSE 0
  BY <1>1, JobsOfLonger
<1> QED BY <1>1, <1>2

\* A sequence of one job.
LEMMA JobsOfOne ==
    ASSUME NEW e \in ConversionJob, NEW c
    PROVE  JobsIn(<<e>>, c) = IF e.c = c THEN 1 ELSE 0
<1>1. <<>> \in Seq(ConversionJob) /\ Append(<<>>, e) = <<e>>
  OBVIOUS
<1>2. JobsIn(Append(<<>>, e), c) = JobsIn(<<>>, c) + IF e.c = c THEN 1 ELSE 0
  BY <1>1, JobsOfLonger, JobsOfNone
<1> QED BY <1>1, <1>2, JobsOfLonger, JobsOfNone

\* The steps of an upload.
Upload == {"store", "create", "cleanup"}

\* A request that stores a medium is the only one about it, and its row is not
\* there; ...
UploadsAlone ==
    \A r \in Slots :
        /\ req[r].pc \in Upload =>
            /\ medium[req[r].m].st = "none"
            /\ \A s \in Others(r) : ~At(s, "idle") => req[s].m # req[r].m
        /\ req[r].pc \in {"orphan", "delete"} => medium[req[r].m].st # "none"
        /\ At(r, "create") => Exists(req[r].m)

\* ... a row has its file, as has a conversion that is recorded or about to be, and a
\* file has a row or a request that is about to insert it.
FilesAreOwned ==
    /\ \A m \in Media :
        /\ medium[m].st # "none" => Exists(m)
        /\ faults = 0 /\ Exists(m) /\ medium[m].st = "none"
            => \E r \in Slots : At(r, "create") /\ req[r].m = m
    /\ \A c \in converted : Exists(c)
    /\ \A g \in handling : g.pc = "record" => Exists(g.job.c)

\* A conversion has one job until it is made or given up.
JobIsAccounted(c) ==
    /\ JobsOf(c) + Cardinality(converted \cap {c}) <= 1
    /\ medium[c[1]].st = "none" =>
        JobsOf(c) = 0 /\ c \notin converted /\ \A g \in handling : g.job.c # c
    /\ faults = 0 /\ medium[c[1]].st # "none" => JobsOf(c) = 1 \/ c \in converted \/ c \in gaveUp

\* A lock has an owner, and one that is about to be released is of a conversion nobody is
\* about to lock.
LocksAreOwned(c) ==
    faults = 0 =>
        /\ c \in locks => \/ \E g \in handling : g.job.c = c
                          \/ \E i \in DOMAIN convCh : convCh[i].c = c
        /\ \A g \in handling : g.job.c = c /\ g.pc = "release" =>
            /\ c \notin spawned
            /\ JobsIn(convQueue, c) = 0 /\ JobsIn(polled, c) = 0 /\ JobsIn(convCh, c) = 0

ConversionsInv ==
    /\ ConversionsTypeOK
    /\ IsFiniteSet(handling) /\ IsFiniteSet(later)
    /\ faults = 0 => running
    /\ UploadsAlone
    /\ FilesAreOwned
    /\ \A c \in Conversion : JobIsAccounted(c) /\ LocksAreOwned(c)

\* The requests keep their types.
LEMMA UploadRequestTypes ==
    ASSUME ConversionsTypeOK, NEW r \in Slots,
           \/ \E m \in Media, large \in BOOLEAN : HandleUpload(r, m, large)
           \/ \E m \in Media : HandleDelete(r, m)
           \/ StoreUpload(r) \/ CreateMedia(r) \/ CreateMediaFails(r) \/ CleanUpFile(r)
           \/ MarkOrphaned(r) \/ SoftDeleteMedia(r) \/ Abort(r)
    PROVE  /\ RequestsAre(UploadRequest)'
           /\ ~At(r, "idle") => req[r].m \in Media /\ req[r].large \in BOOLEAN
           /\ \A s \in Others(r) : req'[s] = req[s]
           /\ faults' \in Nat /\ faults' >= faults
<1>1. /\ req \in [Slots -> UploadRequest \cup {Idle}]
      /\ begun \in 0..MaxRequests /\ faults \in 0..MaxFaults
      /\ \A s \in Slots : req[s].pc # "idle" => req[s] \in UploadRequest
  BY DEF ConversionsTypeOK, RequestsAre, Idle, UploadRequest
<1>2. \A m \in Media, l \in BOOLEAN :
        /\ [pc |-> "store", m |-> m, large |-> l] \in UploadRequest
        /\ [pc |-> "orphan", m |-> m, large |-> l] \in UploadRequest
  BY DEF UploadRequest
<1>3. ASSUME NEW q \in UploadRequest
      PROVE  /\ [q EXCEPT !.pc = "create"] \in UploadRequest
             /\ [q EXCEPT !.pc = "cleanup"] \in UploadRequest
             /\ [q EXCEPT !.pc = "delete"] \in UploadRequest
             /\ q.m \in Media /\ q.large \in BOOLEAN
  BY DEF UploadRequest
<1>4. ASSUME NEW q \in UploadRequest \cup {Idle}, Begin(r, q) \/ Become(r, q) \/ Stumble(r, q)
      PROVE  /\ RequestsAre(UploadRequest)'
             /\ \A s \in Others(r) : req'[s] = req[s]
             /\ faults' \in Nat /\ faults' >= faults
  BY <1>1, <1>4, RequestBoundsAssumption
  DEF Begin, Become, Stumble, RequestsAre, Others
<1>5. ~At(r, "idle") => req[r] \in UploadRequest /\ req[r].m \in Media /\ req[r].large \in BOOLEAN
  BY <1>1, <1>3 DEF At
<1>6. \A m \in Media : medium[m].large \in BOOLEAN
  BY DEF ConversionsTypeOK
<1>7. CASE \/ \E m \in Media, large \in BOOLEAN : HandleUpload(r, m, large)
           \/ \E m \in Media : HandleDelete(r, m)
  BY <1>2, <1>4, <1>5, <1>6, <1>7 DEF HandleUpload, HandleDelete
<1>8. CASE \/ StoreUpload(r) \/ CreateMedia(r) \/ CreateMediaFails(r) \/ CleanUpFile(r)
           \/ MarkOrphaned(r) \/ SoftDeleteMedia(r)
  <2>1. ~At(r, "idle")
    BY <1>8
    DEF StoreUpload, CreateMedia, CreateMediaFails, CleanUpFile, MarkOrphaned, SoftDeleteMedia, At
  <2>2. \E q \in UploadRequest \cup {Idle} : Become(r, q) \/ Stumble(r, q)
    BY <1>3, <1>5, <1>8, <2>1
    DEF StoreUpload, CreateMedia, CreateMediaFails, CleanUpFile, MarkOrphaned, SoftDeleteMedia,
        Goto, Finish
  <2> QED BY <1>4, <1>5, <2>1, <2>2
<1>9. CASE Abort(r)
  BY <1>4, <1>5, <1>9 DEF Abort
<1> QED BY <1>7, <1>8, <1>9

\* What a goroutine may become, and what it may leave behind.
LEMMA HandlingsAreTyped ==
    /\ \A g \in Handling :
        /\ g.job \in ConversionJob /\ g.job.c \in Conversion /\ g.pc \in Steps
        /\ \A l \in Steps : /\ [g EXCEPT !.pc = l] \in Handling
                            /\ [g EXCEPT !.pc = l].job = g.job /\ [g EXCEPT !.pc = l].pc = l
        /\ g.job.attempt + 1 < MaxAttempts =>
            /\ [g.job EXCEPT !.attempt = g.job.attempt + 1] \in ConversionJob
            /\ [g.job EXCEPT !.attempt = g.job.attempt + 1].c = g.job.c
    /\ \A cj \in ConversionJob, w \in Converters \cup {"sync"} :
        Work(cj, w) \in Handling /\ Work(cj, w).job = cj /\ Work(cj, w).pc = "find"
    /\ \A c \in Conversion : First(c) \in ConversionJob /\ First(c).c = c
<1>1. \A cj \in ConversionJob : cj.c \in Conversion /\ cj.attempt \in 0..MaxAttempts
  BY DEF ConversionJob
<1>2. MaxAttempts \in Nat /\ MaxAttempts # 0
  BY ConversionsAssumption
<1>3. ASSUME NEW cj \in ConversionJob, cj.attempt + 1 < MaxAttempts
      PROVE  /\ [cj EXCEPT !.attempt = cj.attempt + 1] \in ConversionJob
             /\ [cj EXCEPT !.attempt = cj.attempt + 1].c = cj.c
  BY <1>1, <1>2, <1>3 DEF ConversionJob
<1>4. \A g \in Handling : g.job \in ConversionJob /\ g.pc \in Steps
  BY DEF Handling
<1>5. ASSUME NEW g \in Handling, NEW l \in Steps
      PROVE  /\ [g EXCEPT !.pc = l] \in Handling
             /\ [g EXCEPT !.pc = l].job = g.job /\ [g EXCEPT !.pc = l].pc = l
  BY DEF Handling
<1>6. \A cj \in ConversionJob, w \in Converters \cup {"sync"} :
        Work(cj, w) \in Handling /\ Work(cj, w).job = cj /\ Work(cj, w).pc = "find"
  BY DEF Work, Handling, Steps
<1>7. \A c \in Conversion : First(c) \in ConversionJob /\ First(c).c = c
  BY <1>2 DEF First, ConversionJob
<1> QED BY <1>1, <1>3, <1>4, <1>5, <1>6, <1>7

\* What a goroutine does next keeps the types of what is in the process's memory.
LEMMA GoroutineTypes ==
    ASSUME ConversionsTypeOK, IsFiniteSet(handling), IsFiniteSet(later), NEW g \in handling,
           \/ (\E l \in Steps : Move(g, l)) /\ UNCHANGED <<later, gaveUp>>
           \/ HandleError(g)
    PROVE  /\ handling' \subseteq Handling /\ IsFiniteSet(handling')
           /\ later' \subseteq ConversionJob /\ IsFiniteSet(later')
           /\ gaveUp' \subseteq Conversion
<1>1. /\ g \in Handling /\ handling \subseteq Handling /\ later \subseteq ConversionJob
      /\ gaveUp \subseteq Conversion
  BY DEF ConversionsTypeOK
<1>2. /\ g.job \in ConversionJob /\ g.job.c \in Conversion
      /\ \A l \in Steps : [g EXCEPT !.pc = l] \in Handling
      /\ g.job.attempt + 1 < MaxAttempts =>
            [g.job EXCEPT !.attempt = g.job.attempt + 1] \in ConversionJob
  BY <1>1, HandlingsAreTyped
<1>3. ASSUME NEW l \in Steps, Move(g, l)
      PROVE  handling' \subseteq Handling /\ IsFiniteSet(handling')
  <2>1. handling' = (handling \ {g}) \cup {[g EXCEPT !.pc = l]}
    BY <1>3 DEF Move
  <2>2. IsFiniteSet(handling \ {g})
    BY FS_RemoveElement
  <2>3. IsFiniteSet((handling \ {g}) \cup {[g EXCEPT !.pc = l]})
    BY <2>2, FS_AddElement
  <2> QED BY <1>1, <1>2, <2>1, <2>3
<1>4. CASE (\E l \in Steps : Move(g, l)) /\ UNCHANGED <<later, gaveUp>>
  BY <1>1, <1>3, <1>4
<1>5. CASE HandleError(g)
  <2>1. handling' \subseteq Handling /\ IsFiniteSet(handling')
    <3>1. Move(g, "release") /\ "release" \in Steps
      BY <1>5 DEF HandleError, Steps
    <3> QED BY <3>1, <1>3
  <2>2. CASE g.job.attempt + 1 < MaxAttempts
    <3> DEFINE cj == [g.job EXCEPT !.attempt = g.job.attempt + 1]
    <3>1. later' = later \cup {cj} /\ gaveUp' = gaveUp
      BY <1>5, <2>2 DEF HandleError
    <3>2. IsFiniteSet(later \cup {cj})
      BY FS_AddElement
    <3> QED BY <1>1, <1>2, <2>1, <2>2, <3>1, <3>2
  <2>3. CASE ~(g.job.attempt + 1 < MaxAttempts)
    <3>1. later' = later /\ gaveUp' = gaveUp \cup {g.job.c}
      BY <1>5, <2>3 DEF HandleError
    <3> QED BY <1>1, <1>2, <2>1, <3>1
  <2> QED BY <2>2, <2>3
<1> QED BY <1>4, <1>5

\* The tables, the storage, Redis and the process keep their types, and what is in memory
\* is finite.
LEMMA ConversionTypes ==
    ASSUME ConversionsTypeOK, IsFiniteSet(handling), IsFiniteSet(later), ConversionsNext
    PROVE  ConversionsTypeOK' /\ IsFiniteSet(handling') /\ IsFiniteSet(later')
<1> DEFINE Kept == ConversionsTypeOK' /\ IsFiniteSet(handling') /\ IsFiniteSet(later')
<1>1. /\ medium \in [Media -> [st : {"none", "live", "deleted"}, large : BOOLEAN]]
      /\ files \subseteq Media \cup Conversion
      /\ converted \subseteq Conversion /\ spawned \subseteq Conversion
      /\ convQueue \in Seq(ConversionJob) /\ convCh \in Seq(ConversionJob)
      /\ polled \in Seq(ConversionJob) /\ Len(polled) <= 1
      /\ locks \subseteq Conversion /\ handling \subseteq Handling
      /\ later \subseteq ConversionJob
      /\ running \in BOOLEAN /\ gaveUp \subseteq Conversion
      /\ RequestsAre(UploadRequest)
      /\ begun \in 0..MaxRequests /\ faults \in 0..MaxFaults
  BY DEF ConversionsTypeOK, RequestsAre
<1>2. /\ UNCHANGED requestVars => RequestsAre(UploadRequest)'
      /\ ConversionFault => RequestsAre(UploadRequest)'
  <2>1. UNCHANGED requestVars => RequestsAre(UploadRequest)'
    BY <1>1 DEF requestVars, RequestsAre
  <2>2. ConversionFault => RequestsAre(UploadRequest)'
    BY <1>1, RequestBoundsAssumption DEF ConversionFault, RequestsAre
  <2> QED BY <2>1, <2>2
<1>3. ASSUME NEW r \in Slots,
             \/ \E m \in Media, large \in BOOLEAN : HandleUpload(r, m, large)
             \/ \E m \in Media : HandleDelete(r, m)
             \/ CreateMediaFails(r) \/ MarkOrphaned(r)
             \/ Abort(r) /\ UNCHANGED conversionVars
      PROVE  Kept
  <2>1. RequestsAre(UploadRequest)'
    BY <1>3, UploadRequestTypes
  <2>2. UNCHANGED conversionVars
    BY <1>3 DEF HandleUpload, HandleDelete, CreateMediaFails, MarkOrphaned
  <2> QED BY <1>1, <2>1, <2>2 DEF conversionVars, ConversionsTypeOK
<1>4. ASSUME NEW r \in Slots,
             StoreUpload(r) \/ CreateMedia(r) \/ CleanUpFile(r) \/ SoftDeleteMedia(r)
      PROVE  Kept
  <2>1. /\ RequestsAre(UploadRequest)'
        /\ ~At(r, "idle") => req[r].m \in Media /\ req[r].large \in BOOLEAN
    BY <1>4, UploadRequestTypes
  <2>2. req[r].m \in Media /\ req[r].large \in BOOLEAN
    BY <1>4, <2>1 DEF StoreUpload, CreateMedia, CleanUpFile, SoftDeleteMedia, At
  <2>3. {req[r].m} \X ConversionNames \subseteq Conversion
    BY <2>2 DEF Conversion
  <2>4. [st |-> "live", large |-> req[r].large]
            \in [st : {"none", "live", "deleted"}, large : BOOLEAN]
    BY <2>2
  <2>5. [medium[req[r].m] EXCEPT !.st = "deleted"]
            \in [st : {"none", "live", "deleted"}, large : BOOLEAN]
    BY <1>1, <2>2
  <2>6. UNCHANGED <<converted, convQueue, locks, polled, convCh, handling, later, running, gaveUp>>
    BY <1>4 DEF StoreUpload, CreateMedia, CleanUpFile, SoftDeleteMedia, mediaRows
  <2>7. files' \subseteq Media \cup Conversion
    BY <1>1, <1>4, <2>2
    DEF StoreUpload, CreateMedia, CleanUpFile, SoftDeleteMedia, Store, Delete
  <2>8. spawned' \subseteq Conversion
    BY <1>1, <1>4, <2>3 DEF StoreUpload, CreateMedia, CleanUpFile, SoftDeleteMedia
  <2>9. medium' \in [Media -> [st : {"none", "live", "deleted"}, large : BOOLEAN]]
    BY <1>1, <1>4, <2>4, <2>5
    DEF StoreUpload, CreateMedia, CleanUpFile, SoftDeleteMedia, mediaRows
  <2> QED BY <1>1, <2>1, <2>6, <2>7, <2>8, <2>9 DEF ConversionsTypeOK
<1>5. ASSUME NEW c \in spawned, EnqueueSync(c) PROVE Kept
  <2>1. First(c) \in ConversionJob /\ Work(First(c), "sync") \in Handling
    BY <1>1, HandlingsAreTyped
  <2>2. /\ locks' \subseteq Conversion
        /\ handling' \subseteq Handling /\ IsFiniteSet(handling')
    BY <1>1, <1>5, <2>1, FS_AddElement DEF EnqueueSync, AcquireLock
  <2> QED BY <1>1, <1>2, <1>5, <2>2 DEF EnqueueSync, mediaRows, ConversionsTypeOK
<1>6. ASSUME NEW c \in spawned, EnqueueAsync(c) PROVE Kept
  <2>1. First(c) \in ConversionJob
    BY <1>1, HandlingsAreTyped
  <2>2. <<First(c)>> \o convQueue \in Seq(ConversionJob)
    BY <1>1, <2>1
  <2> QED BY <1>1, <1>2, <1>6, <2>2 DEF EnqueueAsync, mediaRows, ConversionsTypeOK
<1>7. ASSUME NEW c \in spawned, EnqueueFails(c) PROVE Kept
  BY <1>1, <1>2, <1>7 DEF EnqueueFails, mediaRows, ConversionsTypeOK
<1>8. ASSUME PollQueue PROVE Kept
  <2>1. Head(convQueue) \in ConversionJob /\ Tail(convQueue) \in Seq(ConversionJob)
    BY <1>1, <1>8 DEF PollQueue
  <2>2. <<Head(convQueue)>> \in Seq(ConversionJob) /\ Len(<<Head(convQueue)>>) <= 1
    BY <2>1
  <2> QED BY <1>1, <1>2, <1>8, <2>1, <2>2 DEF PollQueue, mediaRows, ConversionsTypeOK
<1>9. ASSUME PollLock PROVE Kept
  <2>1. polled[1] \in ConversionJob /\ convCh \o polled \in Seq(ConversionJob)
    BY <1>1, <1>9 DEF PollLock
  <2>2. polled[1].c \in Conversion
    BY <2>1 DEF ConversionJob
  <2>3. locks' \subseteq Conversion /\ convCh' \in Seq(ConversionJob)
    BY <1>1, <1>9, <2>1, <2>2 DEF PollLock, AcquireLock
  <2>4. polled' \in Seq(ConversionJob) /\ Len(polled') <= 1
    BY <1>9 DEF PollLock
  <2> QED BY <1>1, <1>2, <1>9, <2>3, <2>4 DEF PollLock, mediaRows, ConversionsTypeOK
<1>10. ASSUME NEW w \in Converters, ProcessLoop(w) PROVE Kept
  <2>1. Head(convCh) \in ConversionJob /\ Tail(convCh) \in Seq(ConversionJob)
    BY <1>1, <1>10 DEF ProcessLoop
  <2>2. Work(Head(convCh), w) \in Handling
    BY <2>1, HandlingsAreTyped
  <2>3. handling' \subseteq Handling /\ IsFiniteSet(handling')
    BY <1>1, <1>10, <2>2, FS_AddElement DEF ProcessLoop
  <2> QED BY <1>1, <1>2, <1>10, <2>1, <2>3 DEF ProcessLoop, mediaRows, ConversionsTypeOK
<1>11. ASSUME NEW g \in handling,
              FindMedia(g) \/ Convert(g) \/ RecordConversion(g) \/ HandleFails(g)
       PROVE  Kept
  <2>1. g.job.c \in Conversion
    BY <1>1, HandlingsAreTyped
  <2>2. \/ (\E l \in Steps : Move(g, l)) /\ UNCHANGED <<later, gaveUp>>
        \/ HandleError(g)
    BY <1>11 DEF FindMedia, Convert, RecordConversion, HandleFails, Steps
  <2>3. /\ handling' \subseteq Handling /\ IsFiniteSet(handling')
        /\ later' \subseteq ConversionJob /\ IsFiniteSet(later')
        /\ gaveUp' \subseteq Conversion
    BY <2>2, GoroutineTypes
  <2>4. converted' \subseteq Conversion /\ files' \subseteq Media \cup Conversion
    BY <1>1, <1>11, <2>1
    DEF FindMedia, Convert, RecordConversion, HandleFails, Handle, Store, mediaRows
  <2>5. /\ UNCHANGED <<medium, spawned, convQueue, locks, polled, convCh, running>>
        /\ UNCHANGED requestVars \/ ConversionFault
    BY <1>11 DEF FindMedia, Convert, RecordConversion, HandleFails, mediaRows
  <2> QED BY <1>1, <1>2, <2>3, <2>4, <2>5 DEF ConversionsTypeOK
<1>12. ASSUME NEW g \in handling, ReleaseLock(g) PROVE Kept
  <2>1. IsFiniteSet(handling \ {g})
    BY FS_RemoveElement
  <2> QED BY <1>1, <1>2, <1>12, <2>1 DEF ReleaseLock, mediaRows, ConversionsTypeOK
<1>13. ASSUME NEW cj \in later, EnqueueToRedis(cj) PROVE Kept
  <2>1. IsFiniteSet(later \ {cj}) /\ <<cj>> \o convQueue \in Seq(ConversionJob)
    BY <1>1, FS_RemoveElement
  <2> QED BY <1>1, <1>2, <1>13, <2>1 DEF EnqueueToRedis, mediaRows, ConversionsTypeOK
<1>14. ASSUME NEW c \in locks, LockExpires(c) PROVE Kept
  BY <1>1, <1>2, <1>14 DEF LockExpires, mediaRows, ConversionsTypeOK
<1>15. ASSUME ConverterStop PROVE Kept
  <2>1. PICK kept \in SUBSET later : later' = kept
    BY <1>15 DEF ConverterStop
  <2>2. IsFiniteSet(later') /\ later' \subseteq ConversionJob
    BY <1>1, <2>1, FS_Subset
  <2> QED BY <1>1, <1>2, <1>15, <2>2 DEF ConverterStop, mediaRows, ConversionsTypeOK
<1>16. ASSUME StartAgain \/ ConverterCrash PROVE Kept
  <2>1. RequestsAre(UploadRequest)'
    BY <1>1, <1>16, RequestBoundsAssumption DEF StartAgain, ConverterCrash, ConverterRestart, RequestsAre
  <2>2. /\ running' = TRUE
        /\ spawned' = {} /\ polled' = <<>> /\ convCh' = <<>> /\ handling' = {} /\ later' = {}
        /\ UNCHANGED <<medium, converted, files, convQueue, locks, gaveUp>>
    BY <1>16 DEF StartAgain, ConverterCrash, ConverterRestart, mediaRows
  <2>3. <<>> \in Seq(ConversionJob) /\ Len(<<>>) <= 1
    OBVIOUS
  <2> QED BY <1>1, <2>1, <2>2, <2>3, FS_EmptySet DEF ConversionsTypeOK
<1> QED
  BY <1>3, <1>4, <1>5, <1>6, <1>7, <1>8, <1>9, <1>10, <1>11, <1>12, <1>13, <1>14, <1>15, <1>16
  DEF ConversionsNext, ConversionStep

\* The statements of requests, as far as rows and files are concerned: what becomes of the
\* request's own medium.
UploadStep(r) ==
    /\ \A s \in Others(r) : req'[s] = req[s]
    /\ UNCHANGED <<converted, handling, running>>
    /\ \/ /\ At(r, "idle") /\ UNCHANGED <<medium, files>>
          /\ \/ /\ req'[r].pc = "store" /\ req'[r].m \in Media
                /\ medium[req'[r].m].st = "none" /\ ~Exists(req'[r].m)
                /\ \A s \in Others(r) : ~At(s, "idle") => req[s].m # req'[r].m
             \/ /\ req'[r].pc = "orphan" /\ req'[r].m \in Media
                /\ medium[req'[r].m].st # "none"
       \/ /\ At(r, "store") /\ req'[r].pc = "create" /\ req'[r].m = req[r].m
          /\ files' = files \cup {req[r].m} /\ UNCHANGED medium
       \/ /\ At(r, "create") /\ req'[r].pc = "cleanup" /\ req'[r].m = req[r].m
          /\ UNCHANGED <<medium, files>> /\ faults' > 0
       \/ /\ At(r, "create") /\ req'[r] = Idle /\ UNCHANGED files
          /\ \A m \in Media \ {req[r].m} : medium'[m] = medium[m]
          /\ medium'[req[r].m].st = "live"
       \/ /\ At(r, "cleanup") /\ req'[r] = Idle /\ UNCHANGED medium
          /\ files' = files \ {req[r].m}
       \/ /\ At(r, "orphan") /\ req'[r].pc = "delete" /\ req'[r].m = req[r].m
          /\ UNCHANGED <<medium, files>>
       \/ /\ At(r, "delete") /\ req'[r] = Idle /\ UNCHANGED files
          /\ \A m \in Media \ {req[r].m} : medium'[m] = medium[m]
          /\ medium'[req[r].m].st = "deleted"
       \/ /\ ~At(r, "idle") /\ req'[r] = Idle /\ UNCHANGED <<medium, files>> /\ faults' > 0

\* Every statement of a request is one of these.
LEMMA UploadSteps ==
    ASSUME ConversionsTypeOK, NEW r \in Slots,
           \/ \E m \in Media, large \in BOOLEAN : HandleUpload(r, m, large)
           \/ \E m \in Media : HandleDelete(r, m)
           \/ StoreUpload(r) \/ CreateMedia(r) \/ CreateMediaFails(r) \/ CleanUpFile(r)
           \/ MarkOrphaned(r) \/ SoftDeleteMedia(r)
           \/ Abort(r) /\ UNCHANGED conversionVars
    PROVE  UploadStep(r)
<1>1. /\ req \in [Slots -> UploadRequest \cup {Idle}] /\ faults \in 0..MaxFaults
      /\ \A s \in Slots : req[s].pc # "idle" => req[s] \in UploadRequest
      /\ medium \in [Media -> [st : {"none", "live", "deleted"}, large : BOOLEAN]]
  BY DEF ConversionsTypeOK, RequestsAre, Idle, UploadRequest
<1>2. /\ ~At(r, "idle") => req[r].m \in Media /\ req[r].large \in BOOLEAN
      /\ \A s \in Others(r) : req'[s] = req[s]
      /\ faults' \in Nat /\ faults' >= faults
  BY UploadRequestTypes
<1>3. \A q \in UploadRequest, l \in {"create", "cleanup", "delete"} :
        [q EXCEPT !.pc = l].pc = l /\ [q EXCEPT !.pc = l].m = q.m
  BY DEF UploadRequest
<1>4. ASSUME NEW m \in Media, NEW large \in BOOLEAN, HandleUpload(r, m, large)
      PROVE  UploadStep(r)
  <2>1. /\ medium[m].st = "none" /\ ~Exists(m) /\ At(r, "idle")
        /\ UNCHANGED <<medium, files, converted, handling, running>>
        /\ req'[r].pc = "store" /\ req'[r].m = m
    BY <1>1, <1>4 DEF HandleUpload, Begin, conversionVars
  <2>2. \A s \in Others(r) : ~At(s, "idle") => req[s].m # m
    BY <1>4 DEF HandleUpload, Others
  <2> QED BY <1>2, <2>1, <2>2 DEF UploadStep
<1>5. ASSUME NEW m \in Media, HandleDelete(r, m) PROVE UploadStep(r)
  <2>1. /\ medium[m].st # "none" /\ At(r, "idle")
        /\ UNCHANGED <<medium, files, converted, handling, running>>
        /\ req'[r].pc = "orphan" /\ req'[r].m = m
    BY <1>1, <1>5 DEF HandleDelete, Begin, conversionVars
  <2> QED BY <1>2, <2>1 DEF UploadStep
<1>6. CASE StoreUpload(r) \/ CreateMediaFails(r) \/ CleanUpFile(r) \/ MarkOrphaned(r)
  <2>1. req[r] \in UploadRequest
    BY <1>1, <1>6 DEF StoreUpload, CreateMediaFails, CleanUpFile, MarkOrphaned, At
  <2>2. UNCHANGED <<medium, converted, handling, running>>
    BY <1>6 DEF StoreUpload, CreateMediaFails, CleanUpFile, MarkOrphaned, mediaRows,
                conversionVars
  <2>3. CASE StoreUpload(r)
    <3>1. /\ At(r, "store") /\ req'[r] = [req[r] EXCEPT !.pc = "create"]
          /\ files' = files \cup {req[r].m}
      BY <1>1, <2>3 DEF StoreUpload, Goto, Become, Store
    <3> QED BY <1>2, <1>3, <2>1, <2>2, <3>1 DEF UploadStep
  <2>4. CASE CreateMediaFails(r)
    <3>1. /\ At(r, "create") /\ req'[r] = [req[r] EXCEPT !.pc = "cleanup"]
          /\ files' = files /\ faults' > 0
      BY <1>1, <2>4 DEF CreateMediaFails, Stumble, conversionVars
    <3> QED BY <1>2, <1>3, <2>1, <2>2, <3>1 DEF UploadStep
  <2>5. CASE CleanUpFile(r)
    <3>1. At(r, "cleanup") /\ req'[r] = Idle /\ files' = files \ {req[r].m}
      BY <1>1, <2>5 DEF CleanUpFile, Finish, Become, Delete
    <3> QED BY <1>2, <2>2, <3>1 DEF UploadStep
  <2>6. CASE MarkOrphaned(r)
    <3>1. /\ At(r, "orphan") /\ req'[r] = [req[r] EXCEPT !.pc = "delete"]
          /\ files' = files
      BY <1>1, <2>6 DEF MarkOrphaned, Goto, Become, conversionVars
    <3> QED BY <1>2, <1>3, <2>1, <2>2, <3>1 DEF UploadStep
  <2> QED BY <1>6, <2>3, <2>4, <2>5, <2>6
<1>7. CASE CreateMedia(r) \/ SoftDeleteMedia(r)
  <2>1. UNCHANGED <<files, converted, handling, running>> /\ req'[r] = Idle /\ req[r].m \in Media
    BY <1>1, <1>2, <1>7 DEF CreateMedia, SoftDeleteMedia, Finish, Become, At
  <2>2. \A m \in Media \ {req[r].m} : medium'[m] = medium[m]
    BY <1>1, <1>7 DEF CreateMedia, SoftDeleteMedia
  <2>3. /\ CreateMedia(r) => medium'[req[r].m].st = "live"
        /\ SoftDeleteMedia(r) => medium'[req[r].m].st = "deleted"
    BY <1>1, <2>1 DEF CreateMedia, SoftDeleteMedia
  <2> QED BY <1>2, <1>7, <2>1, <2>2, <2>3 DEF CreateMedia, SoftDeleteMedia, UploadStep
<1>8. CASE Abort(r) /\ UNCHANGED conversionVars
  BY <1>1, <1>2, <1>8 DEF Abort, Stumble, UploadStep, conversionVars
<1> QED BY <1>4, <1>5, <1>6, <1>7, <1>8

\* A request about a medium of its own keeps uploads apart, and files owned.
LEMMA UploadsKeepFiles ==
    ASSUME ConversionsTypeOK, UploadsAlone, FilesAreOwned, NEW r \in Slots, UploadStep(r),
           faults \in Nat, faults' \in Nat, faults' >= faults
    PROVE  UploadsAlone' /\ FilesAreOwned'
<1>1. /\ \A s \in Slots : ~At(s, "idle") => req[s].m \in Media
      /\ converted \subseteq Conversion /\ handling \subseteq Handling
      /\ \A g \in handling : g.job.c \in Conversion
  <2>1. \A s \in Slots : ~At(s, "idle") => req[s].m \in Media
    BY DEF ConversionsTypeOK, RequestsAre, Idle, UploadRequest, At
  <2>2. converted \subseteq Conversion /\ handling \subseteq Handling
    BY DEF ConversionsTypeOK
  <2> QED BY <2>1, <2>2, HandlingsAreTyped
<1>2. \A m \in Media : m \notin Conversion
  BY ConversionsAssumption DEF Conversion
<1>3. UploadsAlone'
  <2>1. ASSUME NEW s \in Others(r)
        PROVE  /\ req'[s].pc \in Upload =>
                    /\ medium'[req'[s].m].st = "none"
                    /\ \A t \in Others(s) : ~At(t, "idle")' => req'[t].m # req'[s].m
               /\ req'[s].pc \in {"orphan", "delete"} => medium'[req'[s].m].st # "none"
               /\ At(s, "create")' => req'[s].m \in files'
    <3>1. req'[s] = req[s] /\ s \in Slots /\ s # r
      BY <2>1 DEF UploadStep, Others
    <3>2. req[s].pc \in Upload \cup {"orphan", "delete"} => req[s].m \in Media /\ ~At(s, "idle")
      BY <1>1, <3>1 DEF Upload, At
    <3>3. ASSUME req[s].pc \in Upload
          PROVE  /\ medium'[req[s].m].st = "none"
                 /\ \A t \in Others(s) : ~At(t, "idle")' => req'[t].m # req[s].m
                 /\ At(s, "create") => req[s].m \in files'
      <4>1. /\ medium[req[s].m].st = "none"
            /\ \A t \in Others(s) : ~At(t, "idle") => req[t].m # req[s].m
            /\ At(s, "create") => req[s].m \in files
        BY <3>1, <3>3 DEF UploadsAlone, Exists
      <4>2. r \in Others(s) /\ s \in Others(r)
        BY <3>1 DEF Others
      <4>3. \A t \in Others(s) : t # r => req'[t] = req[t]
        BY <3>1 DEF UploadStep, Others
      <4>4. ~At(r, "idle")' => req'[r].m # req[s].m
        BY <3>2, <3>3, <4>1, <4>2 DEF UploadStep, At, Idle, Upload
      <4>5. medium'[req[s].m] = medium[req[s].m]
        BY <3>2, <3>3, <4>1, <4>2 DEF UploadStep, At
      <4>6. At(s, "create") => req[s].m \in files'
        BY <4>1, <4>2 DEF UploadStep, At
      <4> QED BY <4>1, <4>3, <4>4, <4>5, <4>6 DEF At
    <3>4. ASSUME req[s].pc \in {"orphan", "delete"} PROVE medium'[req[s].m].st # "none"
      <4>1. medium[req[s].m].st # "none"
        BY <3>1, <3>4 DEF UploadsAlone
      <4> QED BY <3>2, <3>4, <4>1 DEF UploadStep
    <3> QED BY <3>1, <3>3, <3>4 DEF At, Exists, Upload
  <2>2. req'[r].pc \in Upload =>
            /\ medium'[req'[r].m].st = "none"
            /\ \A t \in Others(r) : ~At(t, "idle")' => req'[t].m # req'[r].m
    <3>1. \A t \in Others(r) : req'[t] = req[t]
      BY DEF UploadStep
    <3>2. req[r].pc \in Upload =>
            /\ medium[req[r].m].st = "none"
            /\ \A t \in Others(r) : ~At(t, "idle") => req[t].m # req[r].m
      BY DEF UploadsAlone
    <3>3. req'[r].pc \in Upload => medium'[req'[r].m].st = "none"
      BY <3>2 DEF UploadStep, At, Idle, Upload
    <3>4. req'[r].pc \in Upload => \A t \in Others(r) : ~At(t, "idle") => req[t].m # req'[r].m
      BY <3>2 DEF UploadStep, At, Idle, Upload
    <3> QED BY <3>1, <3>3, <3>4 DEF At
  <2>3. req'[r].pc \in {"orphan", "delete"} => medium'[req'[r].m].st # "none"
    BY DEF UploadStep, UploadsAlone, At, Idle
  <2>4. At(r, "create")' => req'[r].m \in files'
    BY DEF UploadStep, At, Idle
  <2>5. \A s \in Slots : s = r \/ s \in Others(r)
    BY DEF Others
  <2> QED BY <2>1, <2>2, <2>3, <2>4, <2>5 DEF UploadsAlone, Exists
<1>4. ASSUME NEW m \in Media
      PROVE  /\ medium'[m].st # "none" => m \in files'
             /\ faults' = 0 /\ m \in files' /\ medium'[m].st = "none"
                    => \E s \in Slots : At(s, "create")' /\ req'[s].m = m
  <2>1. /\ medium[m].st # "none" => m \in files
        /\ faults = 0 /\ m \in files /\ medium[m].st = "none"
                    => \E s \in Slots : At(s, "create") /\ req[s].m = m
    BY DEF FilesAreOwned, Exists
  <2>2. ~At(r, "idle") => req[r].m \in Media
    BY <1>1
  <2>3. /\ req[r].pc \in Upload => medium[req[r].m].st = "none"
        /\ req[r].pc = "create" => req[r].m \in files
        /\ req[r].pc = "delete" => medium[req[r].m].st # "none"
    BY DEF UploadsAlone, Upload, Exists, At
  <2>4. medium'[m].st # "none" => m \in files'
    BY <2>1, <2>2, <2>3 DEF UploadStep, At, Upload
  <2>5. ASSUME faults' = 0, m \in files', medium'[m].st = "none"
        PROVE  \E s \in Slots : At(s, "create")' /\ req'[s].m = m
    <3>1. CASE m \in files /\ medium[m].st = "none"
      <4>1. PICK s \in Slots : At(s, "create") /\ req[s].m = m
        BY <2>1, <2>5, <3>1
      <4>2. CASE s # r
        BY <4>1, <4>2 DEF UploadStep, Others, At
      <4>3. CASE s = r
        <5>1. At(r, "create") /\ req[r].m = m
          BY <4>1, <4>3
        <5> QED BY <2>5, <5>1 DEF UploadStep, At
      <4> QED BY <4>2, <4>3
    <3>2. CASE ~(m \in files /\ medium[m].st = "none")
      BY <2>1, <2>2, <2>5, <3>2 DEF UploadStep, At
    <3> QED BY <3>1, <3>2
  <2> QED BY <2>4, <2>5
<1>5. \A c \in Conversion : c \in files => c \in files'
  <2>1. ~At(r, "idle") => req[r].m \notin Conversion
    BY <1>1, <1>2
  <2> QED BY <2>1 DEF UploadStep, At
<1>6. UNCHANGED <<converted, handling>>
  BY DEF UploadStep
<1> QED BY <1>1, <1>3, <1>4, <1>5, <1>6 DEF FilesAreOwned, Exists

\* What the workers, time and crashes do to rows and files, ...
WorkStep ==
    /\ UNCHANGED medium
    /\ req' = req \/ (req' = [r \in Slots |-> Idle] /\ faults' > 0)
    /\ files \subseteq files' /\ files' \subseteq files \cup Conversion
    /\ \A c \in converted' : c \in converted \/ c \in files
    /\ \A g \in handling' : g.pc = "record" => g \in handling \/ g.job.c \in files'

\* ... leaves each file its owner.
LEMMA WorkersKeepFiles ==
    ASSUME ConversionsTypeOK, UploadsAlone, FilesAreOwned, WorkStep,
           faults \in Nat, faults' \in Nat, faults' >= faults
    PROVE  UploadsAlone' /\ FilesAreOwned'
<1> USE DEF WorkStep
<1>1. \A m \in Media : m \in files' <=> m \in files
  BY ConversionsAssumption DEF Conversion
<1>2. \A s \in Slots : ~At(s, "idle") => req[s].m \in Media
  BY DEF ConversionsTypeOK, RequestsAre, Idle, UploadRequest, At
<1>3. UploadsAlone'
  <2>1. CASE req' = req
    BY <2>1 DEF UploadsAlone, At, Exists, Others
  <2>2. CASE req' = [r \in Slots |-> Idle]
    BY <2>2 DEF UploadsAlone, At, Idle, Upload
  <2> QED BY <2>1, <2>2
<1>4. ASSUME NEW m \in Media
      PROVE  /\ medium'[m].st # "none" => m \in files'
             /\ faults' = 0 /\ m \in files' /\ medium'[m].st = "none"
                    => \E s \in Slots : At(s, "create")' /\ req'[s].m = m
  <2>1. faults' = 0 => faults = 0 /\ req' = req
    OBVIOUS
  <2> QED BY <1>1, <2>1 DEF FilesAreOwned, Exists, At
<1>5. \A c \in converted' : c \in files'
  BY DEF FilesAreOwned, Exists
<1>6. \A g \in handling' : g.pc = "record" => g.job.c \in files'
  BY DEF FilesAreOwned, Exists
<1> QED BY <1>3, <1>4, <1>5, <1>6 DEF FilesAreOwned, Exists

\* A conversion is in a set or it is not; and a job in a sequence counts.
LEMMA JobsCount ==
    /\ \A S, x : Cardinality(S \cap {x}) = IF x \in S THEN 1 ELSE 0
    /\ \A s \in Seq(ConversionJob) : \A i \in DOMAIN s : JobsIn(s, s[i].c) >= 1
<1>1. ASSUME NEW S, NEW x PROVE Cardinality(S \cap {x}) = IF x \in S THEN 1 ELSE 0
  <2>1. CASE x \in S
    <3>1. S \cap {x} = {x}
      BY <2>1
    <3> QED BY <2>1, <3>1, FS_Singleton
  <2>2. CASE x \notin S
    <3>1. S \cap {x} = {}
      BY <2>2
    <3> QED BY <2>2, <3>1, FS_EmptySet
  <2> QED BY <2>1, <2>2
<1>2. ASSUME NEW s \in Seq(ConversionJob), NEW i \in DOMAIN s PROVE JobsIn(s, s[i].c) >= 1
  <2> DEFINE S == {k \in DOMAIN s : s[k].c = s[i].c}
  <2>1. IsFiniteSet(DOMAIN s)
    <3>1. DOMAIN s = 1..Len(s) /\ Len(s) \in Nat
      OBVIOUS
    <3> QED BY <3>1, FS_Interval
  <2>2. S \in SUBSET DOMAIN s /\ i \in S
    OBVIOUS
  <2>3. JobsIn(s, s[i].c) = Cardinality(S)
    BY DEF JobsIn
  <2> HIDE DEF S
  <2>4. IsFiniteSet(S)
    BY <2>1, <2>2, FS_Subset
  <2> QED BY <2>2, <2>3, <2>4, SmallSets
<1> QED BY <1>1, <1>2

\* The jobs of c that goroutines of H are about, and those of L.
Making(H, c) == {g \in H : g.job.c = c /\ g.pc # "release"}
Delayed(L, c) == {j \in L : j.c = c}

\* The numbers that make up the jobs of a conversion.
LEMMA JobNumbers ==
    ASSUME NEW que \in Seq(ConversionJob), NEW pol \in Seq(ConversionJob),
           NEW chan \in Seq(ConversionJob), NEW H, NEW L, IsFiniteSet(H), IsFiniteSet(L), NEW c
    PROVE  /\ JobsIn(que, c) \in Nat /\ JobsIn(pol, c) \in Nat /\ JobsIn(chan, c) \in Nat
           /\ IsFiniteSet(Making(H, c)) /\ Cardinality(Making(H, c)) \in Nat
           /\ IsFiniteSet(Delayed(L, c)) /\ Cardinality(Delayed(L, c)) \in Nat
<1>1. \A s \in Seq(ConversionJob) : JobsIn(s, c) \in Nat
  <2>1. ASSUME NEW s \in Seq(ConversionJob) PROVE JobsIn(s, c) \in Nat
    <3>1. IsFiniteSet(DOMAIN s)
      <4>1. DOMAIN s = 1..Len(s) /\ Len(s) \in Nat
        OBVIOUS
      <4> QED BY <4>1, FS_Interval
    <3>2. {i \in DOMAIN s : s[i].c = c} \in SUBSET DOMAIN s
      OBVIOUS
    <3> QED BY <3>1, <3>2, FS_Subset, FS_CardinalityType DEF JobsIn
  <2> QED BY <2>1
<1>2. Making(H, c) \in SUBSET H /\ Delayed(L, c) \in SUBSET L
  BY DEF Making, Delayed
<1>3. /\ IsFiniteSet(Making(H, c)) /\ Cardinality(Making(H, c)) \in Nat
      /\ IsFiniteSet(Delayed(L, c)) /\ Cardinality(Delayed(L, c)) \in Nat
  BY <1>2, FS_Subset, FS_CardinalityType
<1> QED BY <1>1, <1>3

\* The jobs of c are the sum of these numbers, ...
Started(S, c) == IF c \in S THEN 1 ELSE 0
JobSum(c) ==
    /\ Started(spawned, c) \in Nat
    /\ JobsOf(c) = Started(spawned, c)
                + JobsIn(convQueue, c) + JobsIn(polled, c) + JobsIn(convCh, c)
                + Cardinality(Making(handling, c)) + Cardinality(Delayed(later, c))
    /\ JobsIn(convQueue, c) \in Nat /\ JobsIn(polled, c) \in Nat /\ JobsIn(convCh, c) \in Nat
    /\ IsFiniteSet(Making(handling, c)) /\ Cardinality(Making(handling, c)) \in Nat
    /\ IsFiniteSet(Delayed(later, c)) /\ Cardinality(Delayed(later, c)) \in Nat
    /\ JobsOf(c) \in Nat

\* ... before a step ...
LEMMA JobSums ==
    ASSUME ConversionsTypeOK, IsFiniteSet(handling), IsFiniteSet(later), NEW c
    PROVE  JobSum(c)
<1>1. /\ JobsIn(convQueue, c) \in Nat /\ JobsIn(polled, c) \in Nat /\ JobsIn(convCh, c) \in Nat
      /\ IsFiniteSet(Making(handling, c)) /\ Cardinality(Making(handling, c)) \in Nat
      /\ IsFiniteSet(Delayed(later, c)) /\ Cardinality(Delayed(later, c)) \in Nat
  BY JobNumbers DEF ConversionsTypeOK
<1>2. JobsOf(c) = Started(spawned, c)
                + JobsIn(convQueue, c) + JobsIn(polled, c) + JobsIn(convCh, c)
                + Cardinality(Making(handling, c)) + Cardinality(Delayed(later, c))
  BY JobsCount DEF JobsOf, MadeBy, Making, Delayed, Started
<1> QED BY <1>1, <1>2 DEF JobSum, Started

\* ... whose invariant says what they amount to, ...
LEMMA JobsBefore ==
    ASSUME ConversionsInv, NEW c \in Conversion
    PROVE  /\ JobIsAccounted(c) /\ LocksAreOwned(c)
           /\ JobSum(c) /\ JobsOf(c) \in Nat /\ JobsOf(c) <= 1
<1>1. JobIsAccounted(c) /\ LocksAreOwned(c) /\ JobSum(c)
  BY JobSums DEF ConversionsInv
<1>2. JobsOf(c) \in Nat
  BY <1>1 DEF JobSum
<1>3. JobsOf(c) <= 1
  <2>1. Cardinality(converted \cap {c}) = 0 \/ Cardinality(converted \cap {c}) = 1
    BY JobsCount
  <2>2. JobsOf(c) + Cardinality(converted \cap {c}) <= 1
    BY <1>1 DEF JobIsAccounted
  <2> QED BY <1>2, <2>1, <2>2
<1> QED BY <1>1, <1>2, <1>3

\* ... and after it.
LEMMA JobsNow ==
    ASSUME ConversionsInv, ConversionsTypeOK', IsFiniteSet(handling'), IsFiniteSet(later'),
           NEW c \in Conversion
    PROVE  /\ JobIsAccounted(c) /\ LocksAreOwned(c)
           /\ JobSum(c) /\ JobsOf(c) \in Nat /\ JobsOf(c) <= 1
           /\ JobSum(c)' /\ JobsOf(c)' \in Nat
<1>1. /\ JobsIn(convQueue', c) \in Nat /\ JobsIn(polled', c) \in Nat /\ JobsIn(convCh', c) \in Nat
      /\ IsFiniteSet(Making(handling', c)) /\ Cardinality(Making(handling', c)) \in Nat
      /\ IsFiniteSet(Delayed(later', c)) /\ Cardinality(Delayed(later', c)) \in Nat
  BY JobNumbers DEF ConversionsTypeOK
<1>2. JobsOf(c)' = Started(spawned', c)
                + JobsIn(convQueue', c) + JobsIn(polled', c) + JobsIn(convCh', c)
                + Cardinality(Making(handling', c)) + Cardinality(Delayed(later', c))
  BY JobsCount DEF JobsOf, MadeBy, Making, Delayed, Started
<1>3. JobsOf(c)' \in Nat
  BY <1>1, <1>2 DEF Started
<1>4. JobSum(c)'
  BY <1>1, <1>2, <1>3 DEF JobSum, Started
<1> QED BY <1>3, <1>4, JobsBefore

\* What a step may do to the accounts of c when the medium keeps its row.
LEMMA AccountsAreKept ==
    ASSUME NEW c \in Conversion, JobIsAccounted(c), JobsOf(c) \in Nat, JobsOf(c)' \in Nat,
           medium'[c[1]].st = "none" <=> medium[c[1]].st = "none",
           converted \subseteq converted', gaveUp \subseteq gaveUp',
           c \in converted' => c \in converted \/ JobsOf(c)' < JobsOf(c),
           JobsOf(c)' <= JobsOf(c),
           faults' = 0 => faults = 0,
           faults' = 0 => JobsOf(c)' = JobsOf(c) \/ c \in converted' \/ c \in gaveUp',
           \A g \in handling' : g.job.c = c => JobsOf(c) >= 1 \/ \E h \in handling : h.job.c = c
    PROVE  JobIsAccounted(c)'
<1>1. /\ Cardinality(converted \cap {c}) = IF c \in converted THEN 1 ELSE 0
      /\ Cardinality(converted' \cap {c}) = IF c \in converted' THEN 1 ELSE 0
  BY JobsCount
<1>2. (JobsOf(c) + Cardinality(converted \cap {c}) <= 1)'
  BY <1>1 DEF JobIsAccounted
<1>3. (medium[c[1]].st = "none" =>
        JobsOf(c) = 0 /\ c \notin converted /\ \A g \in handling : g.job.c # c)'
  BY DEF JobIsAccounted
<1>4. (faults = 0 /\ medium[c[1]].st # "none" => JobsOf(c) = 1 \/ c \in converted \/ c \in gaveUp)'
  BY DEF JobIsAccounted
<1> QED BY <1>2, <1>3, <1>4 DEF JobIsAccounted

\* The accounts and the locks of a conversion after a step.
JobStaysAccounted == \A c \in Conversion : JobIsAccounted(c)' /\ LocksAreOwned(c)'

\* Nothing changes for the jobs, but there may be a fault; a row that comes or goes
\* is not one of CreateMedia.
LEMMA JobsStay ==
    ASSUME ConversionsInv,
           UNCHANGED <<converted, spawned, convQueue, locks, polled, convCh, handling, later, gaveUp>>,
           \A m \in Media : medium'[m].st = "none" <=> medium[m].st = "none",
           faults' = 0 => faults = 0
    PROVE  JobStaysAccounted
<1> SUFFICES ASSUME NEW c \in Conversion PROVE JobIsAccounted(c)' /\ LocksAreOwned(c)'
  BY DEF JobStaysAccounted
<1>1. JobIsAccounted(c) /\ LocksAreOwned(c) /\ c[1] \in Media
  BY DEF ConversionsInv, Conversion
<1>2. JobsOf(c)' = JobsOf(c)
  BY DEF JobsOf, MadeBy
<1>3. JobIsAccounted(c)'
  BY <1>1, <1>2 DEF JobIsAccounted
<1>4. LocksAreOwned(c)'
  BY <1>1 DEF LocksAreOwned
<1> QED BY <1>3, <1>4

\* A medium that is inserted has no job yet, and then one of each conversion.
LEMMA JobsBegin ==
    ASSUME ConversionsInv, ConversionsTypeOK', IsFiniteSet(handling'), IsFiniteSet(later'),
           NEW r \in Slots, CreateMedia(r)
    PROVE  JobStaysAccounted
<1> SUFFICES ASSUME NEW c \in Conversion PROVE JobIsAccounted(c)' /\ LocksAreOwned(c)'
  BY DEF JobStaysAccounted
<1>0. /\ JobIsAccounted(c) /\ LocksAreOwned(c)
      /\ JobSum(c) /\ JobsOf(c) \in Nat /\ JobsOf(c) <= 1
      /\ JobSum(c)' /\ JobsOf(c)' \in Nat
  BY JobsNow
<1> DEFINE m == req[r].m
<1>1. /\ ConversionsTypeOK /\ IsFiniteSet(handling) /\ IsFiniteSet(later)
      /\ c[1] \in Media /\ c[2] \in ConversionNames /\ c = <<c[1], c[2]>>
  BY DEF ConversionsInv, Conversion
<1>2. m \in Media /\ medium[m].st = "none"
  <2>1. At(r, "create")
    BY DEF CreateMedia
  <2>2. medium[m].st = "none"
    BY <2>1 DEF ConversionsInv, UploadsAlone, Upload, At
  <2> QED BY <1>1, <2>1, <2>2, UploadRequestTypes DEF At
<1>3. /\ UNCHANGED <<converted, convQueue, locks, polled, convCh, handling, later, gaveUp>>
      /\ spawned' = spawned \cup {m} \X ConversionNames
      /\ faults' = faults
      /\ medium' = [medium EXCEPT ![m] = [st |-> "live", large |-> req[r].large]]
      /\ medium \in [Media -> [st : {"none", "live", "deleted"}, large : BOOLEAN]]
  BY <1>1 DEF CreateMedia, Finish, Become, ConversionsTypeOK
<1>4. CASE c[1] = m
  <2>1. JobsOf(c) = 0 /\ c \notin converted /\ \A g \in handling : g.job.c # c
    BY <1>0, <1>1, <1>2, <1>4 DEF JobIsAccounted
  <2>2. c \in spawned' /\ medium'[c[1]].st # "none"
    BY <1>1, <1>2, <1>3, <1>4
  <2>3. JobsOf(c)' = 1
    BY <1>0, <1>1, <1>3, <2>1, <2>2 DEF JobSum, Started
  <2>4. Cardinality(converted' \cap {c}) = 0
    BY <1>3, <2>1, JobsCount
  <2>5. JobIsAccounted(c)'
    BY <1>0, <2>2, <2>3, <2>4 DEF JobIsAccounted
  <2>6. LocksAreOwned(c)'
    BY <1>0, <1>1, <1>3, <2>1 DEF LocksAreOwned
  <2> QED BY <2>5, <2>6
<1>5. CASE c[1] # m
  <2>1. (c \in spawned' <=> c \in spawned) /\ medium'[c[1]] = medium[c[1]]
    BY <1>1, <1>3, <1>5
  <2>2. JobsOf(c)' = JobsOf(c)
    BY <1>0, <1>1, <1>3, <2>1 DEF JobSum, Started
  <2>3. JobIsAccounted(c)'
    BY <1>0, <1>1, <1>3, <2>1, <2>2 DEF JobIsAccounted
  <2>4. LocksAreOwned(c)'
    BY <1>0, <1>1, <1>3, <2>1 DEF LocksAreOwned
  <2> QED BY <2>3, <2>4
<1> QED BY <1>4, <1>5

\* A lock without a fault is held by somebody who has the job in hand: who is about to
\* lock it would be the second.
LEMMA HolderHasTheJob ==
    ASSUME ConversionsInv, NEW c \in Conversion, faults = 0, c \in locks
    PROVE  c \notin spawned /\ JobsIn(convQueue, c) = 0 /\ JobsIn(polled, c) = 0
<1>1. /\ JobIsAccounted(c) /\ LocksAreOwned(c)
      /\ JobSum(c) /\ JobsOf(c) \in Nat /\ JobsOf(c) <= 1
  BY JobsBefore
<1>2. convCh \in Seq(ConversionJob)
  BY DEF ConversionsInv, ConversionsTypeOK
<1>3. CASE \E g \in handling : g.job.c = c /\ g.pc = "release"
  BY <1>1, <1>3 DEF LocksAreOwned
<1>4. CASE \E g \in handling : g.job.c = c /\ g.pc # "release"
  <2>1. PICK g \in handling : g \in Making(handling, c)
    BY <1>4 DEF Making
  <2>2. Cardinality(Making(handling, c)) >= 1
    BY <1>1, <2>1, SmallSets DEF JobSum, Started
  <2> QED BY <1>1, <2>2 DEF JobSum, Started
<1>5. CASE \E i \in DOMAIN convCh : convCh[i].c = c
  <2>1. JobsIn(convCh, c) >= 1
    BY <1>2, <1>5, JobsCount
  <2> QED BY <1>1, <2>1 DEF JobSum, Started
<1> QED BY <1>1, <1>3, <1>4, <1>5 DEF LocksAreOwned

\* A job is started by the goroutine of the upload, ...
LEMMA SyncJobsMove ==
    ASSUME ConversionsInv, ConversionsTypeOK', IsFiniteSet(handling'), IsFiniteSet(later'),
           NEW x \in spawned, EnqueueSync(x)
    PROVE  JobStaysAccounted
<1> SUFFICES ASSUME NEW c \in Conversion PROVE JobIsAccounted(c)' /\ LocksAreOwned(c)'
  BY DEF JobStaysAccounted
<1>0. /\ JobIsAccounted(c) /\ LocksAreOwned(c)
      /\ JobSum(c) /\ JobsOf(c) \in Nat /\ JobsOf(c) <= 1
      /\ JobSum(c)' /\ JobsOf(c)' \in Nat
  BY JobsNow
<1> DEFINE w == Work(First(x), "sync")
<1>1. /\ ConversionsTypeOK /\ IsFiniteSet(handling) /\ IsFiniteSet(later) /\ x \in Conversion
  BY DEF ConversionsInv, ConversionsTypeOK
<1>2. /\ UNCHANGED <<medium, converted, convQueue, polled, convCh, later, gaveUp, faults>>
      /\ spawned' = spawned \ {x}
  BY DEF EnqueueSync, mediaRows, requestVars
<1>3. w.job.c = x /\ w.pc = "find"
  BY <1>1, HandlingsAreTyped
<1>4. c = x => JobsOf(c) >= 1
  <2>1. c = x => Started(spawned, c) = 1
    BY DEF Started
  <2> QED BY <1>0, <2>1 DEF JobSum
<1>5. CASE x \notin locks
  <2>1. handling' = handling \cup {w} /\ locks' = locks \cup {x}
    BY <1>5 DEF EnqueueSync, AcquireLock
  <2> HIDE DEF w
  <2>2. JobsOf(c)' = JobsOf(c)
    <3>1. CASE c = x
      <4>1. Cardinality(Making(handling, c)) = 0
        BY <1>0, <1>1, <1>4, <3>1 DEF JobSum, Started
      <4>2. Making(handling, c) = {}
        BY <1>0, <1>1, <4>1, SmallSets DEF JobSum, Started
      <4>3. Making(handling', c) = {w}
        BY <1>3, <2>1, <3>1, <4>2 DEF Making
      <4>4. Cardinality(Making(handling', c)) = 1
        BY <4>3, FS_Singleton
      <4> QED BY <1>0, <1>1, <1>2, <3>1, <4>1, <4>4 DEF JobSum, Started
    <3>2. CASE c # x
      <4>1. Making(handling', c) = Making(handling, c)
        BY <1>3, <2>1, <3>2 DEF Making
      <4> QED BY <1>0, <1>1, <1>2, <3>2, <4>1 DEF JobSum, Started
    <3> QED BY <3>1, <3>2
  <2>3. \A g \in handling' : g.job.c = c => JobsOf(c) >= 1 \/ \E h \in handling : h.job.c = c
    BY <1>3, <1>4, <2>1
  <2>4. JobIsAccounted(c)'
    BY <1>0, <1>1, <1>2, <2>2, <2>3, AccountsAreKept
  <2>5. LocksAreOwned(c)'
    BY <1>0, <1>1, <1>2, <1>3, <2>1 DEF LocksAreOwned
  <2> QED BY <2>4, <2>5
<1>6. CASE x \in locks
  <2>1. UNCHANGED <<handling, locks>>
    BY <1>6 DEF EnqueueSync, AcquireLock
  <2>2. faults # 0
    BY <1>1, <1>6, HolderHasTheJob
  <2>3. JobsOf(c)' <= JobsOf(c) /\ JobsOf(c) \in Nat /\ JobsOf(c)' \in Nat
    <3>1. c \in spawned' => c \in spawned
      BY <1>2
    <3> QED BY <1>0, <1>1, <1>2, <2>1, <3>1 DEF JobSum, Started
  <2>4. JobIsAccounted(c)'
    BY <1>0, <1>1, <1>2, <2>1, <2>2, <2>3, AccountsAreKept
  <2>5. LocksAreOwned(c)'
    BY <1>0, <1>2, <2>2 DEF LocksAreOwned
  <2> QED BY <2>4, <2>5
<1> QED BY <1>5, <1>6

\* ... or pushed, at first or again, ...
LEMMA PushedJobsMove ==
    ASSUME ConversionsInv, ConversionsTypeOK', IsFiniteSet(handling'), IsFiniteSet(later'),
           \/ \E x \in spawned : EnqueueAsync(x)
           \/ \E cj \in later : EnqueueToRedis(cj)
    PROVE  JobStaysAccounted
<1> SUFFICES ASSUME NEW c \in Conversion PROVE JobIsAccounted(c)' /\ LocksAreOwned(c)'
  BY DEF JobStaysAccounted
<1>0. /\ JobIsAccounted(c) /\ LocksAreOwned(c)
      /\ JobSum(c) /\ JobsOf(c) \in Nat /\ JobsOf(c) <= 1
      /\ JobSum(c)' /\ JobsOf(c)' \in Nat
  BY JobsNow
<1>1. /\ ConversionsTypeOK /\ IsFiniteSet(handling) /\ IsFiniteSet(later)
      /\ convQueue \in Seq(ConversionJob)
      /\ later \subseteq ConversionJob /\ spawned \subseteq Conversion
      /\ faults \in Nat
  BY RequestBoundsAssumption DEF ConversionsInv, ConversionsTypeOK, RequestsAre
<1>2. JobsOf(c) <= 1
  <2>1. Cardinality(converted \cap {c}) \in Nat
    BY JobsCount
  <2> QED BY <1>0, <1>1, <2>1 DEF JobIsAccounted, JobSum
<1>3. CASE \E x \in spawned : EnqueueAsync(x)
  <2>1. PICK x \in spawned : EnqueueAsync(x)
    BY <1>3
  <2>2. /\ UNCHANGED <<medium, converted, polled, convCh, later, gaveUp, faults, handling, locks>>
        /\ spawned' = spawned \ {x} /\ convQueue' = <<First(x)>> \o convQueue
    BY <2>1 DEF EnqueueAsync, mediaRows, requestVars
  <2>3. First(x) \in ConversionJob /\ First(x).c = x
    BY <1>1, HandlingsAreTyped
  <2>4. JobsIn(convQueue', c) = JobsIn(convQueue, c) + IF x = c THEN 1 ELSE 0
    BY <1>1, <2>2, <2>3, JobsOfLonger
  <2>5. JobsOf(c)' = JobsOf(c)
    BY <1>0, <1>1, <2>2, <2>4 DEF JobSum, Started
  <2>6. JobIsAccounted(c)'
    BY <1>0, <1>1, <2>2, <2>5, AccountsAreKept
  <2>7. c \in spawned \/ JobsIn(convQueue', c) = JobsIn(convQueue, c)
    BY <1>0, <1>1, <2>4 DEF JobSum
  <2>8. LocksAreOwned(c)'
    <3>1. faults = 0 /\ c \in locks => \/ \E g \in handling : g.job.c = c
                                       \/ \E i \in DOMAIN convCh : convCh[i].c = c
      BY <1>0 DEF LocksAreOwned
    <3>2. ASSUME faults = 0, NEW g \in handling, g.job.c = c, g.pc = "release"
          PROVE  /\ c \notin spawned'
                 /\ JobsIn(convQueue', c) = 0 /\ JobsIn(polled, c) = 0 /\ JobsIn(convCh, c) = 0
      <4>1. /\ c \notin spawned
            /\ JobsIn(convQueue, c) = 0 /\ JobsIn(polled, c) = 0 /\ JobsIn(convCh, c) = 0
        BY <1>0, <3>2 DEF LocksAreOwned
      <4> QED BY <2>2, <2>7, <4>1
    <3> QED BY <2>2, <3>1, <3>2 DEF LocksAreOwned
  <2> QED BY <2>6, <2>8
<1>4. CASE \E cj \in later : EnqueueToRedis(cj)
  <2>1. PICK cj \in later : EnqueueToRedis(cj)
    BY <1>4
  <2>2. /\ UNCHANGED <<medium, converted, polled, convCh, spawned, gaveUp, handling, locks>>
        /\ later' = later \ {cj} /\ convQueue' = <<cj>> \o convQueue
        /\ \/ faults' = faults /\ \A g \in handling : g.job.c # cj.c
           \/ faults' = faults + 1
    BY <2>1 DEF EnqueueToRedis, mediaRows, requestVars, ConversionFault
  <2>3. JobsIn(convQueue', c) = JobsIn(convQueue, c) + IF cj.c = c THEN 1 ELSE 0
    BY <1>1, <2>2, JobsOfLonger
  <2>4. Cardinality(Delayed(later', c))
          = Cardinality(Delayed(later, c)) - IF cj.c = c THEN 1 ELSE 0
    <3>1. Delayed(later', c) = Delayed(later, c) \ {cj}
      BY <2>2 DEF Delayed
    <3>2. cj \in Delayed(later, c) <=> cj.c = c
      BY DEF Delayed
    <3>3. IsFiniteSet(Delayed(later, c)) /\ Cardinality(Delayed(later, c)) \in Nat
      BY <1>0 DEF JobSum
    <3>4. Cardinality(Delayed(later, c) \ {cj})
            = IF cj \in Delayed(later, c) THEN Cardinality(Delayed(later, c)) - 1
                                           ELSE Cardinality(Delayed(later, c))
      BY <3>3, FS_RemoveElement
    <3>5. CASE cj.c = c
      BY <3>1, <3>2, <3>4, <3>5
    <3>6. CASE cj.c # c
      BY <3>1, <3>2, <3>3, <3>4, <3>6
    <3> QED BY <3>5, <3>6
  <2>5. JobsOf(c)' = JobsOf(c)
    <3>1. CASE cj.c = c
      <4>1. /\ JobsIn(convQueue', c) = JobsIn(convQueue, c) + 1
            /\ Cardinality(Delayed(later', c)) = Cardinality(Delayed(later, c)) - 1
        BY <2>3, <2>4, <3>1
      <4>2. UNCHANGED <<polled, convCh, spawned, handling>>
        BY <2>2
      <4> QED BY <1>0, <4>1, <4>2 DEF JobSum
    <3>2. CASE cj.c # c
      BY <1>0, <1>1, <2>2, <2>3, <2>4, <3>2 DEF JobSum
    <3> QED BY <3>1, <3>2
  <2>6. JobIsAccounted(c)'
    BY <1>0, <1>1, <2>2, <2>5, AccountsAreKept
  <2>7. LocksAreOwned(c)'
    <3>1. cj.c # c => JobsIn(convQueue', c) = JobsIn(convQueue, c)
      BY <1>0, <1>1, <2>3 DEF JobSum
    <3> QED BY <1>0, <1>1, <2>2, <3>1 DEF LocksAreOwned
  <2> QED BY <2>6, <2>7
<1> QED BY <1>3, <1>4

\* ... polled, ...
LEMMA PolledJobsMove ==
    ASSUME ConversionsInv, ConversionsTypeOK', IsFiniteSet(handling'), IsFiniteSet(later'),
           PollQueue
    PROVE  JobStaysAccounted
<1> SUFFICES ASSUME NEW c \in Conversion PROVE JobIsAccounted(c)' /\ LocksAreOwned(c)'
  BY DEF JobStaysAccounted
<1>0. /\ JobIsAccounted(c) /\ LocksAreOwned(c)
      /\ JobSum(c) /\ JobsOf(c) \in Nat /\ JobsOf(c) <= 1
      /\ JobSum(c)' /\ JobsOf(c)' \in Nat
  BY JobsNow
<1>1. /\ ConversionsTypeOK /\ IsFiniteSet(handling) /\ IsFiniteSet(later)
      /\ convQueue \in Seq(ConversionJob)
  BY DEF ConversionsInv, ConversionsTypeOK
<1>2. /\ UNCHANGED <<medium, converted, spawned, convCh, later, gaveUp, faults, handling, locks>>
      /\ polled = <<>> /\ convQueue # <<>>
      /\ polled' = <<Head(convQueue)>> /\ convQueue' = Tail(convQueue)
  BY DEF PollQueue, mediaRows, requestVars
<1>3. /\ JobsIn(convQueue, c) = JobsIn(convQueue', c) + IF Head(convQueue).c = c THEN 1 ELSE 0
      /\ JobsIn(polled', c) = IF Head(convQueue).c = c THEN 1 ELSE 0
      /\ JobsIn(polled, c) = 0
  BY <1>1, <1>2, JobsOfTails, JobsOfOne, JobsOfNone
<1>4. JobsOf(c)' = JobsOf(c)
  <2>1. JobsIn(convQueue, c) + JobsIn(polled, c) = JobsIn(convQueue', c) + JobsIn(polled', c)
    BY <1>0, <1>3 DEF JobSum
  <2>2. /\ Started(spawned', c) = Started(spawned, c) /\ JobsIn(convCh', c) = JobsIn(convCh, c)
        /\ Making(handling', c) = Making(handling, c) /\ Delayed(later', c) = Delayed(later, c)
    BY <1>2
  <2>3. JobsOf(c)' = Started(spawned, c) + JobsIn(convQueue', c) + JobsIn(polled', c)
            + JobsIn(convCh, c) + Cardinality(Making(handling, c)) + Cardinality(Delayed(later, c))
    BY <1>0, <2>2 DEF JobSum
  <2>4. /\ JobsOf(c) = Started(spawned, c) + JobsIn(convQueue, c) + JobsIn(polled, c)
            + JobsIn(convCh, c) + Cardinality(Making(handling, c)) + Cardinality(Delayed(later, c))
        /\ Started(spawned, c) \in Nat /\ JobsIn(convQueue, c) \in Nat /\ JobsIn(polled, c) \in Nat
        /\ JobsIn(convCh, c) \in Nat
        /\ Cardinality(Making(handling, c)) \in Nat /\ Cardinality(Delayed(later, c)) \in Nat
        /\ JobsIn(convQueue', c) \in Nat /\ JobsIn(polled', c) \in Nat
    BY <1>0 DEF JobSum
  <2> QED BY <2>1, <2>3, <2>4
<1>5. JobIsAccounted(c)'
  BY <1>0, <1>1, <1>2, <1>4, AccountsAreKept
<1>6. JobsIn(convQueue, c) = 0 => JobsIn(convQueue', c) = 0 /\ JobsIn(polled', c) = 0
  BY <1>0, <1>1, <1>3 DEF JobSum
<1>7. LocksAreOwned(c)'
  BY <1>0, <1>1, <1>2, <1>6 DEF LocksAreOwned
<1> QED BY <1>5, <1>7

\* ... sent to the channel under its lock, ...
LEMMA LockedJobsMove ==
    ASSUME ConversionsInv, ConversionsTypeOK', IsFiniteSet(handling'), IsFiniteSet(later'),
           PollLock
    PROVE  JobStaysAccounted
<1> SUFFICES ASSUME NEW c \in Conversion PROVE JobIsAccounted(c)' /\ LocksAreOwned(c)'
  BY DEF JobStaysAccounted
<1>0. /\ JobIsAccounted(c) /\ LocksAreOwned(c)
      /\ JobSum(c) /\ JobsOf(c) \in Nat /\ JobsOf(c) <= 1
      /\ JobSum(c)' /\ JobsOf(c)' \in Nat
  BY JobsNow
<1> DEFINE e == polled[1]
<1>1. /\ ConversionsTypeOK /\ IsFiniteSet(handling) /\ IsFiniteSet(later)
      /\ polled \in Seq(ConversionJob) /\ convCh \in Seq(ConversionJob) /\ Len(polled) <= 1
  BY DEF ConversionsInv, ConversionsTypeOK
<1>2. /\ UNCHANGED <<medium, converted, spawned, convQueue, later, gaveUp, faults, handling>>
      /\ polled # <<>> /\ polled' = <<>>
  BY DEF PollLock, mediaRows, requestVars
<1>3. e \in ConversionJob /\ e.c \in Conversion /\ polled = <<e>>
  <2>1. Len(polled) = 1 /\ e \in ConversionJob
    <3>1. Len(polled) \in Nat /\ Len(polled) # 0
      BY <1>1, <1>2
    <3>2. Len(polled) = 1
      <4>1. Len(polled) <= 1
        BY <1>1
      <4>2. \A n \in Nat : n <= 1 /\ n # 0 => n = 1
        OBVIOUS
      <4> HIDE DEF e
      <4> QED BY <3>1, <4>1, <4>2, Zenon
    <3> QED BY <1>1, <3>2
  <2>2. polled = <<e>>
    BY <1>1, <2>1
  <2> QED BY <2>1, <2>2 DEF ConversionJob
<1>4. /\ JobsIn(polled, c) = IF e.c = c THEN 1 ELSE 0
      /\ JobsIn(polled', c) = 0
  BY <1>2, <1>3, JobsOfOne, JobsOfNone
<1>5. CASE AcquireLock(e.c) /\ convCh' = convCh \o polled
  <2>1. convCh' = Append(convCh, e) /\ locks' = locks \cup {e.c}
    <3>1. convCh \o <<e>> = Append(convCh, e)
      BY <1>1, <1>3
    <3> QED BY <1>3, <1>5, <3>1 DEF AcquireLock
  <2> HIDE DEF e
  <2>2. JobsIn(convCh', c) = JobsIn(convCh, c) + IF e.c = c THEN 1 ELSE 0
    BY <1>1, <1>3, <2>1, JobsOfLonger
  <2>3. JobsOf(c)' = JobsOf(c)
    BY <1>0, <1>1, <1>2, <1>4, <2>2 DEF JobSum
  <2>4. JobIsAccounted(c)'
    BY <1>0, <1>1, <1>2, <2>3, AccountsAreKept
  <2>5. /\ \E i \in DOMAIN convCh' : convCh'[i] = e
        /\ \A i \in DOMAIN convCh : i \in DOMAIN convCh' /\ convCh'[i] = convCh[i]
    BY <1>1, <1>3, <2>1
  <2>6. JobsIn(polled, c) = 0 => JobsIn(convCh', c) = JobsIn(convCh, c)
    BY <1>0, <1>1, <1>4, <2>2 DEF JobSum
  <2>7. LocksAreOwned(c)'
    BY <1>0, <1>1, <1>2, <1>4, <2>1, <2>5, <2>6 DEF LocksAreOwned
  <2> QED BY <2>4, <2>7
<1>6. CASE e.c \in locks /\ UNCHANGED <<locks, convCh>>
  <2> HIDE DEF e
  <2>1. faults # 0
    <3>1. JobsIn(polled, e.c) # 0
      BY <1>3, JobsOfOne
    <3> QED BY <1>3, <1>6, <3>1, HolderHasTheJob
  <2>2. JobsOf(c)' <= JobsOf(c) /\ JobsOf(c) \in Nat /\ JobsOf(c)' \in Nat
    BY <1>0, <1>1, <1>2, <1>4, <1>6 DEF JobSum
  <2>3. JobIsAccounted(c)'
    BY <1>0, <1>1, <1>2, <2>1, <2>2, AccountsAreKept
  <2>4. LocksAreOwned(c)'
    BY <1>0, <1>2, <2>1 DEF LocksAreOwned
  <2> QED BY <2>3, <2>4
<1> QED BY <1>5, <1>6 DEF PollLock

\* ... and taken by a converter.
LEMMA TakenJobsMove ==
    ASSUME ConversionsInv, ConversionsTypeOK', IsFiniteSet(handling'), IsFiniteSet(later'),
           NEW w \in Converters, ProcessLoop(w)
    PROVE  JobStaysAccounted
<1> SUFFICES ASSUME NEW c \in Conversion PROVE JobIsAccounted(c)' /\ LocksAreOwned(c)'
  BY DEF JobStaysAccounted
<1>0. /\ JobIsAccounted(c) /\ LocksAreOwned(c)
      /\ JobSum(c) /\ JobsOf(c) \in Nat /\ JobsOf(c) <= 1
      /\ JobSum(c)' /\ JobsOf(c)' \in Nat
  BY JobsNow
<1> DEFINE e == Head(convCh)
           g == Work(e, w)
<1>1. /\ ConversionsTypeOK /\ IsFiniteSet(handling) /\ IsFiniteSet(later)
      /\ convCh \in Seq(ConversionJob)
  BY DEF ConversionsInv, ConversionsTypeOK
<1>2. /\ UNCHANGED <<medium, converted, spawned, convQueue, polled, later, gaveUp, faults, locks>>
      /\ convCh # <<>> /\ convCh' = Tail(convCh) /\ handling' = handling \cup {g}
  BY DEF ProcessLoop, mediaRows, requestVars
<1>3. e \in ConversionJob /\ g.job = e /\ g.pc = "find"
  BY <1>1, <1>2, HandlingsAreTyped
<1>4. JobsIn(convCh, c) = JobsIn(convCh', c) + IF e.c = c THEN 1 ELSE 0
  BY <1>1, <1>2, JobsOfTails
<1>5. \A i \in DOMAIN convCh : convCh[i] = e \/ \E k \in DOMAIN convCh' : convCh'[k] = convCh[i]
  <2> SUFFICES ASSUME NEW i \in DOMAIN convCh, i # 1
               PROVE  \E k \in DOMAIN convCh' : convCh'[k] = convCh[i]
    BY <1>1, <1>2
  <2>1. i - 1 \in DOMAIN Tail(convCh) /\ Tail(convCh)[i - 1] = convCh[i]
    BY <1>1, <1>2
  <2> QED BY <1>2, <2>1
<1> HIDE DEF e, g
<1>6. e.c = c => /\ JobsIn(convCh, c) >= 1 /\ JobsOf(c) >= 1
                  /\ Cardinality(Making(handling, c)) = 0
                  /\ JobsIn(convCh, c) = JobsIn(convCh', c) + 1
  <2>1. ASSUME e.c = c PROVE JobsIn(convCh, c) = JobsIn(convCh', c) + 1
    BY <1>4, <2>1
  <2>2. /\ JobsIn(convCh, c) \in Nat /\ JobsIn(convCh', c) \in Nat
        /\ Cardinality(Making(handling, c)) \in Nat
        /\ JobsOf(c) >= JobsIn(convCh, c) + Cardinality(Making(handling, c))
    BY <1>0 DEF JobSum
  <2> QED BY <1>0, <2>1, <2>2
<1>7. JobsOf(c)' = JobsOf(c)
  <2>1. CASE e.c = c
    <3>1. Making(handling, c) = {}
      BY <1>0, <1>6, <2>1, SmallSets DEF JobSum
    <3>2. Making(handling', c) = {g}
      BY <1>2, <1>3, <2>1, <3>1 DEF Making
    <3>3. Cardinality(Making(handling', c)) = 1
      BY <3>2, FS_Singleton
    <3> QED BY <1>0, <1>2, <1>6, <2>1, <3>3 DEF JobSum
  <2>2. CASE e.c # c
    <3>1. Making(handling', c) = Making(handling, c)
      BY <1>2, <1>3, <2>2 DEF Making
    <3>2. JobsIn(convCh, c) = JobsIn(convCh', c)
      BY <1>0, <1>4, <2>2 DEF JobSum
    <3> QED BY <1>0, <1>2, <3>1, <3>2 DEF JobSum
  <2> QED BY <2>1, <2>2
<1>8. \A h \in handling' : h.job.c = c => JobsOf(c) >= 1 \/ \E k \in handling : k.job.c = c
  BY <1>2, <1>3, <1>6
<1>9. JobIsAccounted(c)'
  BY <1>0, <1>1, <1>2, <1>7, <1>8, AccountsAreKept
<1>10. JobsIn(convCh, c) = 0 => JobsIn(convCh', c) = 0
  <2>1. JobsIn(convCh, c) \in Nat /\ JobsIn(convCh', c) \in Nat
    BY <1>0 DEF JobSum
  <2> QED BY <1>4, <2>1
<1>11. LocksAreOwned(c)'
  BY <1>0, <1>1, <1>2, <1>3, <1>5, <1>10 DEF LocksAreOwned
<1> QED BY <1>9, <1>11

\* A goroutine that goes on keeps its job, and one that is through has none.
LEMMA GoroutineMoves ==
    ASSUME ConversionsInv, ConversionsTypeOK', IsFiniteSet(handling'), IsFiniteSet(later'),
           NEW g \in handling, g.pc # "release", NEW l \in Steps, Move(g, l),
           NEW c \in Conversion
    PROVE  /\ g.job.c = c =>
                /\ Cardinality(Making(handling, c)) = 1
                /\ Cardinality(Making(handling', c)) = IF l = "release" THEN 0 ELSE 1
                /\ c \notin spawned /\ Delayed(later, c) = {}
                /\ JobsIn(convQueue, c) = 0 /\ JobsIn(polled, c) = 0 /\ JobsIn(convCh, c) = 0
                /\ JobsOf(c) = 1 /\ c \notin converted
           /\ g.job.c # c => Making(handling', c) = Making(handling, c)
           /\ \A h \in handling' : h \in handling \/ (h.job = g.job /\ h.pc = l)
           /\ \A h \in handling : \E k \in handling' : k.job.c = h.job.c
<1> DEFINE k == [g EXCEPT !.pc = l]
<1>1. /\ JobSum(c) /\ JobsOf(c) \in Nat /\ JobsOf(c) <= 1 /\ JobIsAccounted(c)
  BY JobsNow
<1>2. handling' = (handling \ {g}) \cup {k} /\ k.job = g.job /\ k.pc = l
  BY HandlingsAreTyped DEF Move, ConversionsInv, ConversionsTypeOK
<1> HIDE DEF k
<1>3. ASSUME g.job.c = c
      PROVE  /\ Making(handling, c) = {g} /\ Cardinality(Making(handling, c)) = 1
             /\ c \notin spawned /\ Delayed(later, c) = {}
             /\ JobsIn(convQueue, c) = 0 /\ JobsIn(polled, c) = 0 /\ JobsIn(convCh, c) = 0
             /\ JobsOf(c) = 1 /\ c \notin converted
  <2>1. g \in Making(handling, c) /\ IsFiniteSet(Making(handling, c))
    BY <1>1, <1>3 DEF Making, JobSum
  <2>2. Cardinality(Making(handling, c)) >= 1
    BY <2>1, SmallSets
  <2>3. /\ Cardinality(Making(handling, c)) = 1 /\ JobsOf(c) = 1
        /\ c \notin spawned /\ Cardinality(Delayed(later, c)) = 0
        /\ JobsIn(convQueue, c) = 0 /\ JobsIn(polled, c) = 0 /\ JobsIn(convCh, c) = 0
    BY <1>1, <2>2 DEF JobSum, Started
  <2>4. Making(handling, c) = {g}
    BY <2>1, <2>3, SmallSets
  <2>5. Delayed(later, c) = {}
    BY <1>1, <2>3, SmallSets DEF JobSum
  <2>6. c \notin converted
    <3>1. Cardinality(converted \cap {c}) = IF c \in converted THEN 1 ELSE 0
      BY JobsCount
    <3> QED BY <1>1, <2>3, <3>1 DEF JobIsAccounted
  <2> QED BY <2>3, <2>4, <2>5, <2>6
<1>4. ASSUME g.job.c = c
      PROVE  Cardinality(Making(handling', c)) = IF l = "release" THEN 0 ELSE 1
  <2>1. \A h \in handling : h.job.c = c /\ h.pc # "release" => h = g
    BY <1>3, <1>4 DEF Making
  <2>2. Making(handling', c) = IF l = "release" THEN {} ELSE {k}
    BY <1>2, <1>4, <2>1 DEF Making
  <2> QED BY <2>2, FS_EmptySet, FS_Singleton
<1>5. g.job.c # c => Making(handling', c) = Making(handling, c)
  BY <1>2 DEF Making
<1> QED BY <1>2, <1>3, <1>4, <1>5

\* A goroutine goes on, ...
LEMMA GoingOnKeepsJobs ==
    ASSUME ConversionsInv, ConversionsTypeOK', IsFiniteSet(handling'), IsFiniteSet(later'),
           NEW g \in handling, NEW l \in Steps, l # "release", g.pc # "release", Move(g, l),
           UNCHANGED <<medium, converted, spawned, convQueue, locks, polled, convCh, later, gaveUp,
                       faults>>
    PROVE  JobStaysAccounted
<1> SUFFICES ASSUME NEW c \in Conversion PROVE JobIsAccounted(c)' /\ LocksAreOwned(c)'
  BY DEF JobStaysAccounted
<1>0. /\ JobIsAccounted(c) /\ LocksAreOwned(c)
      /\ JobSum(c) /\ JobsOf(c) \in Nat /\ JobsOf(c) <= 1
      /\ JobSum(c)' /\ JobsOf(c)' \in Nat
  BY JobsNow
<1>1. /\ g.job.c = c => /\ Cardinality(Making(handling, c)) = 1
                        /\ Cardinality(Making(handling', c)) = 1
      /\ g.job.c # c => Making(handling', c) = Making(handling, c)
      /\ \A h \in handling' : h \in handling \/ (h.job = g.job /\ h.pc = l)
      /\ \A h \in handling : \E k \in handling' : k.job.c = h.job.c
  BY GoroutineMoves
<1>2. JobsOf(c)' = JobsOf(c)
  BY <1>0, <1>1 DEF JobSum
<1>3. JobIsAccounted(c)'
  BY <1>0, <1>1, <1>2, AccountsAreKept
<1>4. LocksAreOwned(c)'
  BY <1>0, <1>1 DEF LocksAreOwned
<1> QED BY <1>3, <1>4

\* ... records its conversion, ...
LEMMA RecordedJobsEnd ==
    ASSUME ConversionsInv, ConversionsTypeOK', IsFiniteSet(handling'), IsFiniteSet(later'),
           NEW g \in handling, g.pc = "record", Move(g, "release"),
           converted' = converted \cup {g.job.c},
           UNCHANGED <<medium, spawned, convQueue, locks, polled, convCh, later, gaveUp, faults>>
    PROVE  JobStaysAccounted
<1> SUFFICES ASSUME NEW c \in Conversion PROVE JobIsAccounted(c)' /\ LocksAreOwned(c)'
  BY DEF JobStaysAccounted
<1>0. /\ JobIsAccounted(c) /\ LocksAreOwned(c)
      /\ JobSum(c) /\ JobsOf(c) \in Nat /\ JobsOf(c) <= 1
      /\ JobSum(c)' /\ JobsOf(c)' \in Nat
  BY JobsNow
<1>1. /\ g.job.c = c => /\ Cardinality(Making(handling, c)) = 1
                        /\ Cardinality(Making(handling', c)) = 0
                        /\ c \notin spawned
                        /\ JobsIn(convQueue, c) = 0 /\ JobsIn(polled, c) = 0 /\ JobsIn(convCh, c) = 0
      /\ g.job.c # c => Making(handling', c) = Making(handling, c)
      /\ \A h \in handling' : h \in handling \/ (h.job = g.job /\ h.pc = "release")
      /\ \A h \in handling : \E k \in handling' : k.job.c = h.job.c
  BY GoroutineMoves DEF Steps
<1>2. JobsOf(c)' = JobsOf(c) - IF g.job.c = c THEN 1 ELSE 0
  <2>1. CASE g.job.c = c
    BY <1>0, <1>1, <2>1 DEF JobSum
  <2>2. CASE g.job.c # c
    BY <1>0, <1>1, <2>2 DEF JobSum
  <2> QED BY <2>1, <2>2
<1>3. /\ JobsOf(c)' <= JobsOf(c)
      /\ JobsOf(c)' = JobsOf(c) \/ c \in converted'
      /\ c \in converted' => c \in converted \/ JobsOf(c)' < JobsOf(c)
  BY <1>0, <1>2
<1>4. JobIsAccounted(c)'
  BY <1>0, <1>1, <1>3, AccountsAreKept
<1>5. LocksAreOwned(c)'
  BY <1>0, <1>1 DEF LocksAreOwned
<1> QED BY <1>4, <1>5

\* ... or comes to an error, after which the job waits or is given up.
LEMMA FailedJobsWait ==
    ASSUME ConversionsInv, ConversionsTypeOK', IsFiniteSet(handling'), IsFiniteSet(later'),
           NEW g \in handling, g.pc # "release", HandleError(g),
           UNCHANGED <<medium, converted, spawned, convQueue, locks, polled, convCh>>,
           faults' = 0 => faults = 0
    PROVE  JobStaysAccounted
<1> SUFFICES ASSUME NEW c \in Conversion PROVE JobIsAccounted(c)' /\ LocksAreOwned(c)'
  BY DEF JobStaysAccounted
<1> DEFINE cj == [g.job EXCEPT !.attempt = g.job.attempt + 1]
<1>0. /\ JobIsAccounted(c) /\ LocksAreOwned(c)
      /\ JobSum(c) /\ JobsOf(c) \in Nat /\ JobsOf(c) <= 1
      /\ JobSum(c)' /\ JobsOf(c)' \in Nat
  BY JobsNow
<1>1. /\ g.job.c = c => /\ Cardinality(Making(handling, c)) = 1
                        /\ Cardinality(Making(handling', c)) = 0
                        /\ Delayed(later, c) = {} /\ c \notin spawned
                        /\ JobsIn(convQueue, c) = 0 /\ JobsIn(polled, c) = 0 /\ JobsIn(convCh, c) = 0
                        /\ JobsOf(c) = 1
      /\ g.job.c # c => Making(handling', c) = Making(handling, c)
      /\ \A h \in handling' : h \in handling \/ (h.job = g.job /\ h.pc = "release")
      /\ \A h \in handling : \E k \in handling' : k.job.c = h.job.c
  BY GoroutineMoves DEF HandleError, Steps
<1>2. gaveUp \subseteq gaveUp'
  BY DEF HandleError
<1>3. JobsOf(c)' <= JobsOf(c) /\ (JobsOf(c)' = JobsOf(c) \/ c \in gaveUp')
  <2>1. CASE g.job.attempt + 1 < MaxAttempts
    <3>1. later' = later \cup {cj} /\ cj.c = g.job.c
      BY <2>1, HandlingsAreTyped DEF HandleError, ConversionsInv, ConversionsTypeOK
    <3> HIDE DEF cj
    <3>2. g.job.c = c => Delayed(later', c) = {cj}
      BY <1>1, <3>1 DEF Delayed
    <3>3. g.job.c # c => Delayed(later', c) = Delayed(later, c)
      BY <3>1 DEF Delayed
    <3>4. Cardinality({cj}) = 1
      BY FS_Singleton
    <3>5. CASE g.job.c = c
      <4>1. /\ Cardinality(Delayed(later', c)) = 1 /\ Cardinality(Delayed(later, c)) = 0
            /\ Cardinality(Making(handling, c)) = 1 /\ Cardinality(Making(handling', c)) = 0
        BY <1>1, <3>2, <3>4, <3>5, FS_EmptySet
      <4>2. JobsOf(c)' = JobsOf(c)
        BY <1>0, <4>1 DEF JobSum
      <4> QED BY <1>0, <4>2
    <3>6. CASE g.job.c # c
      BY <1>0, <1>1, <3>3, <3>6 DEF JobSum
    <3> QED BY <3>5, <3>6
  <2>2. CASE ~(g.job.attempt + 1 < MaxAttempts)
    <3>1. later' = later /\ gaveUp' = gaveUp \cup {g.job.c}
      BY <2>2 DEF HandleError
    <3>2. CASE g.job.c = c
      BY <1>0, <1>1, <3>1, <3>2 DEF JobSum
    <3>3. CASE g.job.c # c
      BY <1>0, <1>1, <3>1, <3>3 DEF JobSum
    <3> QED BY <3>2, <3>3
  <2> QED BY <2>1, <2>2
<1>4. JobIsAccounted(c)'
  BY <1>0, <1>1, <1>2, <1>3, AccountsAreKept
<1>5. LocksAreOwned(c)'
  BY <1>0, <1>1 DEF LocksAreOwned
<1> QED BY <1>4, <1>5

\* A lock that is released has no other owner.
LEMMA ReleasedLocksAreFree ==
    ASSUME ConversionsInv, ConversionsTypeOK', IsFiniteSet(handling'), IsFiniteSet(later'),
           NEW g \in handling, ReleaseLock(g)
    PROVE  JobStaysAccounted
<1> SUFFICES ASSUME NEW c \in Conversion PROVE JobIsAccounted(c)' /\ LocksAreOwned(c)'
  BY DEF JobStaysAccounted
<1>0. /\ JobIsAccounted(c) /\ LocksAreOwned(c)
      /\ JobSum(c) /\ JobsOf(c) \in Nat /\ JobsOf(c) <= 1
      /\ JobSum(c)' /\ JobsOf(c)' \in Nat
  BY JobsNow
<1>1. /\ UNCHANGED <<medium, converted, spawned, convQueue, polled, convCh, later, gaveUp, faults>>
      /\ handling' = handling \ {g} /\ locks' = locks \ {g.job.c} /\ g.pc = "release"
  BY DEF ReleaseLock, mediaRows, requestVars
<1>2. Making(handling', c) = Making(handling, c)
  BY <1>1 DEF Making
<1>3. JobsOf(c)' = JobsOf(c)
  BY <1>0, <1>1, <1>2 DEF JobSum
<1>4. JobIsAccounted(c)'
  BY <1>0, <1>1, <1>3, AccountsAreKept
<1>5. LocksAreOwned(c)'
  BY <1>0, <1>1 DEF LocksAreOwned
<1> QED BY <1>4, <1>5

\* A sum is no greater than one whose parts are no smaller.
LEMMA SmallerParts ==
    ASSUME NEW a \in Nat, NEW b \in Nat, NEW d \in Nat, NEW e \in Nat, NEW f \in Nat,
           NEW a2 \in Nat, NEW b2 \in Nat, NEW d2 \in Nat, NEW e2 \in Nat, NEW f2 \in Nat,
           NEW q \in Nat, a2 <= a, b2 <= b, d2 <= d, e2 <= e, f2 <= f
    PROVE  a2 + q + b2 + d2 + e2 + f2 <= a + q + b + d + e + f
OBVIOUS

\* A fault, a stop or a crash only takes jobs away, which then need not be accounted for.
LEMMA FaultsTakeJobs ==
    ASSUME ConversionsInv, ConversionsTypeOK', IsFiniteSet(handling'), IsFiniteSet(later'),
           faults' \in Nat, faults' > 0, UNCHANGED <<medium, converted, convQueue, gaveUp>>,
           spawned' \subseteq spawned, handling' \subseteq handling, later' \subseteq later,
           polled' = polled \/ polled' = <<>>, convCh' = convCh \/ convCh' = <<>>
    PROVE  JobStaysAccounted
<1> SUFFICES ASSUME NEW c \in Conversion PROVE JobIsAccounted(c)' /\ LocksAreOwned(c)'
  BY DEF JobStaysAccounted
<1>0. /\ JobIsAccounted(c) /\ LocksAreOwned(c)
      /\ JobSum(c) /\ JobsOf(c) \in Nat /\ JobsOf(c) <= 1
      /\ JobSum(c)' /\ JobsOf(c)' \in Nat
  BY JobsNow
<1>1. JobsIn(polled', c) <= JobsIn(polled, c) /\ JobsIn(convCh', c) <= JobsIn(convCh, c)
  <2>1. JobsIn(<<>>, c) = 0 /\ JobsIn(polled, c) >= 0 /\ JobsIn(convCh, c) >= 0
    BY <1>0, JobsOfNone DEF JobSum
  <2>2. JobsIn(polled, c) \in Nat /\ JobsIn(convCh, c) \in Nat
    BY <1>0 DEF JobSum
  <2>3. JobsIn(polled', c) = JobsIn(polled, c) \/ JobsIn(polled', c) = 0
    BY <2>1
  <2>4. JobsIn(convCh', c) = JobsIn(convCh, c) \/ JobsIn(convCh', c) = 0
    BY <2>1
  <2> QED BY <2>1, <2>2, <2>3, <2>4
<1>2. /\ Cardinality(Making(handling', c)) <= Cardinality(Making(handling, c))
      /\ Cardinality(Delayed(later', c)) <= Cardinality(Delayed(later, c))
  <2>1. /\ Making(handling', c) \in SUBSET Making(handling, c)
        /\ Delayed(later', c) \in SUBSET Delayed(later, c)
    BY DEF Making, Delayed
  <2>2. IsFiniteSet(Making(handling, c)) /\ IsFiniteSet(Delayed(later, c))
    BY <1>0 DEF JobSum
  <2> QED BY <2>1, <2>2, FS_Subset
<1>3. JobsOf(c)' <= JobsOf(c)
  <2>1. Started(spawned', c) <= Started(spawned, c) /\ JobsIn(convQueue', c) = JobsIn(convQueue, c)
    BY DEF Started
  <2>2. /\ JobsOf(c)' = Started(spawned', c) + JobsIn(convQueue, c) + JobsIn(polled', c)
            + JobsIn(convCh', c) + Cardinality(Making(handling', c))
            + Cardinality(Delayed(later', c))
        /\ Started(spawned', c) \in Nat /\ JobsIn(polled', c) \in Nat /\ JobsIn(convCh', c) \in Nat
        /\ Cardinality(Making(handling', c)) \in Nat /\ Cardinality(Delayed(later', c)) \in Nat
    BY <1>0, <2>1 DEF JobSum
  <2>3. /\ JobsOf(c) = Started(spawned, c) + JobsIn(convQueue, c) + JobsIn(polled, c)
            + JobsIn(convCh, c) + Cardinality(Making(handling, c)) + Cardinality(Delayed(later, c))
        /\ Started(spawned, c) \in Nat /\ JobsIn(polled, c) \in Nat /\ JobsIn(convCh, c) \in Nat
        /\ Cardinality(Making(handling, c)) \in Nat /\ Cardinality(Delayed(later, c)) \in Nat
        /\ JobsIn(convQueue, c) \in Nat
    BY <1>0 DEF JobSum
  <2>4. Started(spawned', c) + JobsIn(convQueue, c) + JobsIn(polled', c) + JobsIn(convCh', c)
            + Cardinality(Making(handling', c)) + Cardinality(Delayed(later', c))
        <= Started(spawned, c) + JobsIn(convQueue, c) + JobsIn(polled, c) + JobsIn(convCh, c)
            + Cardinality(Making(handling, c)) + Cardinality(Delayed(later, c))
    BY <1>1, <1>2, <2>1, <2>2, <2>3, SmallerParts
  <2> QED BY <2>2, <2>3, <2>4
<1>4. JobIsAccounted(c)'
  BY <1>0, <1>3, AccountsAreKept
<1>5. LocksAreOwned(c)'
  BY DEF LocksAreOwned
<1> QED BY <1>4, <1>5

\* ConversionsInv is inductive: every step of requests, workers, time and crashes keeps it.
LEMMA ConversionSteps == ConversionsInv /\ ConversionsNext => ConversionsInv'
<1> SUFFICES ASSUME ConversionsInv, ConversionsNext PROVE ConversionsInv'
  OBVIOUS
<1> DEFINE Kept == /\ UploadsAlone' /\ FilesAreOwned' /\ (faults' = 0 => running')
                   /\ JobStaysAccounted
<1>1. /\ ConversionsTypeOK /\ IsFiniteSet(handling) /\ IsFiniteSet(later)
      /\ UploadsAlone /\ FilesAreOwned /\ (faults = 0 => running)
      /\ faults \in Nat
  BY RequestBoundsAssumption DEF ConversionsInv, ConversionsTypeOK, RequestsAre
<1>2. ConversionsTypeOK' /\ IsFiniteSet(handling') /\ IsFiniteSet(later')
  BY <1>1, ConversionTypes
<1>3. ASSUME NEW r \in Slots,
             \/ \E m \in Media, large \in BOOLEAN : HandleUpload(r, m, large)
             \/ \E m \in Media : HandleDelete(r, m)
             \/ StoreUpload(r) \/ CreateMedia(r) \/ CreateMediaFails(r) \/ CleanUpFile(r)
             \/ MarkOrphaned(r) \/ SoftDeleteMedia(r)
             \/ Abort(r) /\ UNCHANGED conversionVars
      PROVE  Kept
  <2>1. UploadStep(r)
    BY <1>1, <1>3, UploadSteps
  <2>2. faults' \in Nat /\ faults' >= faults
    BY <1>1, <1>3, UploadRequestTypes
  <2>3. UploadsAlone' /\ FilesAreOwned'
    BY <1>1, <2>1, <2>2, UploadsKeepFiles
  <2>4. faults' = 0 => running' /\ faults = 0
    BY <1>1, <2>1, <2>2 DEF UploadStep
  <2>5. JobStaysAccounted
    <3>1. CASE CreateMedia(r)
      BY <1>2, <3>1, JobsBegin
    <3>2. CASE ~CreateMedia(r)
      <4>1. UNCHANGED <<converted, spawned, convQueue, locks, polled, convCh, handling, later, gaveUp>>
        BY <1>3, <3>2
        DEF HandleUpload, HandleDelete, StoreUpload, CreateMediaFails, CleanUpFile, MarkOrphaned,
            SoftDeleteMedia, conversionVars, mediaRows
      <4>2. \A m \in Media : medium'[m].st = "none" <=> medium[m].st = "none"
        <5>1. CASE SoftDeleteMedia(r)
          <6>1. At(r, "delete") /\ medium[req[r].m].st # "none"
            BY <1>1, <5>1 DEF SoftDeleteMedia, UploadsAlone, At
          <6>2. /\ \A m \in Media \ {req[r].m} : medium'[m] = medium[m]
                /\ req[r].m \in Media => medium'[req[r].m].st = "deleted"
            BY <1>1, <5>1 DEF SoftDeleteMedia, ConversionsTypeOK
          <6> QED BY <6>1, <6>2
        <5>2. CASE ~SoftDeleteMedia(r)
          BY <1>3, <3>2, <5>2
          DEF HandleUpload, HandleDelete, StoreUpload, CreateMediaFails, CleanUpFile,
              MarkOrphaned, conversionVars, mediaRows
        <5> QED BY <5>1, <5>2
      <4> QED BY <2>4, <4>1, <4>2, JobsStay
    <3> QED BY <3>1, <3>2
  <2> QED BY <2>3, <2>4, <2>5
<1>4. ASSUME UNCHANGED requestVars \/ ConversionFault,
             UNCHANGED <<medium, converted, files>>, handling' \subseteq handling
                \/ \E g \in Handling : handling' = handling \cup {g} /\ g.pc # "record"
      PROVE  UploadsAlone' /\ FilesAreOwned'
  <2>1. faults' \in Nat /\ faults' >= faults /\ req' = req
    BY <1>1, <1>4 DEF requestVars, ConversionFault
  <2>2. \A g \in handling' : g.pc = "record" => g \in handling
    BY <1>4
  <2>3. /\ files \subseteq files' /\ files' \subseteq files \cup Conversion
        /\ \A c \in converted' : c \in converted \/ c \in files
        /\ \A g \in handling' : g.pc = "record" => g \in handling \/ g.job.c \in files'
    BY <1>4, <2>2
  <2>4. UNCHANGED medium
    BY <1>4
  <2>5. WorkStep
    BY <2>1, <2>3, <2>4 DEF WorkStep
  <2> QED BY <1>1, <2>1, <2>5, WorkersKeepFiles
<1>5. /\ UNCHANGED requestVars => faults' = faults
      /\ ConversionFault => faults' \in Nat /\ faults' > 0
  BY <1>1 DEF requestVars, ConversionFault
<1>6. ASSUME NEW c \in spawned, EnqueueSync(c) PROVE Kept
  <2>1. /\ UNCHANGED <<medium, converted, files, running>> /\ UNCHANGED requestVars
        /\ handling' = handling \/ handling' = handling \cup {Work(First(c), "sync")}
    BY <1>6 DEF EnqueueSync, mediaRows
  <2>2. Work(First(c), "sync") \in Handling /\ Work(First(c), "sync").pc = "find"
    BY <1>1, HandlingsAreTyped DEF ConversionsTypeOK
  <2>3. UploadsAlone' /\ FilesAreOwned'
    BY <1>4, <2>1, <2>2
  <2> QED BY <1>1, <1>2, <1>5, <1>6, <2>1, <2>3, SyncJobsMove
<1>7. ASSUME \/ \E c \in spawned : EnqueueAsync(c)
             \/ \E cj \in later : EnqueueToRedis(cj)
      PROVE  Kept
  <2>1. /\ UNCHANGED <<medium, converted, files, running, handling>>
        /\ UNCHANGED requestVars \/ ConversionFault
    BY <1>7 DEF EnqueueAsync, EnqueueToRedis, mediaRows
  <2>2. UploadsAlone' /\ FilesAreOwned'
    BY <1>4, <2>1
  <2> QED BY <1>1, <1>2, <1>5, <1>7, <2>1, <2>2, PushedJobsMove
<1>8. ASSUME PollQueue \/ PollLock PROVE Kept
  <2>1. UNCHANGED <<medium, converted, files, running, handling>> /\ UNCHANGED requestVars
    BY <1>8 DEF PollQueue, PollLock, mediaRows
  <2>2. UploadsAlone' /\ FilesAreOwned'
    BY <1>4, <2>1
  <2> QED BY <1>1, <1>2, <1>5, <1>8, <2>1, <2>2, PolledJobsMove, LockedJobsMove
<1>9. ASSUME NEW w \in Converters, ProcessLoop(w) PROVE Kept
  <2>1. /\ UNCHANGED <<medium, converted, files, running>> /\ UNCHANGED requestVars
        /\ handling' = handling \cup {Work(Head(convCh), w)}
    BY <1>9 DEF ProcessLoop, mediaRows
  <2>2. Work(Head(convCh), w) \in Handling /\ Work(Head(convCh), w).pc = "find"
    <3>1. Head(convCh) \in ConversionJob
      BY <1>1, <1>9 DEF ProcessLoop, ConversionsTypeOK
    <3> QED BY <3>1, HandlingsAreTyped
  <2>3. UploadsAlone' /\ FilesAreOwned'
    BY <1>4, <2>1, <2>2
  <2> QED BY <1>1, <1>2, <1>5, <1>9, <2>1, <2>3, TakenJobsMove
<1>10. ASSUME NEW g \in handling,
              FindMedia(g) \/ Convert(g) \/ RecordConversion(g) \/ HandleFails(g)
       PROVE  Kept
  <2> DEFINE Goes(l) == /\ Move(g, l) /\ l # "release" /\ UNCHANGED <<later, gaveUp>>
                        /\ UNCHANGED <<converted, faults>>
             Records == /\ g.pc = "record" /\ Move(g, "release") /\ UNCHANGED <<later, gaveUp>>
                        /\ converted' = converted \cup {g.job.c} /\ UNCHANGED faults
             Fails == HandleError(g) /\ UNCHANGED converted
  <2>1. /\ g.pc # "release" /\ req' = req
        /\ UNCHANGED <<medium, spawned, convQueue, locks, polled, convCh, running>>
        /\ UNCHANGED requestVars \/ ConversionFault
        /\ files' = files \/ files' = files \cup {g.job.c}
    BY <1>10
    DEF FindMedia, Convert, RecordConversion, HandleFails, mediaRows, requestVars, ConversionFault,
        Handle, Store
  <2>2. \/ Goes("convert")
        \/ Goes("record") /\ files' = files \cup {g.job.c}
        \/ Records
        \/ Fails
    BY <1>10
    DEF FindMedia, Convert, RecordConversion, HandleFails, mediaRows, requestVars, Handle, Store
  <2>3. g \in Handling /\ g.job.c \in Conversion
    BY <1>1, HandlingsAreTyped DEF ConversionsTypeOK
  <2>4. faults' \in Nat /\ faults' >= faults
    BY <1>1, <2>1 DEF requestVars, ConversionFault
  <2>5. \E l \in Steps : /\ Move(g, l)
                         /\ l = "record" => g.job.c \in files'
    BY <2>2 DEF HandleError, Steps
  <2>6. \A h \in handling' : h.pc = "record" => h \in handling \/ h.job.c \in files'
    <3>1. PICK l \in Steps : Move(g, l) /\ (l = "record" => g.job.c \in files')
      BY <2>5
    <3>2. \A h \in handling' : h \in handling \/ h = [g EXCEPT !.pc = l]
      BY <3>1 DEF Move
    <3>3. [g EXCEPT !.pc = l].job = g.job /\ [g EXCEPT !.pc = l].pc = l
      BY <2>3, HandlingsAreTyped
    <3> QED BY <3>1, <3>2, <3>3
  <2>7. \A c \in converted' : c \in converted \/ c \in files
    BY <1>1, <2>2 DEF FilesAreOwned, Exists
  <2>8. UploadsAlone' /\ FilesAreOwned'
    <3>1. files \subseteq files' /\ files' \subseteq files \cup Conversion
      BY <2>1, <2>3
    <3>2. WorkStep
      BY <2>1, <2>6, <2>7, <3>1 DEF WorkStep
    <3> QED BY <1>1, <2>4, <3>2, WorkersKeepFiles
  <2>9. JobStaysAccounted
    <3>1. CASE Goes("convert") \/ Goes("record")
      <4>1. PICK l \in {"convert", "record"} : Goes(l)
        BY <3>1
      <4>2. l \in Steps /\ l # "release"
        BY DEF Steps
      <4> QED BY <1>2, <2>1, <4>1, <4>2, GoingOnKeepsJobs
    <3>2. CASE Records
      BY <1>2, <2>1, <3>2, RecordedJobsEnd
    <3>3. CASE Fails
      <4>1. faults' = 0 => faults = 0
        BY <1>1, <2>4
      <4> QED BY <1>2, <2>1, <3>3, <4>1, FailedJobsWait
    <3> QED BY <2>2, <3>1, <3>2, <3>3
  <2> QED BY <1>1, <2>1, <2>4, <2>8, <2>9
<1>11. ASSUME NEW g \in handling, ReleaseLock(g) PROVE Kept
  <2>1. /\ UNCHANGED <<medium, converted, files, running>> /\ UNCHANGED requestVars
        /\ handling' = handling \ {g}
    BY <1>11 DEF ReleaseLock, mediaRows
  <2>2. UploadsAlone' /\ FilesAreOwned'
    BY <1>4, <2>1
  <2> QED BY <1>1, <1>2, <1>5, <1>11, <2>1, <2>2, ReleasedLocksAreFree
<1>12. ASSUME \/ \E c \in spawned : EnqueueFails(c)
              \/ \E c \in locks : LockExpires(c)
              \/ ConverterStop
       PROVE  Kept
  <2>1. /\ UNCHANGED <<medium, converted, files, convQueue, polled, convCh, handling, gaveUp>>
        /\ ConversionFault /\ spawned' \subseteq spawned /\ later' \subseteq later
    BY <1>12 DEF EnqueueFails, LockExpires, ConverterStop, mediaRows
  <2>2. UploadsAlone' /\ FilesAreOwned'
    BY <1>4, <2>1
  <2>3. faults' \in Nat /\ faults' > 0
    BY <1>5, <2>1
  <2>4. JobStaysAccounted
    BY <1>2, <2>1, <2>3, FaultsTakeJobs
  <2> QED BY <2>2, <2>3, <2>4
<1>13. ASSUME StartAgain \/ ConverterCrash PROVE Kept
  <2>1. /\ UNCHANGED <<medium, converted, files, convQueue, gaveUp>>
        /\ req' = [r \in Slots |-> Idle] /\ running'
        /\ spawned' = {} /\ polled' = <<>> /\ convCh' = <<>> /\ handling' = {} /\ later' = {}
    BY <1>13 DEF StartAgain, ConverterCrash, ConverterRestart, mediaRows
  <2>2. faults' \in Nat /\ faults' >= faults /\ faults' > 0
    BY <1>1, <1>13 DEF StartAgain, ConverterCrash
  <2>3. UploadsAlone' /\ FilesAreOwned'
    <3>1. WorkStep
      BY <1>1, <2>1, <2>2 DEF WorkStep, FilesAreOwned
    <3> QED BY <1>1, <2>2, <3>1, WorkersKeepFiles
  <2>4. JobStaysAccounted
    BY <1>2, <2>1, <2>2, FaultsTakeJobs
  <2> QED BY <2>1, <2>3, <2>4
<1>14. Kept
  BY <1>3, <1>6, <1>7, <1>8, <1>9, <1>10, <1>11, <1>12, <1>13 DEF ConversionsNext, ConversionStep
<1> QED BY <1>2, <1>14 DEF ConversionsInv, JobStaysAccounted

\* At first there is neither a medium nor a job.
LEMMA ConversionsStart == ConversionsInit /\ RequestsInit => ConversionsInv
<1> SUFFICES ASSUME ConversionsInit, RequestsInit PROVE ConversionsInv
  OBVIOUS
<1>1. ConversionsTypeOK
  <2>1. <<>> \in Seq(ConversionJob) /\ Len(<<>>) <= 1
    OBVIOUS
  <2> QED BY <2>1, RequestBoundsAssumption
          DEF ConversionsInit, RequestsInit, ConversionsTypeOK, RequestsAre
<1>2. IsFiniteSet(handling) /\ IsFiniteSet(later) /\ (faults = 0 => running)
  BY FS_EmptySet DEF ConversionsInit
<1>3. UploadsAlone /\ FilesAreOwned
  BY DEF ConversionsInit, RequestsInit, UploadsAlone, FilesAreOwned, Upload, Idle, At, Exists
<1>4. ASSUME NEW c \in Conversion PROVE JobIsAccounted(c) /\ LocksAreOwned(c)
  <2>1. c[1] \in Media
    BY DEF Conversion
  <2>2. /\ JobsIn(<<>>, c) = 0 /\ Making(handling, c) = {} /\ Delayed(later, c) = {}
        /\ Started(spawned, c) = 0 /\ converted \cap {c} = {}
    BY JobsOfNone DEF ConversionsInit, Making, Delayed, Started
  <2>3. JobsOf(c) = 0 /\ Cardinality(converted \cap {c}) = 0
    <3>1. JobSum(c)
      BY <1>1, <1>2, JobSums
    <3> QED BY <2>2, <3>1, FS_EmptySet DEF ConversionsInit, JobSum
  <2>4. JobIsAccounted(c)
    BY <2>1, <2>3 DEF ConversionsInit, JobIsAccounted
  <2>5. LocksAreOwned(c)
    BY DEF ConversionsInit, LocksAreOwned
  <2> QED BY <2>4, <2>5
<1> QED BY <1>1, <1>2, <1>3, <1>4 DEF ConversionsInv

\* The inductive invariant holds what MediaAccounted promises.
LEMMA MediaIsAccounted == ConversionsInv => MediaAccounted
<1> SUFFICES ASSUME ConversionsInv PROVE MediaAccounted
  OBVIOUS
<1>1. ASSUME NEW c \in Conversion
      PROVE  /\ JobsOf(c) + Cardinality(converted \cap {c}) <= 1
             /\ faults = 0 /\ medium[c[1]].st # "none"
                => JobsOf(c) = 1 \/ c \in converted \/ c \in gaveUp
             /\ faults = 0 /\ c \in locks
                => \/ \E g \in handling : g.job.c = c
                   \/ \E i \in DOMAIN convCh : convCh[i].c = c
             /\ c \in converted => Exists(c)
  BY DEF ConversionsInv, JobIsAccounted, LocksAreOwned, FilesAreOwned
<1>2. ASSUME NEW m \in Media
      PROVE  /\ m \in ListMedia => HandleGetSignedURL(m, {}) # {}
             /\ \A url \in HandleGetSignedURL(m, {}) : Download(url) = {m}
             /\ faults = 0 /\ Exists(m) /\ medium[m].st = "none"
                => \E r \in Slots : At(r, "create") /\ req[r].m = m
  <2>1. FilesAreOwned
    BY DEF ConversionsInv
  <2>2. m \in ListMedia => HandleGetSignedURL(m, {}) # {}
    BY DEF ListMedia, HandleGetSignedURL, GetByID
  <2>3. ASSUME NEW url \in HandleGetSignedURL(m, {}) PROVE Download(url) = {m}
    <3>1. url = GetSignedURL(m, {}) /\ medium[m].st = "live"
      BY <2>3 DEF HandleGetSignedURL, GetByID, FindByModelTypeAndID
    <3>2. url.m = m /\ url.n = {} /\ Validate(url)
      BY <3>1 DEF GetSignedURL, Validate
    <3>3. {url.m} \X url.n \cap converted = {}
      BY <3>2
    <3>4. m \in files
      BY <2>1, <3>1 DEF FilesAreOwned, Exists
    <3> QED BY <3>1, <3>2, <3>3, <3>4 DEF Download
  <2> QED BY <2>1, <2>2, <2>3 DEF FilesAreOwned
<1> QED BY <1>1, <1>2 DEF MediaAccounted

\* Steps of others change nothing of it.
LEMMA ConversionInvSteps ==
    ConversionsInv /\ [ConversionsNext]_<<conversionVars, requestVars>> => ConversionsInv'
<1>1. ASSUME ConversionsInv, UNCHANGED <<conversionVars, requestVars>> PROVE ConversionsInv'
  <2>1. UNCHANGED <<medium, files, converted, spawned, convQueue, locks, polled, convCh, handling,
                    later, running, gaveUp, req, begun, faults>>
    BY <1>1 DEF conversionVars, requestVars
  <2>2. ConversionsTypeOK' /\ UploadsAlone' /\ FilesAreOwned'
    BY <1>1, <2>1
    DEF ConversionsInv, ConversionsTypeOK, RequestsAre, UploadsAlone, FilesAreOwned, At, Exists,
        Others
  <2>3. ASSUME NEW c \in Conversion PROVE JobIsAccounted(c)' /\ LocksAreOwned(c)'
    BY <1>1, <2>1 DEF ConversionsInv, JobIsAccounted, LocksAreOwned, JobsOf, MadeBy
  <2> QED BY <1>1, <2>1, <2>2, <2>3 DEF ConversionsInv
<1> QED BY <1>1, ConversionSteps

-----------------------------------------------------------------------------
(* Beside each other *)

\* Where there was no upload there is nothing to account for.
LEMMA NoMediaIsAccounted == ConversionsInit => MediaAccounted
<1> SUFFICES ASSUME ConversionsInit PROVE MediaAccounted
  OBVIOUS
<1>1. ASSUME NEW c \in Conversion
      PROVE  /\ JobsOf(c) + Cardinality(converted \cap {c}) <= 1
             /\ medium[c[1]].st = "none" /\ c \notin locks /\ c \notin converted
  <2>1. MadeBy(c) = {} /\ {j \in later : j.c = c} = {} /\ spawned \cap {c} = {}
        /\ converted \cap {c} = {} /\ c[1] \in Media
    BY DEF ConversionsInit, MadeBy, Conversion
  <2>2. JobsOf(c) = 0
    <3>1. JobsIn(convQueue, c) = 0 /\ JobsIn(polled, c) = 0 /\ JobsIn(convCh, c) = 0
      BY JobsOfNone DEF ConversionsInit
    <3> QED BY <2>1, <3>1, FS_EmptySet DEF JobsOf
  <2> QED BY <2>1, <2>2, FS_EmptySet DEF ConversionsInit
<1>2. ASSUME NEW m \in Media
      PROVE  HandleGetSignedURL(m, {}) = {} /\ m \notin ListMedia /\ ~Exists(m)
  BY DEF ConversionsInit, HandleGetSignedURL, GetByID, ListMedia, FindByModelTypeAndID, Exists
<1> QED BY <1>1, <1>2 DEF MediaAccounted

\* Of the component in scope, the inductive invariant; the media of the others are as
\* they were.
WorkersInv ==
    /\ scope = "email" => EmailInv
    /\ scope = "permissions" => PermissionCacheInv
    /\ scope = "imports" => ImportJobsInv
    /\ IF scope = "conversions" THEN ConversionsInv ELSE ConversionsInit

\* FilesAccounted: a conversion is in one place at a time, none is lost, each file is of a medium,
\* of a conversion or of a request in progress, and a link leads to the medium it was made for:
\* service/media.go, conversion/worker.go and handler.go, for any media, conversions, workers,
\* requests, failures and crashes; and what gets on by itself keeps its types.
THEOREM FilesAlwaysAccounted == WorkersSpec => []FilesAccounted
<1>1. WorkersInit => WorkersInv
  BY EmailStarts, PermissionsStart, ImportsStart, ConversionsStart DEF WorkersInit, WorkersInv
<1>2. /\ WorkersInv
      /\ [WorkersNext]_<<emailVars, permVars, importVars, conversionVars, allVars, requestVars,
                       scope>>
      => WorkersInv'
  <2> SUFFICES
        ASSUME WorkersInv,
               [WorkersNext]_<<emailVars, permVars, importVars, conversionVars, allVars, requestVars,
                                scope>>
        PROVE  WorkersInv'
    OBVIOUS
  <2>1. scope' = scope
    BY DEF WorkersNext, Within
  <2>2. ASSUME scope = "email" PROVE EmailInv'
    <3>1. [EmailNext]_emailVars
      BY <2>2 DEF WorkersNext
    <3> QED BY <2>2, <3>1, EmailInvSteps DEF WorkersInv
  <2>3. ASSUME scope = "permissions" PROVE PermissionCacheInv'
    <3>1. [PermissionCacheNext]_<<permVars, requestVars>>
      BY <2>3 DEF WorkersNext
    <3> QED BY <2>3, <3>1, PermissionInvSteps DEF WorkersInv
  <2>4. ASSUME scope = "imports" PROVE ImportJobsInv'
    <3>1. [ImportJobsNext]_<<importVars, requestVars>>
      BY <2>4 DEF WorkersNext
    <3> QED BY <2>4, <3>1, ImportInvSteps DEF WorkersInv
  <2>5. ASSUME scope = "conversions" PROVE ConversionsInv'
    <3>1. [ConversionsNext]_<<conversionVars, requestVars>>
      BY <2>5 DEF WorkersNext
    <3> QED BY <2>5, <3>1, ConversionInvSteps DEF WorkersInv
  <2>6. ASSUME scope # "conversions" PROVE ConversionsInit'
    <3>1. UNCHANGED conversionVars
      BY <2>6 DEF WorkersNext
    <3> QED BY <2>6, <3>1 DEF WorkersInv, ConversionsInit, conversionVars
  <2> QED BY <2>1, <2>2, <2>3, <2>4, <2>5, <2>6 DEF WorkersInv
<1>3. WorkersInv => FilesAccounted
  <2> SUFFICES ASSUME WorkersInv PROVE FilesAccounted
    OBVIOUS
  <2>1. MediaAccounted
    BY MediaIsAccounted, NoMediaIsAccounted DEF WorkersInv
  <2> QED BY <2>1
          DEF WorkersInv, FilesAccounted, EmailInv, PermissionCacheInv, ImportJobsInv,
              ConversionsInv
<1> QED BY <1>1, <1>2, <1>3, PTL DEF WorkersSpec

=============================================================================
