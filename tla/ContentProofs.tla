---------------------------- MODULE ContentProofs ----------------------------
(***************************************************************************)
(* Proofs about what the users of an organization write, one section per   *)
(* component: versions of files, news, comments, invoices, tags, searches. *)
(* Each has an inductive invariant that gives its promises for any number  *)
(* of requests, rows and errors, and what the run content checks of them   *)
(* is put together from these.                                             *)
(***************************************************************************)
EXTENDS SwitchesProofs

USE DEF Versions

\* Only request r changes, and stays a request.
Alone(r) ==
    /\ task' \in [Requests -> Request]
    /\ \A q \in Requests : q # r => task'[q] = task[q]

\* A request moved on by TaskGoto keeps what it knows.
Kept(r) == /\ task'[r].v = task[r].v /\ task'[r].cur = task[r].cur
           /\ task'[r].sum = task[r].sum

\* The ranges of the fields.
FieldsOK ==
    /\ \A q \in Requests :
         /\ task[q] \in Request
         /\ task[q].pc \in VersionPC
         /\ task[q].v \in 0..(MaxUploads + 2) /\ task[q].cur \in 0..(MaxUploads + 2)
         /\ task[q].file \in Nat /\ task[q].sum \in Sums
    /\ \A v \in Versions :
         /\ rows[v].st \in {"none", "live", "deleted"}
         /\ rows[v].file \in Nat /\ rows[v].sum \in Sums
    /\ current \in Versions /\ stored \in 0..MaxUploads /\ MaxUploads \in Nat
    /\ versionFaults \in 0..MaxVersionFaults /\ MaxVersionFaults \in Nat

\* What VersionTypeOK says of single fields.
LEMMA TypedFields == VersionTypeOK => FieldsOK
BY VersionBoundsAssumption DEF VersionTypeOK, FieldsOK, Request, Row

\* The request that has ended.
LEMMA NoRequestFields ==
    /\ NoRequest \in Request
    /\ NoRequest.pc = "idle" /\ NoRequest.v = 0 /\ NoRequest.cur = 0
    /\ NoRequest.file = 0 /\ NoRequest.sum = NoSum
BY VersionBoundsAssumption DEF NoRequest, Request, VersionPC, Sums

\* The ways a step changes a request.
LEMMA GotoEffect ==
    ASSUME VersionTypeOK, NEW r \in Requests, NEW label \in VersionPC, TaskGoto(r, label)
    PROVE  /\ Alone(r) /\ Kept(r)
           /\ task'[r].pc = label /\ task'[r].file = task[r].file
BY DEF VersionTypeOK, TaskGoto, Alone, Kept, Request

\* The request ends.
LEMMA FinishEffect ==
    ASSUME VersionTypeOK, NEW r \in Requests, TaskDone(r)
    PROVE  /\ Alone(r)
           /\ task'[r].pc = "idle" /\ task'[r].v = 0 /\ task'[r].cur = 0 /\ task'[r].file = 0
BY NoRequestFields DEF VersionTypeOK, TaskDone, Alone

\* A request begins, with what FindByID returned.
LEMMA FindEffect ==
    ASSUME VersionTypeOK, NEW r \in Requests, NEW label \in VersionPC,
           NEW v \in 0..(MaxUploads + 2), NEW x \in Sums, Find(r, label, v, x)
    PROVE  /\ Alone(r)
           /\ task'[r].pc = label /\ task'[r].v = v /\ task'[r].cur = current
           /\ task'[r].file = 0 /\ task'[r].sum = x
<1>1. current \in 0..(MaxUploads + 2)
  BY VersionBoundsAssumption DEF VersionTypeOK
<1> DEFINE y == [pc |-> label, v |-> v, cur |-> current, file |-> 0, sum |-> x]
<1>2. y \in Request
  BY <1>1 DEF Request
<1>. QED
  BY <1>2 DEF VersionTypeOK, Find, Alone

\* A request takes on a file.
LEMMA FileEffect ==
    ASSUME VersionTypeOK, NEW r \in Requests, NEW label \in VersionPC, NEW n \in Nat,
           task' = [task EXCEPT ![r].pc = label, ![r].file = n]
    PROVE  /\ Alone(r) /\ Kept(r)
           /\ task'[r].pc = label /\ task'[r].file = n
<1> DEFINE x == [task[r] EXCEPT !.pc = label]
<1> DEFINE y == [x EXCEPT !.file = n]
<1>1. task[r] \in Request /\ task \in [Requests -> Request]
  BY DEF VersionTypeOK
<1>2. /\ x \in Request /\ x.pc = label
      /\ x.v = task[r].v /\ x.cur = task[r].cur /\ x.sum = task[r].sum
  BY <1>1 DEF Request
<1>3. /\ y \in Request /\ y.pc = label /\ y.file = n
      /\ y.v = task[r].v /\ y.cur = task[r].cur /\ y.sum = task[r].sum
  BY <1>2 DEF Request
<1>4. task' = [task EXCEPT ![r] = y]
  BY <1>1
<1>. QED
  BY <1>1, <1>3, <1>4 DEF Alone, Kept

\* Store: the file that was just stored.
LEMMA StoreEffect ==
    ASSUME VersionTypeOK, NEW r \in Requests, Store(r)
    PROVE  /\ Alone(r) /\ Kept(r)
           /\ task'[r].pc = "create" /\ task'[r].file = stored + 1
<1>1. stored + 1 \in Nat /\ "create" \in VersionPC
  BY VersionBoundsAssumption DEF VersionTypeOK, VersionPC
<1>2. task' = [task EXCEPT ![r].pc = "create", ![r].file = stored + 1]
  BY DEF Store
<1>. QED
  BY <1>1, <1>2, FileEffect

\* DeleteCheck: the file of the row that was found.
LEMMA DeleteCheckEffect ==
    ASSUME VersionTypeOK, NEW r \in Requests, DeleteCheck(r), Expendable(r)
    PROVE  /\ Alone(r) /\ Kept(r)
           /\ task'[r].pc = "delete" /\ task'[r].file = rows[task[r].v].file
<1>1. rows[task[r].v].file \in Nat /\ "delete" \in VersionPC
  BY TypedFields DEF Expendable, Live, FieldsOK, VersionPC
<1>2. task' = [task EXCEPT ![r].pc = "delete", ![r].file = rows[task[r].v].file]
  BY DEF DeleteCheck
<1>. QED
  BY <1>1, <1>2, FileEffect

\* The same facts, for every label at once.
Moves(r, label) == /\ Alone(r) /\ Kept(r)
                   /\ task'[r].pc = label /\ task'[r].file = task[r].file
Ends(r) ==
    /\ Alone(r)
    /\ task'[r].pc = "idle" /\ task'[r].v = 0 /\ task'[r].cur = 0 /\ task'[r].file = 0
Begins(r, label, v, x) ==
    /\ Alone(r)
    /\ task'[r].pc = label /\ task'[r].v = v /\ task'[r].cur = current
    /\ task'[r].file = 0 /\ task'[r].sum = x

\* What each way of moving on does to the task.
LabelEffects(r) ==
    /\ \A label \in VersionPC : TaskGoto(r, label) => Moves(r, label)
    /\ TaskDone(r) => Ends(r)
    /\ \A label \in VersionPC, v \in 0..(MaxUploads + 2), x \in Sums :
         Find(r, label, v, x) => Begins(r, label, v, x)

\* The facts about TaskGoto, TaskDone and Find, for every label.
LEMMA RequestEffects == ASSUME VersionTypeOK, NEW r \in Requests PROVE LabelEffects(r)
BY GotoEffect, FinishEffect, FindEffect DEF LabelEffects, Moves, Ends, Begins

\* The version a request is given is in range: an upload begins only while there
\* is room for its file.
LEMMA UploadNumber ==
    ASSUME VersionTypeOK, Bounded, NEW r \in Requests, NEW x \in Contents,
           stored < MaxUploads, Find(r, "count", current + 1, x)
    PROVE  Begins(r, "count", current + 1, x)
<1>1. current + 1 \in 0..(MaxUploads + 2)
  BY VersionBoundsAssumption DEF VersionTypeOK, Bounded
<1>. QED
  BY <1>1, RequestEffects DEF LabelEffects, VersionPC, Sums

Inserts(r) == rows' = [rows EXCEPT ![task[r].v] =
                         [st |-> "live", file |-> task[r].file, sum |-> task[r].sum]]

Retires(r) == rows' = [rows EXCEPT ![task[r].v].st = "deleted"]

\* What each action does to its request: where it was, and where it is.
Effect(r) ==
    /\ UploadFind(r) => \E x \in Contents : Begins(r, "count", current + 1, x)
    /\ UploadCount(r) =>
         /\ TaskAt(r, "count")
         /\ \/ (\E v \in Versions : Live(v)) /\ Moves(r, "checkcurrent")
            \/ Moves(r, "retro")
    /\ CreateRetroactiveV1(r) => TaskAt(r, "retro") /\ Moves(r, "checkcurrent")
    /\ CheckCurrent(r) => TaskAt(r, "checkcurrent") /\ (Ends(r) \/ Moves(r, "checksum"))
    /\ CheckChecksum(r) =>
         /\ TaskAt(r, "checksum")
         /\ Ends(r) \/ (Moves(r, "store") /\ (~KnownContent(r) \/ Fault))
    /\ Store(r) => /\ TaskAt(r, "store") /\ Alone(r) /\ Kept(r)
                   /\ task'[r].pc = "create" /\ task'[r].file = stored + 1
    /\ CreateVersion(r) =>
         /\ TaskAt(r, "create")
         /\ \/ ~Taken(task[r].v) /\ Inserts(r) /\ Moves(r, "advance")
            \/ rows' = rows /\ Moves(r, "erase")
    /\ Advance(r) =>
         /\ TaskAt(r, "advance")
         /\ \/ Unmoved(r) /\ current' = task[r].v /\ Ends(r)
            \/ (~Unmoved(r) \/ Fault) /\ current' = current /\ Moves(r, "retract")
    /\ Retract(r) => /\ TaskAt(r, "retract") /\ Moves(r, "erase")
                     /\ Retires(r) \/ (rows' = rows /\ task[r].file \in stranded' /\ Fault)
    /\ Erase(r) => TaskAt(r, "erase") /\ Ends(r)
    /\ RestoreFind(r) => \E v \in Versions : Begins(r, "restorefind", v, NoSum)
    /\ RestoreCheck(r) => /\ TaskAt(r, "restorefind")
                          /\ Ends(r) \/ (Chosen(r) /\ Moves(r, "restore"))
    /\ Restore(r) => TaskAt(r, "restore") /\ Ends(r)
    /\ DeleteFind(r) => \E v \in Versions : Begins(r, "deletefind", v, NoSum)
    /\ DeleteCheck(r) =>
         /\ TaskAt(r, "deletefind") /\ Alone(r)
         /\ \/ Ends(r)
            \/ /\ Expendable(r) /\ Kept(r)
               /\ task'[r].pc = "delete" /\ task'[r].file = rows[task[r].v].file
    /\ DeleteRow(r) => /\ TaskAt(r, "delete")
                       /\ (Ends(r) /\ rows' = rows) \/ (Moves(r, "erase") /\ Retires(r))
    /\ MetadataFind(r) => Begins(r, "save", 0, NoSum)
    /\ MetadataSave(r) => TaskAt(r, "save") /\ Ends(r)
    /\ DeleteMediaFind(r) => Begins(r, "remove", 0, NoSum)
    /\ DeleteMedia(r) => TaskAt(r, "remove") /\ Ends(r)
    /\ Abandon(r) => ~TaskAt(r, "idle") /\ Ends(r)

\* The summary of the actions is right.
LEMMA StepEffect ==
    ASSUME VersionTypeOK, Bounded, NEW r \in Requests
    PROVE  Effect(r)
<1>0. /\ \A label \in VersionPC : TaskGoto(r, label) => Moves(r, label)
      /\ TaskDone(r) => Ends(r) /\ Alone(r)
  BY RequestEffects DEF LabelEffects, Ends
<1>1. UploadFind(r) => \E x \in Contents : Begins(r, "count", current + 1, x)
  BY UploadNumber DEF UploadFind
<1>2. /\ UploadCount(r) =>
           /\ TaskAt(r, "count")
           /\ \/ (\E v \in Versions : Live(v)) /\ Moves(r, "checkcurrent")
              \/ Moves(r, "retro")
      /\ CreateRetroactiveV1(r) => TaskAt(r, "retro") /\ Moves(r, "checkcurrent")
      /\ CheckCurrent(r) => TaskAt(r, "checkcurrent") /\ (Ends(r) \/ Moves(r, "checksum"))
      /\ CheckChecksum(r) =>
           /\ TaskAt(r, "checksum")
           /\ Ends(r) \/ (Moves(r, "store") /\ (~KnownContent(r) \/ Fault))
  BY <1>0 DEF UploadCount, CreateRetroactiveV1, CheckCurrent, CheckChecksum, VersionPC
<1>3. Store(r) => /\ TaskAt(r, "store") /\ Alone(r) /\ Kept(r)
                  /\ task'[r].pc = "create" /\ task'[r].file = stored + 1
  BY StoreEffect DEF Store
<1>4. /\ CreateVersion(r) =>
           /\ TaskAt(r, "create")
           /\ \/ ~Taken(task[r].v) /\ Inserts(r) /\ Moves(r, "advance")
              \/ rows' = rows /\ Moves(r, "erase")
      /\ Advance(r) =>
           /\ TaskAt(r, "advance")
           /\ \/ Unmoved(r) /\ current' = task[r].v /\ Ends(r)
              \/ (~Unmoved(r) \/ Fault) /\ current' = current /\ Moves(r, "retract")
      /\ Retract(r) => /\ TaskAt(r, "retract") /\ Moves(r, "erase")
                       /\ Retires(r) \/ (rows' = rows /\ task[r].file \in stranded' /\ Fault)
      /\ Erase(r) => TaskAt(r, "erase") /\ Ends(r)
  BY <1>0 DEF CreateVersion, Inserts, Advance, Retract, Retires, Erase, VersionPC
<1>5. /\ RestoreCheck(r) => /\ TaskAt(r, "restorefind")
                            /\ Ends(r) \/ (Chosen(r) /\ Moves(r, "restore"))
      /\ Restore(r) => TaskAt(r, "restore") /\ Ends(r)
      /\ DeleteRow(r) => /\ TaskAt(r, "delete")
                         /\ (Ends(r) /\ rows' = rows) \/ (Moves(r, "erase") /\ Retires(r))
  BY <1>0 DEF RestoreCheck, Restore, DeleteRow, Retires, VersionPC
<1>6. DeleteCheck(r) =>
        /\ TaskAt(r, "deletefind") /\ Alone(r)
        /\ \/ Ends(r)
           \/ /\ Expendable(r) /\ Kept(r)
              /\ task'[r].pc = "delete" /\ task'[r].file = rows[task[r].v].file
  <2>1. CASE Expendable(r)
    BY <2>1, DeleteCheckEffect DEF DeleteCheck
  <2>2. CASE ~Expendable(r)
    BY <1>0, <2>2 DEF DeleteCheck
  <2>. QED
    BY <2>1, <2>2
<1>7. /\ RestoreFind(r) => \E v \in Versions : Begins(r, "restorefind", v, NoSum)
      /\ DeleteFind(r) => \E v \in Versions : Begins(r, "deletefind", v, NoSum)
      /\ MetadataFind(r) => Begins(r, "save", 0, NoSum)
      /\ DeleteMediaFind(r) => Begins(r, "remove", 0, NoSum)
  <2>1. /\ \A label \in VersionPC, v \in 0..(MaxUploads + 2) :
             Find(r, label, v, NoSum) => Begins(r, label, v, NoSum)
        /\ 0 \in 0..(MaxUploads + 2) /\ Versions \subseteq 0..(MaxUploads + 2)
    BY RequestEffects, VersionBoundsAssumption DEF LabelEffects, Sums
  <2>. QED
    BY <2>1 DEF RestoreFind, DeleteFind, MetadataFind, DeleteMediaFind, VersionPC
<1>8. /\ MetadataSave(r) => TaskAt(r, "save") /\ Ends(r)
      /\ DeleteMedia(r) => TaskAt(r, "remove") /\ Ends(r)
      /\ Abandon(r) => ~TaskAt(r, "idle") /\ Ends(r)
  BY <1>0 DEF MetadataSave, DeleteMedia, Abandon
<1>. QED
  BY <1>1, <1>2, <1>3, <1>4, <1>5, <1>6, <1>7, <1>8 DEF Effect

\* Each step changes one request.
LEMMA StepAlone ==
    ASSUME VersionTypeOK, Bounded, NEW r \in Requests, VersionStep(r)
    PROVE  Alone(r)
BY StepEffect DEF VersionStep, Effect, Moves, Ends, Begins

\* What each action leaves alone.  Rows: all but two inserts and two soft deletes.
LEMMA RowsAlone ==
    ASSUME NEW r \in Requests, VersionStep(r),
           ~CreateRetroactiveV1(r), ~CreateVersion(r), ~Retract(r), ~DeleteRow(r)
    PROVE  rows' = rows
BY DEF VersionStep, UploadFind, UploadCount, CheckCurrent, CheckChecksum, Store, Advance,
   Erase, RestoreFind, RestoreCheck, Restore, DeleteFind, DeleteCheck, MetadataFind,
   MetadataSave, DeleteMediaFind, DeleteMedia, Abandon, Find

\* Files are stored by Store and deleted by Erase.
LEMMA FilesAlone ==
    ASSUME NEW r \in Requests, VersionStep(r), ~Store(r), ~Erase(r)
    PROVE  files' = files
BY DEF VersionStep, UploadFind, UploadCount, CreateRetroactiveV1, CheckCurrent,
   CheckChecksum, CreateVersion, Advance, Retract, RestoreFind, RestoreCheck, Restore,
   DeleteFind, DeleteCheck, DeleteRow, MetadataFind, MetadataSave, DeleteMediaFind,
   DeleteMedia, Abandon, Find

\* Only Store uses up a name.
LEMMA StoredAlone ==
    ASSUME NEW r \in Requests, VersionStep(r), ~Store(r)
    PROVE  stored' = stored
BY DEF VersionStep, UploadFind, UploadCount, CreateRetroactiveV1, CheckCurrent,
   CheckChecksum, CreateVersion, Advance, Retract, Erase, RestoreFind, RestoreCheck,
   Restore, DeleteFind, DeleteCheck, DeleteRow, MetadataFind, MetadataSave,
   DeleteMediaFind, DeleteMedia, Abandon, Find

\* The current version is moved by Advance, Restore and MetadataSave.
LEMMA CurrentAlone ==
    ASSUME NEW r \in Requests, VersionStep(r), ~Advance(r), ~Restore(r), ~MetadataSave(r)
    PROVE  /\ current' = current
           /\ restored' = restored /\ contended' = contended
BY DEF VersionStep, UploadFind, UploadCount, CreateRetroactiveV1, CheckCurrent,
   CheckChecksum, Store, CreateVersion, Retract, Erase, RestoreFind, RestoreCheck,
   DeleteFind, DeleteCheck, DeleteRow, MetadataFind, DeleteMediaFind, DeleteMedia,
   Abandon, Find, history

\* Failures are only counted up, and so are the three histories.
LEMMA HistoryGrows ==
    ASSUME VersionTypeOK, NEW r \in Requests, VersionStep(r)
    PROVE  /\ versionFaults' = versionFaults \/ Fault
           /\ restored => restored'
           /\ contended => contended'
           /\ stranded \subseteq stranded'
BY DEF VersionTypeOK, VersionStep, UploadFind, UploadCount, CreateRetroactiveV1,
   CheckCurrent, CheckChecksum, Store, CreateVersion, Advance, Retract, Erase,
   RestoreFind, RestoreCheck, Restore, DeleteFind, DeleteCheck, DeleteRow, MetadataFind,
   MetadataSave, DeleteMediaFind, DeleteMedia, Abandon, Find, history

\* Every step keeps the types.
LEMMA NextType ==
    ASSUME VersionTypeOK, Bounded, Ordered, NEW r \in Requests, VersionStep(r)
    PROVE  VersionTypeOK'
<1>0. FieldsOK
  BY TypedFields
<1>1. task' \in [Requests -> Request]
  BY StepAlone DEF Alone
<1>2. rows' \in [Versions -> Row]
  <2>1. CASE CreateRetroactiveV1(r)
    <3>1. \A x \in {Original, NoSum} : [st |-> "live", file |-> 0, sum |-> x] \in Row
      BY VersionNamesAssumption DEF Row, Sums
    <3>. QED
      BY <2>1, <3>1 DEF VersionTypeOK, CreateRetroactiveV1
  <2>2. CASE CreateVersion(r)
    <3>1. [st |-> "live", file |-> task[r].file, sum |-> task[r].sum] \in Row
      BY <1>0 DEF FieldsOK, Row
    <3>. QED
      BY <2>2, <3>1 DEF VersionTypeOK, CreateVersion
  <2>3. CASE Retract(r) \/ DeleteRow(r)
    <3>1. \A v \in Versions : [rows[v] EXCEPT !.st = "deleted"] \in Row
      BY DEF VersionTypeOK, Row
    <3>2. \/ rows' = rows
          \/ rows' = [rows EXCEPT ![task[r].v] = [rows[task[r].v] EXCEPT !.st = "deleted"]]
      BY <2>3 DEF Retract, DeleteRow
    <3>. QED
      BY <3>1, <3>2 DEF VersionTypeOK
  <2>. QED
    BY <2>1, <2>2, <2>3, RowsAlone DEF VersionTypeOK
<1>3. stored' \in 0..MaxUploads /\ files' \subseteq 0..stored' /\ stored <= stored'
  <2>1. CASE Store(r)
    <3>1. stored' = stored + 1 /\ files' = files \cup {stored + 1} /\ stored < MaxUploads
      BY <2>1 DEF Store
    <3>2. \A f \in files : f \in 0..stored
      BY DEF VersionTypeOK
    <3>. QED
      BY <1>0, <3>1, <3>2 DEF FieldsOK
  <2>2. CASE Erase(r)
    <3>1. stored' = stored /\ files' \subseteq files
      BY <2>2 DEF Erase
    <3>. QED
      BY <1>0, <3>1 DEF VersionTypeOK, FieldsOK
  <2>3. CASE ~Store(r) /\ ~Erase(r)
    <3>1. stored' = stored /\ files' = files
      BY <2>3, StoredAlone, FilesAlone
    <3>. QED
      BY <1>0, <3>1 DEF VersionTypeOK, FieldsOK
  <2>. QED
    BY <2>1, <2>2, <2>3
<1>4. current' \in Versions
  <2>1. CASE Advance(r)
    BY <1>0, <2>1 DEF Advance, TaskAt, Ordered, FieldsOK
  <2>2. CASE Restore(r)
    BY <1>0, <2>2 DEF Restore, TaskAt, Ordered, FieldsOK
  <2>3. CASE MetadataSave(r)
    BY <1>0, <2>3 DEF MetadataSave, TaskAt, Bounded, FieldsOK
  <2>. QED
    BY <1>0, <2>1, <2>2, <2>3, CurrentAlone DEF FieldsOK
<1>5. versionFaults' \in 0..MaxVersionFaults
  BY <1>0, HistoryGrows DEF Fault, FieldsOK
<1>6. live' \in BOOLEAN
  BY DEF VersionTypeOK, VersionStep, UploadFind, UploadCount, CreateRetroactiveV1,
     CheckCurrent, CheckChecksum, Store, CreateVersion, Advance, Retract, Erase,
     RestoreFind, RestoreCheck, Restore, DeleteFind, DeleteCheck, DeleteRow, MetadataFind,
     MetadataSave, DeleteMediaFind, DeleteMedia, Abandon, Find
<1>7. restored' \in BOOLEAN /\ contended' \in BOOLEAN
  <2>1. CASE Advance(r) \/ Restore(r) \/ MetadataSave(r)
    BY <2>1 DEF VersionTypeOK, Advance, Restore, MetadataSave
  <2>. QED
    BY <2>1, CurrentAlone DEF VersionTypeOK
<1>8. stranded' \subseteq Nat
  <2>1. CASE Retract(r)
    BY <1>0, <2>1 DEF VersionTypeOK, Retract, FieldsOK
  <2>2. CASE ~Retract(r)
    BY <2>2 DEF VersionTypeOK, VersionStep, UploadFind, UploadCount, CreateRetroactiveV1,
       CheckCurrent, CheckChecksum, Store, CreateVersion, Advance, Erase, RestoreFind,
       RestoreCheck, Restore, DeleteFind, DeleteCheck, DeleteRow, MetadataFind,
       MetadataSave, DeleteMediaFind, DeleteMedia, Abandon, Find, history
  <2>. QED
    BY <2>1, <2>2
<1>. QED
  BY <1>1, <1>2, <1>3, <1>4, <1>5, <1>6, <1>7, <1>8 DEF VersionTypeOK

\* A number in use stays in use, with its file and its content; only the two
\* inserts take a number, and no row comes back to life.
LEMMA RowsChange ==
    ASSUME VersionTypeOK, Bounded, Ordered, NEW r \in Requests, VersionStep(r),
           NEW v \in Versions
    PROVE  /\ Taken(v) => /\ Taken(v)'
                          /\ rows'[v].file = rows[v].file /\ rows'[v].sum = rows[v].sum
           /\ Taken(v)' => \/ Taken(v)
                           \/ CreateRetroactiveV1(r) /\ v = 1
                           \/ CreateVersion(r) /\ v = task[r].v
           /\ Live(v)' => Live(v) \/ ~Taken(v)
<1>1. CASE CreateRetroactiveV1(r)
  BY <1>1 DEF VersionTypeOK, CreateRetroactiveV1, Taken, Live
<1>2. CASE CreateVersion(r)
  BY <1>2 DEF VersionTypeOK, CreateVersion, Taken, Live
<1>3. CASE Retract(r) \/ DeleteRow(r)
  <2> DEFINE w == task[r].v
  <2>1. w \in Versions /\ Taken(w)
    BY <1>3 DEF Ordered, Retract, DeleteRow, TaskAt
  <2>2. \/ rows' = rows
        \/ rows' = [rows EXCEPT ![w] = [rows[w] EXCEPT !.st = "deleted"]]
    BY <1>3 DEF Retract, DeleteRow
  <2> DEFINE x == [rows[w] EXCEPT !.st = "deleted"]
  <2>3. x.st = "deleted" /\ x.file = rows[w].file /\ x.sum = rows[w].sum
    BY <2>1 DEF VersionTypeOK, Row
  <2> HIDE DEF x, w
  <2>4. rows' = rows \/ rows' = [rows EXCEPT ![w] = x]
    BY <2>2 DEF x
  <2>. QED
    BY <2>1, <2>3, <2>4 DEF VersionTypeOK, Taken, Live
<1>. QED
  BY <1>1, <1>2, <1>3, RowsAlone DEF Taken, Live

-----------------------------------------------------------------------------
\* What Bounded says of one request.
BoundedRequest(q) ==
    /\ task[q].cur <= stored + 1
    /\ task[q].pc # "idle" => task[q].cur >= 1
    /\ task[q].pc \in Checked \cup {"count", "retro"} =>
         task[q].v = task[q].cur + 1 /\ task[q].sum # NoSum
    /\ task[q].pc \in {"create", "advance", "retract"} => task[q].v <= stored + 1

\* The number a request takes is one more than what it read as the current one.
LEMMA NextBoundedRequest ==
    ASSUME VersionTypeOK, Bounded, Ordered, NEW r \in Requests, VersionStep(r)
    PROVE  BoundedRequest(r)'
<1>0. FieldsOK /\ Effect(r) /\ BoundedRequest(r)
  BY TypedFields, StepEffect DEF Bounded, BoundedRequest
<1>1. /\ stored \in Nat /\ stored' \in Nat /\ stored <= stored'
      /\ task[r].v \in Nat /\ task[r].cur \in Nat /\ current \in Nat /\ current >= 1
      /\ current <= stored + 1 /\ 0 <= stored' + 1
  <2>1. stored' = stored \/ stored' = stored + 1
    BY StoredAlone DEF Store
  <2>. QED
    BY <1>0, <2>1 DEF FieldsOK, Bounded
<1>2. CASE UploadFind(r)
  <2>1. PICK x \in Contents : Begins(r, "count", current + 1, x)
    BY <1>2, <1>0 DEF Effect
  <2>2. x # NoSum /\ stored' = stored
    BY <1>2, VersionNamesAssumption DEF UploadFind, Find
  <2>. QED
    BY <1>0, <2>1, <2>2 DEF Begins, BoundedRequest, Bounded, FieldsOK, Checked
<1>3. CASE Store(r)
  BY <1>0, <1>3 DEF Effect, TaskAt, Kept, Store, BoundedRequest, FieldsOK, Checked
<1>4. CASE Ends(r)
  BY <1>1, <1>4 DEF Ends, BoundedRequest, Checked
<1>5. CASE UploadCount(r) \/ CreateRetroactiveV1(r) \/ CheckCurrent(r) \/ CheckChecksum(r)
  BY <1>0, <1>1, <1>4, <1>5 DEF Effect, TaskAt, Kept, Moves, BoundedRequest, Checked
<1>6. CASE CreateVersion(r) \/ Advance(r) \/ Retract(r) \/ DeleteRow(r) \/ RestoreCheck(r)
           \/ DeleteCheck(r)
  BY <1>0, <1>1, <1>4, <1>6 DEF Effect, TaskAt, Kept, Moves, BoundedRequest, Checked
<1>7. CASE RestoreFind(r) \/ DeleteFind(r) \/ MetadataFind(r) \/ DeleteMediaFind(r)
  BY <1>0, <1>1, <1>7 DEF Effect, Begins, BoundedRequest, Checked
<1>. QED
  BY <1>0, <1>2, <1>3, <1>4, <1>5, <1>6, <1>7 DEF VersionStep, Effect

\* Every step keeps Bounded: only Store adds a file, and only the three actions
\* that move the current version could move it too far.
LEMMA NextBounded ==
    ASSUME VersionTypeOK, Bounded, Ordered, NEW r \in Requests, VersionStep(r)
    PROVE  Bounded'
<1>0. FieldsOK /\ Effect(r) /\ \A q \in Requests : BoundedRequest(q)
  BY TypedFields, StepEffect DEF Bounded, BoundedRequest
<1>1. stored' = stored \/ stored' = stored + 1
  BY StoredAlone DEF Store
<1>2. stored \in Nat /\ stored' \in Nat /\ stored <= stored' /\ 1 <= stored' + 1
  BY <1>0, <1>1 DEF FieldsOK
<1>3. current' <= stored' + 1
  <2>1. current' = current \/ current' = task[r].v \/ current' = task[r].cur
    BY CurrentAlone DEF Advance, Restore, MetadataSave
  <2>2. CASE Advance(r)
    <3>1. task[r].v <= stored + 1 /\ task[r].v \in Nat
      BY <1>0, <2>2 DEF Effect, TaskAt, BoundedRequest, FieldsOK
    <3>2. current' = current \/ current' = task[r].v
      BY <2>2 DEF Advance
    <3>. QED
      BY <1>0, <1>2, <3>1, <3>2 DEF Bounded, FieldsOK
  <2>3. CASE Restore(r)
    <3>1. task[r].v \in Versions /\ Taken(task[r].v)
      BY <1>0, <2>3 DEF Effect, TaskAt, Ordered
    <3>2. current' = current \/ current' = task[r].v
      BY <2>3 DEF Restore
    <3>. QED
      BY <1>0, <1>2, <3>1, <3>2 DEF Bounded, FieldsOK
  <2>4. CASE MetadataSave(r)
    BY <1>0, <1>2, <2>4 DEF MetadataSave, BoundedRequest, FieldsOK
  <2>. QED
    BY <1>0, <1>2, <2>2, <2>3, <2>4, CurrentAlone DEF Bounded, FieldsOK
<1>4. ASSUME NEW v \in Versions, Taken(v)' PROVE v <= stored' + 1
  <2>1. CASE Taken(v)
    <3>1. v \in Nat /\ v <= stored + 1
      BY <1>0, <2>1 DEF Bounded, FieldsOK
    <3>2. stored \in Nat /\ stored' \in Nat /\ stored <= stored'
      BY <1>2
    <3>3. \A a \in Nat, b \in Nat, c \in Nat : a <= b + 1 /\ b <= c => a <= c + 1
      OBVIOUS
    <3>. QED
      BY <3>1, <3>2, <3>3
  <2>2. CASE v = 1
    BY <1>2, <2>2
  <2>3. CASE CreateVersion(r) /\ v = task[r].v
    BY <1>0, <1>2, <2>3 DEF Effect, TaskAt, BoundedRequest, FieldsOK
  <2>. QED
    BY <1>4, <2>1, <2>2, <2>3, RowsChange
<1>5. ASSUME NEW q \in Requests, q # r PROVE BoundedRequest(q)'
  <2>1. task'[q] = task[q]
    BY <1>5, StepAlone DEF Alone
  <2>. QED
    BY <1>0, <1>2, <2>1 DEF BoundedRequest, FieldsOK
<1>. QED
  BY <1>3, <1>4, <1>5, NextBoundedRequest DEF Bounded, BoundedRequest

-----------------------------------------------------------------------------
\* What Ordered says of one request.
OrderedRequest(q) ==
    /\ task[q].pc # "idle" => Taken(task[q].cur) \/ task[q].cur = 1
    /\ task[q].pc \in Checked => Taken(task[q].cur)
    /\ task[q].pc \in {"advance", "retract", "restore", "delete"} =>
         task[q].v \in Versions /\ Taken(task[q].v)

\* The versions a request goes by are in use: the current one since the first
\* upload wrote it down, its own since it was inserted or found.
LEMMA NextOrderedRequest ==
    ASSUME VersionTypeOK, Bounded, Ordered, NEW r \in Requests, VersionStep(r)
    PROVE  OrderedRequest(r)'
<1>0. /\ FieldsOK /\ Effect(r) /\ OrderedRequest(r)
      /\ Taken(current) \/ current = 1
      /\ 1 \in Versions
  BY TypedFields, StepEffect, VersionBoundsAssumption DEF Ordered, OrderedRequest
<1>1. \A v \in Versions : Taken(v) => Taken(v)'
  BY RowsChange
<1>2. task[r].pc # "idle" => task[r].cur \in Versions
  BY <1>0 DEF Bounded, FieldsOK
<1>3. CASE Ends(r)
  BY <1>3 DEF Ends, OrderedRequest, Checked
<1>4. CASE UploadFind(r) \/ RestoreFind(r) \/ DeleteFind(r) \/ MetadataFind(r)
           \/ DeleteMediaFind(r)
  <2>1. /\ task'[r].cur = current
        /\ task'[r].pc \in {"count", "restorefind", "deletefind", "save", "remove"}
    BY <1>0, <1>4 DEF Effect, Begins
  <2>2. current \in Versions
    BY <1>0 DEF FieldsOK
  <2>. QED
    BY <1>0, <1>1, <2>1, <2>2 DEF OrderedRequest, Checked, Taken
<1>5. CASE UploadCount(r)
  <2>1. CASE (\E v \in Versions : Live(v)) /\ Moves(r, "checkcurrent")
    <3>1. PICK v \in Versions : Taken(v)
      BY <2>1 DEF Live, Taken
    <3>2. Taken(1)
      BY <1>0, <3>1 DEF Ordered
    <3>. QED
      BY <1>0, <1>1, <1>2, <1>5, <2>1, <3>2
      DEF Effect, TaskAt, Moves, Kept, OrderedRequest, Checked
  <2>2. CASE Moves(r, "retro")
    BY <1>0, <1>1, <1>2, <1>5, <2>2 DEF Effect, TaskAt, Moves, Kept, OrderedRequest, Checked
  <2>. QED
    BY <1>0, <1>5, <2>1, <2>2 DEF Effect
<1>6. CASE CreateRetroactiveV1(r)
  <2>1. Taken(1)'
    <3>1. \/ rows' = rows /\ rows[1].st # "none"
          \/ \E x : rows' = [rows EXCEPT ![1] = [st |-> "live", file |-> 0, sum |-> x]]
      BY <1>6 DEF CreateRetroactiveV1
    <3>2. DOMAIN rows = Versions /\ 1 \in Versions /\ rows = [v \in Versions |-> rows[v]]
      BY <1>0 DEF VersionTypeOK
    <3>3. CASE \E x : rows' = [rows EXCEPT ![1] = [st |-> "live", file |-> 0, sum |-> x]]
      <4>1. PICK x : rows' = [rows EXCEPT ![1] = [st |-> "live", file |-> 0, sum |-> x]]
        BY <3>3
      <4>2. rows'[1] = [st |-> "live", file |-> 0, sum |-> x]
        BY <3>2, <4>1
      <4>. QED
        BY <4>2 DEF Taken
    <3>. QED
      BY <3>1, <3>3 DEF Taken
  <2>. QED
    BY <1>0, <1>1, <1>2, <1>6, <2>1 DEF Effect, TaskAt, Moves, Kept, OrderedRequest, Checked
<1>7. CASE CheckCurrent(r) \/ CheckChecksum(r) \/ Store(r)
  BY <1>0, <1>1, <1>2, <1>3, <1>7 DEF Effect, TaskAt, Moves, Kept, OrderedRequest, Checked
<1>8. CASE CreateVersion(r)
  <2>1. CASE Inserts(r) /\ Moves(r, "advance")
    <3>1. task[r].v \in Versions
      BY <1>0, <1>8 DEF Effect, TaskAt, Bounded, Checked, FieldsOK
    <3>2. Taken(task[r].v)'
      BY <2>1, <3>1 DEF Inserts, Moves, Kept, Taken, VersionTypeOK
    <3>. QED
      BY <1>0, <1>1, <1>2, <1>8, <2>1, <3>1, <3>2
      DEF Effect, TaskAt, Moves, Kept, OrderedRequest, Checked
  <2>2. CASE Moves(r, "erase")
    BY <1>0, <1>1, <1>2, <1>8, <2>2 DEF Effect, TaskAt, Moves, Kept, OrderedRequest, Checked
  <2>. QED
    BY <1>0, <1>8, <2>1, <2>2 DEF Effect
<1>9. CASE Advance(r) \/ Retract(r) \/ DeleteRow(r)
  BY <1>0, <1>1, <1>2, <1>3, <1>9 DEF Effect, TaskAt, Moves, Kept, OrderedRequest, Checked
<1>10. CASE RestoreCheck(r) \/ DeleteCheck(r)
  <2>1. /\ task[r].pc \in {"restorefind", "deletefind"}
        /\ \/ Ends(r)
           \/ /\ Kept(r) /\ task'[r].pc \in {"restore", "delete"}
              /\ Chosen(r) \/ Expendable(r)
    <3>1. CASE RestoreCheck(r)
      BY <1>0, <3>1 DEF Effect, TaskAt, Moves
    <3>2. CASE DeleteCheck(r)
      BY <1>0, <3>2 DEF Effect, TaskAt
    <3>. QED
      BY <1>10, <3>1, <3>2
  <2>2. Chosen(r) \/ Expendable(r) => task[r].v \in Versions /\ Taken(task[r].v)
    BY DEF Chosen, Expendable, Live, Taken
  <2>3. CASE Kept(r) /\ task'[r].pc \in {"restore", "delete"} /\ (Chosen(r) \/ Expendable(r))
    <3>1. task'[r].v \in Versions /\ Taken(task[r].v)'
      BY <1>1, <2>2, <2>3 DEF Kept
    <3>. QED
      BY <1>0, <1>1, <1>2, <2>1, <2>3, <3>1 DEF Kept, OrderedRequest, Checked
  <2>. QED
    BY <1>3, <2>1, <2>3
<1>. QED
  BY <1>0, <1>3, <1>4, <1>5, <1>6, <1>7, <1>8, <1>9, <1>10 DEF VersionStep, Effect

\* Every step keeps Ordered: an upload takes the number after one in use.
LEMMA NextOrdered ==
    ASSUME VersionTypeOK, Bounded, Ordered, NEW r \in Requests, VersionStep(r)
    PROVE  Ordered'
<1>0. FieldsOK /\ Effect(r) /\ \A q \in Requests : OrderedRequest(q)
  BY TypedFields, StepEffect DEF Ordered, OrderedRequest
<1>1. \A v \in Versions : Taken(v) => Taken(v)'
  BY RowsChange
<1>2. ASSUME NEW v \in Versions, NEW w \in Versions, w < v, Taken(v)' PROVE Taken(w)'
  <2>1. CASE Taken(v)
    BY <1>1, <1>2, <2>1 DEF Ordered
  <2>2. CASE v = 1
    BY <1>2, <2>2
  <2>3. CASE CreateVersion(r) /\ v = task[r].v
    <3>1. v = task[r].cur + 1 /\ Taken(task[r].cur) /\ task[r].cur \in Nat
      BY <1>0, <2>3 DEF Effect, TaskAt, Bounded, OrderedRequest, Checked, FieldsOK
    <3>2. w <= task[r].cur /\ task[r].cur \in Versions
      BY <1>0, <1>2, <3>1 DEF FieldsOK
    <3>3. Taken(w)
      BY <3>1, <3>2 DEF Ordered
    <3>. QED
      BY <1>1, <3>3
  <2>. QED
    BY <1>2, <2>1, <2>2, <2>3, RowsChange
<1>3. Taken(current)' \/ current' = 1
  <2>1. CASE Advance(r) \/ Restore(r)
    <3>1. task[r].v \in Versions /\ Taken(task[r].v)
      BY <1>0, <2>1 DEF Effect, TaskAt, OrderedRequest
    <3>2. current' = current \/ current' = task[r].v
      BY <2>1 DEF Advance, Restore
    <3>. QED
      BY <1>0, <1>1, <3>1, <3>2 DEF Ordered, Taken, FieldsOK
  <2>2. CASE MetadataSave(r)
    <3>1. (Taken(task[r].cur) \/ task[r].cur = 1) /\ task[r].cur \in Versions
      BY <1>0, <2>2 DEF Effect, TaskAt, OrderedRequest, Bounded, FieldsOK
    <3>2. current' = task[r].cur
      BY <2>2 DEF MetadataSave
    <3>. QED
      BY <1>1, <3>1, <3>2 DEF Taken
  <2>3. CASE ~Advance(r) /\ ~Restore(r) /\ ~MetadataSave(r)
    BY <1>0, <1>1, <2>3, CurrentAlone DEF Ordered, Taken, FieldsOK
  <2>. QED
    BY <2>1, <2>2, <2>3
<1>4. ASSUME NEW q \in Requests, q # r PROVE OrderedRequest(q)'
  <2>1. task'[q] = task[q]
    BY <1>4, StepAlone DEF Alone
  <2>2. task[q].pc # "idle" => task[q].cur \in Versions
    BY <1>0 DEF Bounded, FieldsOK
  <2>. QED
    BY <1>0, <1>1, <2>1, <2>2 DEF OrderedRequest, Taken, Checked
<1>. QED
  BY <1>2, <1>3, <1>4, NextOrderedRequest DEF Ordered, OrderedRequest

-----------------------------------------------------------------------------
\* As long as nothing unusual has happened, nothing unusual had happened before,
\* and the current version moves forward, by one upload at a time.
LEMMA QuietStep ==
    ASSUME VersionTypeOK, Bounded, Ordered, NEW r \in Requests, VersionStep(r), Unhurried'
    PROVE  /\ Unhurried /\ ~Fault
           /\ \/ current' = current
              \/ Advance(r) /\ Unmoved(r) /\ current' = task[r].v /\ Ends(r)
<1>0. FieldsOK /\ Effect(r)
  BY TypedFields, StepEffect
<1>1. versionFaults' = 0 /\ ~restored' /\ ~contended' /\ live'
  BY DEF Unhurried
<1>2. versionFaults' = versionFaults /\ versionFaults = 0 /\ ~Fault /\ ~restored /\ ~contended
  BY <1>0, <1>1, HistoryGrows DEF Fault, FieldsOK
<1>3. CASE MetadataSave(r)
  <2>1. Unmoved(r) /\ current' = task[r].cur
    BY <1>1, <1>3 DEF MetadataSave
  <2>. QED
    BY <1>2, <2>1 DEF Unmoved, Unhurried
<1>4. CASE Restore(r)
  BY <1>1, <1>2, <1>4 DEF Restore, Unhurried
<1>5. CASE Advance(r)
  <2>1. live
    BY <1>1, <1>5 DEF Advance
  <2>. QED
    BY <1>0, <1>2, <1>5, <2>1 DEF Effect, Unhurried
<1>6. CASE ~MetadataSave(r) /\ ~Restore(r) /\ ~Advance(r)
  <2>1. current' = current
    BY <1>6, CurrentAlone
  <2>2. live
    BY <1>1, <1>6 DEF VersionStep, UploadFind, UploadCount, CreateRetroactiveV1,
       CheckCurrent, CheckChecksum, Store, CreateVersion, Retract, Erase, RestoreFind,
       RestoreCheck, DeleteFind, DeleteCheck, DeleteRow, MetadataFind, DeleteMediaFind,
       DeleteMedia, Abandon, Find
  <2>. QED
    BY <1>2, <2>1, <2>2 DEF Unhurried
<1>. QED
  BY <1>3, <1>4, <1>5, <1>6

\* Every step keeps LockHolds: whoever inserts a number above the current one has
\* read the current one, so there is one such number, and its request advances.
LEMMA NextLockHolds ==
    ASSUME VersionTypeOK, Bounded, Ordered, LockHolds, NEW r \in Requests, VersionStep(r)
    PROVE  LockHolds'
<1> SUFFICES ASSUME Unhurried'
             PROVE  /\ \A q \in Requests : task'[q].cur <= current'
                    /\ \A v \in Versions : Taken(v)' /\ v > current' =>
                         \E q \in Requests :
                            task'[q].pc = "advance" /\ task'[q].v = v /\ task'[q].cur = current'
  BY DEF LockHolds, TaskAt
<1>0. FieldsOK /\ Effect(r)
  BY TypedFields, StepEffect
<1>1. /\ \A q \in Requests : task[q].cur <= current
      /\ \A v \in Versions : Taken(v) /\ v > current =>
           \E q \in Requests : TaskAt(q, "advance") /\ task[q].v = v /\ task[q].cur = current
      /\ ~Fault
  BY QuietStep DEF LockHolds
<1>2. \A q \in Requests : TaskAt(q, "advance") => task[q].v = task[q].cur + 1
  BY DEF Bounded, TaskAt, Checked
<1>3. current <= current' /\ current' \in Nat /\ current \in Nat /\ 1 <= current'
  <2>1. CASE Advance(r) /\ Unmoved(r) /\ current' = task[r].v
    BY <1>0, <1>2, <2>1 DEF Effect, Unmoved, FieldsOK
  <2>. QED
    BY <1>0, <2>1, QuietStep DEF FieldsOK
<1>4. ASSUME NEW q \in Requests PROVE task'[q].cur <= current'
  <2>1. CASE q # r
    <3>1. task'[q] = task[q]
      BY <2>1, StepAlone DEF Alone
    <3>. QED
      BY <1>0, <1>1, <1>3, <3>1 DEF FieldsOK
  <2>2. task'[r].cur \in {0, task[r].cur, current}
    BY <1>0 DEF VersionStep, Effect, Moves, Kept, Ends, Begins
  <2>3. task'[r].cur <= current'
    BY <1>0, <1>1, <1>3, <2>2 DEF FieldsOK
  <2>. QED
    BY <2>1, <2>3
<1>5. ASSUME NEW v \in Versions, Taken(v)', v > current'
      PROVE  \E q \in Requests :
                task'[q].pc = "advance" /\ task'[q].v = v /\ task'[q].cur = current'
  <2>1. CASE Taken(v)
    <3>1. PICK q \in Requests : TaskAt(q, "advance") /\ task[q].v = v /\ task[q].cur = current
      BY <1>0, <1>1, <1>3, <1>5, <2>1 DEF FieldsOK
    <3>2. v = current + 1
      BY <1>2, <3>1
    <3>3. current' = current
      <4>1. CASE Advance(r) /\ Unmoved(r) /\ current' = task[r].v
        <5>1. current' = current + 1
          BY <1>0, <1>2, <4>1 DEF Effect, Unmoved
        <5>. QED
          BY <1>3, <1>5, <3>2, <5>1
      <4>. QED
        BY <4>1, QuietStep
    <3>4. q # r
      <4>1. SUFFICES ASSUME q = r PROVE FALSE
        OBVIOUS
      <4>2. TaskAt(r, "advance") /\ Unmoved(r)
        BY <3>1, <4>1, QuietStep DEF Unmoved, Unhurried
      <4>3. Advance(r) \/ Abandon(r)
        BY <1>0, <4>2 DEF VersionStep, Effect, TaskAt, UploadFind, RestoreFind, DeleteFind,
           MetadataFind, DeleteMediaFind, Find
      <4>4. current' = task[r].v
        BY <1>0, <1>1, <4>2, <4>3 DEF Effect, Abandon
      <4>. QED
        BY <1>3, <3>1, <3>2, <3>3, <4>1, <4>4
    <3>5. task'[q] = task[q]
      BY <3>4, StepAlone DEF Alone
    <3>. QED
      BY <3>1, <3>3, <3>5 DEF TaskAt
  <2>2. CASE v = 1
    BY <1>3, <1>5, <2>2
  <2>3. CASE ~Taken(v) /\ CreateVersion(r) /\ v = task[r].v
    <3>1. Moves(r, "advance")
      BY <1>0, <1>5, <2>3 DEF Effect, Taken
    <3>2. v = task[r].cur + 1 /\ task[r].cur \in Nat /\ task[r].cur <= current
      BY <1>0, <1>1, <2>3 DEF Effect, TaskAt, Bounded, Checked, FieldsOK
    <3>3. current' = current
      BY <2>3, CurrentAlone, QuietStep, <1>0 DEF Effect, TaskAt
    <3>4. task[r].cur = current
      BY <1>3, <1>5, <3>2, <3>3
    <3>. QED
      BY <2>3, <3>1, <3>3, <3>4 DEF Moves, Kept
  <2>. QED
    BY <1>5, <2>1, <2>2, <2>3, RowsChange
<1>. QED
  BY <1>4, <1>5

-----------------------------------------------------------------------------
\* A new row is the first one, or the one an upload inserts.
LEMMA NewRow ==
    ASSUME VersionTypeOK, Bounded, Ordered, NEW r \in Requests, VersionStep(r),
           NEW v \in Versions, ~Taken(v), Taken(v)'
    PROVE  /\ Live(v)'
           /\ \/ CreateRetroactiveV1(r) /\ v = 1 /\ rows'[v].file = 0
              \/ /\ CreateVersion(r) /\ TaskAt(r, "create") /\ v = task[r].v
                 /\ Moves(r, "advance") /\ Inserts(r)
                 /\ rows'[v].file = task[r].file /\ rows'[v].sum = task[r].sum
<1>0. Effect(r) /\ DOMAIN rows = Versions
  BY StepEffect DEF VersionTypeOK
<1>1. CASE CreateRetroactiveV1(r) /\ v = 1
  <2>1. \/ rows' = rows
        \/ \E x : rows' = [rows EXCEPT ![1] = [st |-> "live", file |-> 0, sum |-> x]]
    BY <1>1 DEF CreateRetroactiveV1
  <2>2. PICK x : rows' = [rows EXCEPT ![v] = [st |-> "live", file |-> 0, sum |-> x]]
    BY <1>1, <2>1 DEF Taken
  <2>3. rows'[v] = [st |-> "live", file |-> 0, sum |-> x]
    BY <1>0, <2>2
  <2>. QED
    BY <1>1, <2>3 DEF Live
<1>2. CASE CreateVersion(r) /\ v = task[r].v
  <2>1. TaskAt(r, "create") /\ Moves(r, "advance") /\ Inserts(r)
    BY <1>0, <1>2 DEF Effect, Taken
  <2>2. rows'[v] = [st |-> "live", file |-> task[r].file, sum |-> task[r].sum]
    BY <1>0, <1>2, <2>1 DEF Inserts
  <2>. QED
    BY <1>2, <2>1, <2>2 DEF Live
<1>. QED
  BY <1>1, <1>2, RowsChange

\* What FilesOwned says of one request.
OwnedRequest(q) ==
    /\ task[q].file <= stored
    /\ TaskAt(q, "create") =>
         /\ task[q].file \in files /\ task[q].file > 0
         /\ \A v \in Versions : Taken(v) => rows[v].file # task[q].file
         /\ \A p \in Requests :
              p # q /\ task[p].pc \in {"create", "erase"} => task[p].file # task[q].file
    /\ task[q].pc \in {"advance", "retract", "delete"} =>
         rows[task[q].v].file = task[q].file
    /\ TaskAt(q, "erase") =>
         /\ task[q].file = 0 => Taken(1)
         /\ \A v \in Versions :
              Live(v) /\ rows[v].file = task[q].file => task[q].file \in stranded

\* The rows keep their files apart.
LEMMA NextRowsOwned ==
    ASSUME VersionTypeOK, Bounded, Ordered, FilesOwned, NEW r \in Requests, VersionStep(r)
    PROVE  /\ \A v \in Versions : Taken(v)' =>
                rows'[v].file <= stored' /\ (rows'[v].file = 0 <=> v = 1)
           /\ \A v, w \in Versions :
                Taken(v)' /\ Taken(w)' /\ rows'[v].file = rows'[w].file => v = w
           /\ rows'[1].st = "none" => 0 \in files'
<1>0. /\ FieldsOK /\ Effect(r) /\ OwnedRequest(r) /\ 1 \in Versions
  BY TypedFields, StepEffect, VersionBoundsAssumption DEF FilesOwned, OwnedRequest
<1>1. stored \in Nat /\ stored' \in Nat /\ stored <= stored' /\ 0 <= stored'
  <2>1. stored' = stored \/ stored' = stored + 1
    BY StoredAlone DEF Store
  <2>. QED
    BY <1>0, <2>1 DEF FieldsOK
<1>2. ASSUME NEW v \in Versions, Taken(v)'
      PROVE  /\ rows'[v].file <= stored' /\ (rows'[v].file = 0 <=> v = 1)
             /\ Taken(v) => rows'[v].file = rows[v].file
             /\ ~Taken(v) => \A w \in Versions : Taken(w) => rows[w].file # rows'[v].file
  <2>1. CASE Taken(v)
    BY <1>0, <1>1, <2>1, RowsChange DEF FilesOwned, FieldsOK
  <2>2. CASE ~Taken(v) /\ v = 1 /\ rows'[v].file = 0
    BY <1>0, <1>1, <2>2 DEF FilesOwned
  <2>3. CASE /\ ~Taken(v) /\ TaskAt(r, "create")
             /\ v = task[r].v /\ rows'[v].file = task[r].file
    <3>1. task[r].cur >= 1 /\ v = task[r].cur + 1 /\ task[r].cur \in Nat
      BY <1>0, <2>3 DEF Bounded, TaskAt, Checked, FieldsOK
    <3>2. task[r].file <= stored /\ task[r].file > 0 /\ task[r].file \in Nat
      BY <1>0, <2>3 DEF OwnedRequest, FieldsOK
    <3>3. \A w \in Versions : Taken(w) => rows[w].file # task[r].file
      BY <1>0, <2>3 DEF OwnedRequest
    <3>. QED
      BY <1>1, <2>3, <3>1, <3>2, <3>3
  <2>. QED
    BY <1>2, <2>1, <2>2, <2>3, NewRow
<1>3. ASSUME NEW v \in Versions, NEW w \in Versions, Taken(v)', Taken(w)',
             rows'[v].file = rows'[w].file
      PROVE  v = w
  <2>1. CASE Taken(v) /\ Taken(w)
    BY <1>2, <1>3, <2>1 DEF FilesOwned
  <2>2. CASE ~Taken(v) /\ ~Taken(w)
    <3>1. CreateRetroactiveV1(r) => ~CreateVersion(r)
      BY <1>0 DEF Effect, TaskAt
    <3>2. \/ CreateRetroactiveV1(r) /\ v = 1
          \/ CreateVersion(r) /\ v = task[r].v
      BY <1>3, <2>2, NewRow
    <3>3. \/ CreateRetroactiveV1(r) /\ w = 1
          \/ CreateVersion(r) /\ w = task[r].v
      BY <1>3, <2>2, NewRow
    <3>. QED
      BY <3>1, <3>2, <3>3
  <2>3. CASE Taken(v) /\ ~Taken(w)
    BY <1>2, <1>3, <2>3
  <2>4. CASE Taken(w) /\ ~Taken(v)
    BY <1>2, <1>3, <2>4
  <2>. QED
    BY <2>1, <2>2, <2>3, <2>4
<1>4. ASSUME rows'[1].st = "none" PROVE 0 \in files'
  <2>1. ~Taken(1) /\ 0 \in files
    BY <1>0, <1>4, RowsChange DEF Taken, FilesOwned
  <2>2. CASE Erase(r)
    <3>1. task[r].file # 0
      BY <1>0, <2>1, <2>2 DEF Effect, OwnedRequest
    <3>. QED
      BY <2>1, <2>2, <3>1 DEF Erase
  <2>3. CASE Store(r)
    BY <2>1, <2>3 DEF Store
  <2>. QED
    BY <2>1, <2>2, <2>3, FilesAlone
<1>. QED
  BY <1>2, <1>3, <1>4

\* What a request takes on: a fresh file, the file of a row, or one that no
\* version needs.
LEMMA NextOwnedRequest ==
    ASSUME VersionTypeOK, Bounded, Ordered, FilesOwned, NEW r \in Requests, VersionStep(r)
    PROVE  OwnedRequest(r)'
<1>0. /\ FieldsOK /\ Effect(r) /\ OwnedRequest(r) /\ OrderedRequest(r) /\ 1 \in Versions
  BY TypedFields, StepEffect, VersionBoundsAssumption
  DEF FilesOwned, OwnedRequest, Ordered, OrderedRequest
<1>1. /\ stored \in Nat /\ stored' \in Nat /\ stored <= stored' /\ 0 <= stored'
      /\ task[r].file \in Nat
  <2>1. stored' = stored \/ stored' = stored + 1
    BY StoredAlone DEF Store
  <2>. QED
    BY <1>0, <2>1 DEF FieldsOK
<1>2. CASE Ends(r) \/ UploadFind(r) \/ RestoreFind(r) \/ DeleteFind(r) \/ MetadataFind(r)
           \/ DeleteMediaFind(r)
  <2>1. /\ task'[r].file = 0
        /\ task'[r].pc \in {"idle", "count", "restorefind", "deletefind", "save", "remove"}
    BY <1>0, <1>2 DEF Effect, Begins, Ends
  <2>. QED
    BY <1>1, <2>1 DEF OwnedRequest, TaskAt
<1>3. CASE Store(r)
  <2>1. /\ task'[r].pc = "create" /\ task'[r].file = stored + 1
        /\ stored' = stored + 1 /\ files' = files \cup {stored + 1}
        /\ rows' = rows /\ Alone(r)
    BY <1>0, <1>3 DEF Effect, Store
  <2>2. \A v \in Versions : Taken(v)' => rows'[v].file # stored + 1
    BY <1>0, <1>1, <2>1 DEF FilesOwned, Taken, FieldsOK
  <2>3. \A p \in Requests : p # r => task'[p].file # stored + 1
    BY <1>0, <1>1, <2>1 DEF FilesOwned, Alone, FieldsOK
  <2>. QED
    BY <1>1, <2>1, <2>2, <2>3 DEF OwnedRequest, TaskAt
<1>4. CASE CreateVersion(r)
  <2>1. TaskAt(r, "create") /\ stored' = stored
    BY <1>0, <1>4 DEF Effect, CreateVersion
  <2>2. CASE Moves(r, "advance")
    <3>1. ~Taken(task[r].v) /\ Inserts(r)
      BY <1>0, <1>4, <2>2 DEF Effect, Moves
    <3>2. task[r].v \in Versions /\ DOMAIN rows = Versions
      BY <1>0, <2>1 DEF Bounded, TaskAt, Checked, FieldsOK, VersionTypeOK
    <3>3. rows'[task[r].v] = [st |-> "live", file |-> task[r].file, sum |-> task[r].sum]
      BY <3>1, <3>2 DEF Inserts
    <3>. QED
      BY <1>0, <1>1, <2>1, <2>2, <3>3 DEF Moves, Kept, OwnedRequest, TaskAt
  <2>3. CASE Moves(r, "erase") /\ rows' = rows
    <3>1. task[r].file # 0 /\ \A v \in Versions : Taken(v) => rows[v].file # task[r].file
      BY <1>0, <1>1, <2>1 DEF OwnedRequest
    <3>. QED
      BY <1>0, <1>1, <2>1, <2>3, <3>1 DEF Moves, OwnedRequest, TaskAt, Live, Taken
  <2>. QED
    BY <1>0, <1>4, <2>2, <2>3 DEF Effect
<1>5. CASE Advance(r)
  <2>1. rows' = rows /\ stored' = stored /\ TaskAt(r, "advance")
    BY <1>0, <1>5 DEF Effect, Advance
  <2>. QED
    BY <1>0, <1>2, <1>5, <2>1 DEF Effect, Moves, Kept, OwnedRequest, TaskAt
<1>6. CASE Retract(r) \/ DeleteRow(r)
  <2>1. /\ TaskAt(r, "retract") \/ TaskAt(r, "delete")
        /\ Ends(r) \/ Moves(r, "erase")
    BY <1>0, <1>6 DEF Effect
  <2>2. PICK w \in Versions : w = task[r].v /\ Taken(w) /\ rows[w].file = task[r].file
    BY <1>0, <2>1 DEF OrderedRequest, OwnedRequest, TaskAt
  <2>3. CASE Moves(r, "erase")
    <3>1. Live(w)' => task[r].file \in stranded'
      <4>1. CASE Retires(r)
        <5>1. rows' = [rows EXCEPT ![w] = [rows[w] EXCEPT !.st = "deleted"]]
          BY <2>2, <4>1 DEF Retires
        <5>2. rows'[w] = [rows[w] EXCEPT !.st = "deleted"] /\ rows[w] \in Row
          BY <2>2, <5>1 DEF VersionTypeOK
        <5>3. rows'[w].st = "deleted"
          BY <5>2 DEF Row
        <5>. QED
          BY <5>3 DEF Live
      <4>2. CASE task[r].file \in stranded'
        BY <4>2
      <4>. QED
        BY <1>0, <1>6, <2>3, <4>1, <4>2 DEF Effect, Ends, Moves
    <3>2. ASSUME NEW v \in Versions, Live(v)', rows'[v].file = task[r].file PROVE v = w
      <4>1. Taken(v) /\ rows'[v].file = rows[v].file
        BY <1>0, <1>6, <2>1, <3>2, NewRow, RowsChange DEF Live, Taken, Effect, TaskAt
      <4>. QED
        BY <2>2, <3>2, <4>1 DEF FilesOwned
    <3>3. task[r].file = 0 => Taken(1)'
      <4>1. Taken(1) => Taken(1)'
        BY <1>0, RowsChange
      <4>. QED
        BY <2>2, <4>1 DEF FilesOwned
    <3>4. task[r].file <= stored'
      BY <1>0, <1>1 DEF OwnedRequest
    <3>5. \A v \in Versions :
            Live(v)' /\ rows'[v].file = task[r].file => task[r].file \in stranded'
      BY <3>1, <3>2
    <3>. QED
      BY <2>3, <3>3, <3>4, <3>5 DEF Moves, OwnedRequest, TaskAt
  <2>. QED
    BY <1>2, <2>1, <2>3
<1>7. CASE DeleteCheck(r)
  <2>1. rows' = rows /\ stored' = stored
    BY <1>7 DEF DeleteCheck
  <2>2. CASE /\ Expendable(r) /\ Kept(r)
             /\ task'[r].pc = "delete" /\ task'[r].file = rows[task[r].v].file
    <3>1. task[r].v \in Versions /\ Taken(task[r].v)
      BY <2>2 DEF Expendable, Live, Taken
    <3>2. rows[task[r].v].file <= stored
      BY <3>1 DEF FilesOwned
    <3>. QED
      BY <2>1, <2>2, <3>2 DEF Kept, OwnedRequest, TaskAt
  <2>. QED
    BY <1>0, <1>2, <1>7, <2>2 DEF Effect
<1>8. CASE UploadCount(r) \/ CreateRetroactiveV1(r) \/ CheckCurrent(r) \/ CheckChecksum(r)
           \/ RestoreCheck(r)
  <2>1. \/ Ends(r)
        \/ /\ task'[r].file = task[r].file
           /\ task'[r].pc \in {"checkcurrent", "retro", "checksum", "store", "restore"}
    <3>1. CASE RestoreCheck(r)
      BY <1>0, <3>1 DEF Effect, Moves
    <3>. QED
      BY <1>0, <1>8, <3>1 DEF Effect, Moves
  <2>2. task[r].file <= stored'
    BY <1>0, <1>1 DEF OwnedRequest
  <2>. QED
    BY <1>2, <2>1, <2>2 DEF OwnedRequest, TaskAt
<1>9. CASE Erase(r) \/ Restore(r) \/ MetadataSave(r) \/ DeleteMedia(r) \/ Abandon(r)
  BY <1>0, <1>2, <1>9 DEF Effect
<1>. QED
  BY <1>2, <1>3, <1>4, <1>5, <1>6, <1>7, <1>8, <1>9 DEF VersionStep

\* What the others hold on to stays theirs.
LEMMA NextOwnedOthers ==
    ASSUME VersionTypeOK, Bounded, Ordered, FilesOwned, NEW r \in Requests, VersionStep(r),
           NEW q \in Requests, q # r
    PROVE  OwnedRequest(q)'
<1>0. /\ FieldsOK /\ Effect(r) /\ 1 \in Versions
      /\ OwnedRequest(q) /\ OwnedRequest(r) /\ OrderedRequest(q) /\ OrderedRequest(r)
  BY TypedFields, StepEffect, VersionBoundsAssumption
  DEF FilesOwned, OwnedRequest, Ordered, OrderedRequest
<1>1. task'[q] = task[q] /\ \A p \in Requests : p # r => task'[p] = task[p]
  BY StepAlone DEF Alone
<1>2. /\ stored \in Nat /\ stored' \in Nat /\ stored <= stored'
      /\ task[q].file \in Nat /\ task[r].file \in Nat /\ task[q].file <= stored
      /\ task[q].file <= stored' /\ task[q].file # stored + 1
  <2>1. stored' = stored \/ stored' = stored + 1
    BY StoredAlone DEF Store
  <2>2. stored \in Nat /\ task[q].file \in Nat /\ task[r].file \in Nat /\ task[q].file <= stored
    BY <1>0 DEF OwnedRequest, FieldsOK
  <2>. QED
    BY <2>1, <2>2
<1>3. ASSUME TaskAt(q, "create")
      PROVE  /\ task[q].file \in files' /\ task[q].file > 0
             /\ \A v \in Versions : Taken(v)' => rows'[v].file # task[q].file
             /\ \A p \in Requests :
                  p # q /\ task'[p].pc \in {"create", "erase"} => task'[p].file # task[q].file
  <2>1. /\ task[q].file \in files /\ task[q].file > 0
        /\ \A v \in Versions : Taken(v) => rows[v].file # task[q].file
        /\ \A p \in Requests :
             p # q /\ task[p].pc \in {"create", "erase"} => task[p].file # task[q].file
    BY <1>0, <1>3 DEF OwnedRequest
  <2>2. task[q].file \in files'
    <3>1. CASE Erase(r)
      BY <1>0, <2>1, <3>1 DEF Effect, TaskAt, Erase
    <3>2. CASE Store(r)
      BY <2>1, <3>2 DEF Store
    <3>. QED
      BY <2>1, <3>1, <3>2, FilesAlone
  <2>3. ASSUME NEW v \in Versions, Taken(v)' PROVE rows'[v].file # task[q].file
    <3>1. CASE Taken(v)
      BY <2>1, <3>1, RowsChange
    <3>2. CASE rows'[v].file = 0
      BY <2>1, <3>2
    <3>3. CASE TaskAt(r, "create") /\ rows'[v].file = task[r].file
      BY <2>1, <3>3 DEF TaskAt
    <3>. QED
      BY <2>3, <3>1, <3>2, <3>3, NewRow
  <2>4. task'[r].pc \in {"create", "erase"} => task'[r].file # task[q].file
    <3>1. SUFFICES ASSUME task'[r].pc \in {"create", "erase"}
                   PROVE  task'[r].file # task[q].file
      OBVIOUS
    <3>2. \/ Store(r) /\ task'[r].file = stored + 1
          \/ CreateVersion(r) /\ TaskAt(r, "create") /\ task'[r].file = task[r].file
          \/ /\ Retract(r) \/ DeleteRow(r)
             /\ task[r].pc \in {"retract", "delete"} /\ task'[r].file = task[r].file
      BY <1>0, <3>1 DEF VersionStep, Effect, TaskAt, Moves, Kept, Ends, Begins
    <3>3. CASE Store(r) /\ task'[r].file = stored + 1
      BY <1>2, <3>3
    <3>4. CASE TaskAt(r, "create") /\ task'[r].file = task[r].file
      BY <2>1, <3>4 DEF TaskAt
    <3>5. CASE task[r].pc \in {"retract", "delete"} /\ task'[r].file = task[r].file
      BY <1>0, <2>1, <3>5 DEF OwnedRequest, OrderedRequest
    <3>. QED
      BY <3>2, <3>3, <3>4, <3>5
  <2>. QED
    BY <1>1, <2>1, <2>2, <2>3, <2>4
<1>4. ASSUME task[q].pc \in {"advance", "retract", "delete"}
      PROVE  rows'[task[q].v].file = task[q].file
  BY <1>0, <1>4, RowsChange DEF OwnedRequest, OrderedRequest
<1>5. ASSUME TaskAt(q, "erase")
      PROVE  /\ task[q].file = 0 => Taken(1)'
             /\ \A v \in Versions :
                  Live(v)' /\ rows'[v].file = task[q].file => task[q].file \in stranded'
  <2>1. task[q].file = 0 => Taken(1) /\ Taken(1)'
    BY <1>0, <1>5, RowsChange DEF OwnedRequest
  <2>2. ASSUME NEW v \in Versions, Live(v)', rows'[v].file = task[q].file
        PROVE  task[q].file \in stranded'
    <3>1. CASE Taken(v)
      <4>1. Live(v) /\ rows[v].file = task[q].file
        BY <2>2, <3>1, RowsChange
      <4>. QED
        BY <1>0, <1>5, <4>1, HistoryGrows DEF OwnedRequest
    <3>2. CASE ~Taken(v) /\ v = 1 /\ rows'[v].file = 0
      BY <2>1, <2>2, <3>2
    <3>3. CASE TaskAt(r, "create") /\ rows'[v].file = task[r].file
      BY <1>0, <1>5, <2>2, <3>3 DEF OwnedRequest, TaskAt
    <3>4. Taken(v)'
      BY <2>2 DEF Live, Taken
    <3>. QED
      BY <3>1, <3>2, <3>3, <3>4, NewRow
  <2>. QED
    BY <2>1, <2>2
<1>. QED
  BY <1>1, <1>2, <1>3, <1>4, <1>5 DEF OwnedRequest, TaskAt

\* Every step keeps FilesOwned.
LEMMA NextFilesOwned ==
    ASSUME VersionTypeOK, Bounded, Ordered, FilesOwned, NEW r \in Requests, VersionStep(r)
    PROVE  FilesOwned'
<1>1. \A q \in Requests : OwnedRequest(q)'
  BY NextOwnedRequest, NextOwnedOthers
<1>2. \A q \in Requests :
        /\ (task[q].file <= stored)'
        /\ (TaskAt(q, "create") =>
              /\ task[q].file \in files /\ task[q].file > 0
              /\ \A v \in Versions : Taken(v) => rows[v].file # task[q].file
              /\ \A p \in Requests :
                   p # q /\ task[p].pc \in {"create", "erase"} => task[p].file # task[q].file)'
        /\ (task[q].pc \in {"advance", "retract", "delete"} =>
              rows[task[q].v].file = task[q].file)'
        /\ (TaskAt(q, "erase") =>
              /\ task[q].file = 0 => Taken(1)
              /\ \A v \in Versions :
                   Live(v) /\ rows[v].file = task[q].file => task[q].file \in stranded)'
  BY <1>1 DEF OwnedRequest
<1>. QED
  BY <1>2, NextRowsOwned DEF FilesOwned, Taken

-----------------------------------------------------------------------------
\* Every step keeps LiveHasFile: a request erases a file only when no version
\* that can be listed has it.
LEMMA NextLiveHasFile ==
    ASSUME VersionTypeOK, Bounded, Ordered, FilesOwned, LiveHasFile,
           NEW r \in Requests, VersionStep(r)
    PROVE  LiveHasFile'
<1> SUFFICES ASSUME NEW v \in Versions, Live(v)'
             PROVE  rows'[v].file \in files' \/ rows'[v].file \in stranded'
  BY DEF LiveHasFile
<1>0. Effect(r) /\ OwnedRequest(r) /\ (rows[1].st = "none" => 0 \in files)
  BY StepEffect DEF FilesOwned, OwnedRequest
<1>1. stranded \subseteq stranded'
  BY HistoryGrows
<1>2. CASE Taken(v)
  <2>1. Live(v) /\ rows'[v].file = rows[v].file
    BY <1>2, RowsChange
  <2>2. rows[v].file \in files \/ rows[v].file \in stranded
    BY <2>1 DEF LiveHasFile
  <2>3. CASE Erase(r)
    <3>1. rows[v].file = task[r].file => rows[v].file \in stranded
      BY <1>0, <2>1, <2>3 DEF Effect, OwnedRequest
    <3>. QED
      BY <1>1, <2>1, <2>2, <2>3, <3>1 DEF Erase
  <2>4. CASE Store(r)
    BY <1>1, <2>1, <2>2, <2>4 DEF Store
  <2>. QED
    BY <1>1, <2>1, <2>2, <2>3, <2>4, FilesAlone
<1>3. CASE ~Taken(v)
  <2>1. Taken(v)'
    BY DEF Live, Taken
  <2>2. CASE CreateRetroactiveV1(r) /\ v = 1 /\ rows'[v].file = 0
    BY <1>0, <1>3, <2>2 DEF CreateRetroactiveV1, Taken
  <2>3. CASE CreateVersion(r) /\ TaskAt(r, "create") /\ rows'[v].file = task[r].file
    BY <1>0, <2>3 DEF CreateVersion, OwnedRequest
  <2>. QED
    BY <1>3, <2>1, <2>2, <2>3, NewRow
<1>. QED
  BY <1>2, <1>3

-----------------------------------------------------------------------------
\* Every step keeps ContentsKnown: a row inserted after the check has a number
\* above all that were compared.
LEMMA NextContentsKnown ==
    ASSUME VersionTypeOK, Bounded, Ordered, ContentsKnown,
           NEW r \in Requests, VersionStep(r)
    PROVE  ContentsKnown'
<1> SUFFICES ASSUME versionFaults' = 0, NEW q \in Requests, task'[q].pc \in {"store", "create"},
                    NEW w \in Versions, w <= task'[q].cur, Live(w)'
             PROVE  rows'[w].sum # task'[q].sum
  BY DEF ContentsKnown
<1>0. FieldsOK /\ Effect(r)
  BY TypedFields, StepEffect
<1>1. versionFaults = 0 /\ ~Fault
  BY <1>0, HistoryGrows DEF Fault, FieldsOK
<1>2. /\ task[q].pc \in {"checksum", "store", "create"}
      /\ task'[q].cur = task[q].cur /\ task'[q].sum = task[q].sum
      /\ task[q].pc = "checksum" => ~KnownContent(q)
  <2>1. CASE q # r
    BY <2>1, StepAlone DEF Alone
  <2>2. CASE q = r
    BY <1>0, <1>1, <2>2 DEF VersionStep, Effect, TaskAt, Moves, Kept, Ends, Begins
  <2>. QED
    BY <2>1, <2>2
<1>3. Taken(w)
  <2>1. Taken(task[q].cur) /\ task[q].cur \in Versions /\ w <= task[q].cur
    BY <1>0, <1>2 DEF Ordered, Bounded, Checked, FieldsOK
  <2>. QED
    BY <2>1 DEF Ordered
<1>4. Live(w) /\ rows'[w].sum = rows[w].sum
  BY <1>3, RowsChange
<1>5. rows[w].sum # task[q].sum
  <2>1. CASE task[q].pc = "checksum"
    BY <1>2, <1>4, <2>1 DEF KnownContent
  <2>2. CASE task[q].pc \in {"store", "create"}
    BY <1>1, <1>2, <1>4, <2>2 DEF ContentsKnown
  <2>. QED
    BY <1>2, <2>1, <2>2
<1>. QED
  BY <1>2, <1>4, <1>5

\* Every step keeps ContentsDiffer: two uploads of the same content take the same
\* number, and the second is refused.
LEMMA NextContentsDiffer ==
    ASSUME VersionTypeOK, Bounded, Ordered, ContentsKnown, ContentsDiffer,
           NEW r \in Requests, VersionStep(r)
    PROVE  ContentsDiffer'
<1> SUFFICES ASSUME versionFaults' = 0, NEW v \in Versions, NEW w \in Versions,
                    Live(v)', Live(w)', v # w
             PROVE  rows'[v].sum # rows'[w].sum
  BY DEF ContentsDiffer
<1>0. FieldsOK /\ Effect(r) /\ versionFaults = 0
  <2>1. FieldsOK /\ Effect(r)
    BY TypedFields, StepEffect
  <2>. QED
    BY <2>1, HistoryGrows DEF Fault, FieldsOK
<1>1. \A u \in Versions : Taken(u) /\ Live(u)' => Live(u) /\ rows'[u].sum = rows[u].sum
  BY RowsChange
<1>2. ASSUME NEW u \in Versions, NEW x \in Versions, u # x,
             Live(u)', Live(x)', ~Taken(u), Taken(x)
      PROVE  rows'[u].sum # rows'[x].sum
  <2>1. Taken(u)'
    BY <1>2 DEF Live, Taken
  <2>2. x < u
    BY <1>2 DEF Ordered
  <2>3. CASE TaskAt(r, "create") /\ u = task[r].v /\ rows'[u].sum = task[r].sum
    <3>1. x <= task[r].cur
      BY <1>0, <2>2, <2>3 DEF Bounded, TaskAt, Checked, FieldsOK
    <3>2. Live(x) /\ rows'[x].sum = rows[x].sum
      BY <1>1, <1>2
    <3>. QED
      BY <1>0, <2>3, <3>1, <3>2 DEF ContentsKnown, TaskAt
  <2>. QED
    BY <1>2, <2>1, <2>2, <2>3, NewRow
<1>3. CASE Taken(v) /\ Taken(w)
  BY <1>0, <1>1, <1>3 DEF ContentsDiffer
<1>4. CASE ~Taken(v) /\ ~Taken(w)
  <2>1. Taken(v)' /\ Taken(w)'
    BY DEF Live, Taken
  <2>2. v = w
    <3>1. CreateRetroactiveV1(r) => ~CreateVersion(r)
      BY <1>0 DEF Effect, TaskAt
    <3>2. (CreateRetroactiveV1(r) /\ v = 1) \/ (CreateVersion(r) /\ v = task[r].v)
      BY <1>4, <2>1, NewRow
    <3>3. (CreateRetroactiveV1(r) /\ w = 1) \/ (CreateVersion(r) /\ w = task[r].v)
      BY <1>4, <2>1, NewRow
    <3>. QED
      BY <3>1, <3>2, <3>3
  <2>. QED
    BY <2>2
<1>. QED
  BY <1>2, <1>3, <1>4

-----------------------------------------------------------------------------
\* A version stops being one that can be listed only when the request that goes
\* by it retracts or deletes it.
LEMMA RowDies ==
    ASSUME VersionTypeOK, Bounded, NEW r \in Requests, VersionStep(r),
           NEW v \in Versions, Live(v), ~Live(v)'
    PROVE  (Retract(r) \/ DeleteRow(r)) /\ v = task[r].v
<1>0. Effect(r) /\ DOMAIN rows = Versions
  BY StepEffect DEF VersionTypeOK
<1>1. rows' # rows
  BY DEF Live
<1>2. CASE CreateRetroactiveV1(r)
  <2>1. PICK x : ~Taken(1) /\ rows' = [rows EXCEPT ![1] = x]
    BY <1>1, <1>2 DEF CreateRetroactiveV1, Taken
  <2>2. v # 1
    BY <2>1 DEF Live, Taken
  <2>. QED
    BY <1>0, <2>1, <2>2 DEF Live
<1>3. CASE CreateVersion(r)
  <2>1. ~Taken(task[r].v) /\ Inserts(r)
    BY <1>0, <1>1, <1>3 DEF Effect
  <2>2. v # task[r].v
    BY <2>1 DEF Live, Taken
  <2>. QED
    BY <1>0, <2>1, <2>2 DEF Live, Inserts
<1>4. CASE Retract(r) \/ DeleteRow(r)
  <2>1. Retires(r)
    BY <1>0, <1>1, <1>4 DEF Effect
  <2>2. v = task[r].v
    BY <1>0, <2>1 DEF Live, Retires
  <2>. QED
    BY <1>4, <2>2
<1>. QED
  BY <1>1, <1>2, <1>3, <1>4, RowsAlone

\* The first two parts of CurrentIsKept.
KeptApart ==
    /\ \A q \in Requests : TaskAt(q, "delete") => task[q].cur # task[q].v
    /\ \A p, q \in Requests :
         /\ p # q
         /\ task[p].pc \in {"advance", "retract"} /\ task[q].pc \in {"advance", "retract"}
         => task[p].v # task[q].v

\* No request deletes the version it has read as the current one, and two uploads
\* that inserted their rows have different numbers.
LEMMA NextKeptApart ==
    ASSUME VersionTypeOK, Bounded, Ordered, CurrentIsKept, NEW r \in Requests, VersionStep(r)
    PROVE  KeptApart'
<1>0. FieldsOK /\ Effect(r) /\ KeptApart /\ \A q \in Requests : OrderedRequest(q)
  BY TypedFields, StepEffect DEF CurrentIsKept, KeptApart, Ordered, OrderedRequest
<1>1. \A q \in Requests : q # r => task'[q] = task[q]
  BY StepAlone DEF Alone
<1>2. task'[r].pc = "delete" => task'[r].cur # task'[r].v
  <2>1. SUFFICES ASSUME task'[r].pc = "delete" PROVE task'[r].cur # task'[r].v
    OBVIOUS
  <2>2. DeleteCheck(r) /\ Expendable(r) /\ Kept(r)
    BY <1>0, <2>1 DEF VersionStep, Effect, Moves, Ends, Begins
  <2>. QED
    BY <2>2 DEF Expendable, Kept
<1>3. ASSUME NEW q \in Requests, q # r, task'[r].pc \in {"advance", "retract"},
             task[q].pc \in {"advance", "retract"}
      PROVE  task'[r].v # task[q].v
  <2>1. \/ task[r].pc = "advance" /\ task'[r].v = task[r].v
        \/ task'[r].v = task[r].v /\ ~Taken(task[r].v)
    BY <1>0, <1>3 DEF VersionStep, Effect, TaskAt, Moves, Kept, Ends, Begins
  <2>2. Taken(task[q].v)
    BY <1>0, <1>3 DEF OrderedRequest
  <2>. QED
    BY <1>0, <1>3, <2>1, <2>2 DEF KeptApart
<1>. QED
  BY <1>0, <1>1, <1>2, <1>3 DEF KeptApart, TaskAt

\* A step that leaves a version current starts no request that takes it away.
LEMMA NobodyTurns ==
    ASSUME VersionTypeOK, Bounded, Ordered, NEW r \in Requests, VersionStep(r),
           NEW u \in Versions, Taken(u) \/ u = 1
    PROVE  /\ Leaving(u)' => Leaving(u) \/ u # current
           /\ Arriving(u)' => Arriving(u)
<1>0. FieldsOK /\ Effect(r)
  BY TypedFields, StepEffect
<1>1. \A q \in Requests : q # r => task'[q] = task[q]
  BY StepAlone DEF Alone
<1>2. ASSUME task'[r].pc \in {"deletefind", "delete"}, task'[r].v = u, task'[r].cur # u
      PROVE  Leaving(u) \/ u # current
  <2>1. \/ DeleteFind(r) /\ task'[r].cur = current
        \/ DeleteCheck(r) /\ TaskAt(r, "deletefind") /\ Kept(r)
    BY <1>0, <1>2 DEF VersionStep, Effect, Moves, Ends, Begins
  <2>. QED
    BY <1>2, <2>1 DEF TaskAt, Kept, Leaving
<1>3. ASSUME task'[r].pc \in {"advance", "retract"}, task'[r].v = u
      PROVE  Arriving(u)
  <2>1. \/ CreateVersion(r) /\ TaskAt(r, "create") /\ Kept(r) /\ ~Taken(task[r].v)
        \/ Advance(r) /\ TaskAt(r, "advance") /\ Kept(r)
    BY <1>0, <1>3 DEF VersionStep, Effect, Moves, Ends, Begins
  <2>2. CASE TaskAt(r, "create") /\ Kept(r) /\ ~Taken(task[r].v)
    <3>1. task[r].v = task[r].cur + 1 /\ task[r].cur >= 1 /\ task[r].cur \in Nat
      BY <1>0, <2>2 DEF TaskAt, Bounded, Checked, FieldsOK
    <3>2. task[r].v # 1
      BY <3>1
    <3>. QED
      BY <1>3, <2>2, <3>2 DEF Kept
  <2>3. CASE TaskAt(r, "advance") /\ Kept(r)
    BY <1>3, <2>3 DEF TaskAt, Kept, Arriving
  <2>. QED
    BY <2>1, <2>2, <2>3
<1>4. Leaving(u)' => Leaving(u) \/ u # current
  BY <1>1, <1>2 DEF Leaving
<1>5. Arriving(u)' => Arriving(u)
  BY <1>1, <1>3 DEF Arriving
<1>. QED
  BY <1>4, <1>5

\* What makes a version current: it was read as the current one, or it is live and
\* nobody is taking it away, or else the overlap is noted.
LEMMA NewCurrent ==
    ASSUME VersionTypeOK, Bounded, Ordered, CurrentIsKept, NEW r \in Requests,
           VersionStep(r), ~contended'
    PROVE  \/ current' = current
           \/ /\ rows' = rows /\ Live(current')
              /\ ~Leaving(current)' /\ ~Arriving(current)'
<1>0. FieldsOK /\ Effect(r) /\ ~contended
  BY TypedFields, StepEffect, HistoryGrows
<1>1. CASE Advance(r) /\ current' # current
  <2>1. PICK u \in Versions : u = task[r].v
    BY <1>0, <1>1 DEF Effect, TaskAt, Ordered
  <2>2. /\ current' = u /\ Ends(r) /\ TaskAt(r, "advance") /\ rows' = rows
        /\ Live(u) /\ ~Leaving(u)
    <3>1. /\ current' = u /\ Ends(r) /\ TaskAt(r, "advance") /\ rows' = rows
      BY <1>0, <1>1, <2>1 DEF Effect, Advance
    <3>2. contended' = (contended \/ ~Live(u) \/ Leaving(u))
      BY <1>1, <2>1 DEF Advance
    <3>. QED
      BY <3>1, <3>2
  <2>3. \A q \in Requests : q # r => task'[q] = task[q]
    BY <2>2 DEF Ends, Alone
  <2>4. ~Leaving(u)'
    BY <2>2, <2>3 DEF Leaving, Ends
  <2>5. \A q \in Requests : q # r /\ task[q].pc \in {"advance", "retract"} => task[q].v # u
    BY <2>1, <2>2 DEF CurrentIsKept, TaskAt
  <2>6. ~Arriving(u)'
    BY <2>2, <2>3, <2>5 DEF Arriving, Ends
  <2>. QED
    BY <2>2, <2>4, <2>6 DEF Leaving, Arriving
<1>2. CASE Restore(r) /\ current' # current
  <2>1. PICK u \in Versions : u = task[r].v
    BY <1>0, <1>2 DEF Effect, TaskAt, Ordered
  <2>2. /\ current' = u /\ Ends(r) /\ rows' = rows
        /\ Live(u) /\ ~Leaving(u) /\ ~Arriving(u)
    <3>1. /\ current' = u /\ Ends(r) /\ rows' = rows
      BY <1>0, <1>2, <2>1 DEF Effect, Restore
    <3>2. contended' = (contended \/ ~Live(u) \/ Leaving(u) \/ Arriving(u))
      BY <1>2, <2>1 DEF Restore
    <3>. QED
      BY <3>1, <3>2
  <2>3. \A q \in Requests : q # r => task'[q] = task[q]
    BY <2>2 DEF Ends, Alone
  <2>4. ~Leaving(u)' /\ ~Arriving(u)'
    BY <2>2, <2>3 DEF Leaving, Arriving, Ends
  <2>. QED
    BY <2>2, <2>4 DEF Leaving, Arriving
<1>3. CASE MetadataSave(r)
  <2>1. Unmoved(r) /\ current' = task[r].cur
    BY <1>3 DEF MetadataSave
  <2>. QED
    BY <2>1 DEF Unmoved
<1>. QED
  BY <1>1, <1>2, <1>3, CurrentAlone

\* Every step keeps CurrentIsKept.
LEMMA NextCurrentIsKept ==
    ASSUME VersionTypeOK, Bounded, Ordered, CurrentIsKept, NEW r \in Requests, VersionStep(r)
    PROVE  CurrentIsKept'
<1>1. ASSUME ~contended' PROVE ~Leaving(current)' /\ ~Arriving(current)'
  <2>1. PICK u \in Versions : u = current /\ (Taken(u) \/ u = 1)
    BY DEF VersionTypeOK, Ordered
  <2>2. ~Leaving(u) /\ ~Arriving(u)
    BY <1>1, <2>1, HistoryGrows DEF CurrentIsKept
  <2>3. CASE current' = current
    <3>1. ~Leaving(u)' /\ ~Arriving(u)'
      BY <2>1, <2>2, NobodyTurns
    <3>. QED
      BY <2>1, <2>3, <3>1 DEF Leaving, Arriving
  <2>. QED
    BY <1>1, <2>3, NewCurrent
<1>. QED
  BY <1>1, NextKeptApart DEF CurrentIsKept, KeptApart

\* Every step keeps CurrentIsLive: a version that is current is not taken away, and
\* one that becomes current is live, but for the overlaps that are noted.
LEMMA NextCurrentIsLive ==
    ASSUME VersionTypeOK, Bounded, Ordered, CurrentIsKept, CurrentIsLive,
           NEW r \in Requests, VersionStep(r)
    PROVE  CurrentIsLive'
<1> SUFFICES ASSUME Taken(current)', ~contended' PROVE Live(current)'
  BY DEF CurrentIsLive
<1>1. PICK u \in Versions : u = current
  BY DEF VersionTypeOK
<1>2. ~contended /\ ~Leaving(u) /\ ~Arriving(u) /\ (Taken(u) => Live(u))
  BY <1>1, HistoryGrows DEF CurrentIsKept, CurrentIsLive
<1>3. CASE current' = current
  <2>1. Taken(u)'
    BY <1>1, <1>3 DEF Taken
  <2>2. CASE Taken(u)
    <3>1. SUFFICES ASSUME ~Live(u)' PROVE FALSE
      BY <1>1, <1>3 DEF Live
    <3>2. (Retract(r) \/ DeleteRow(r)) /\ u = task[r].v
      BY <1>2, <2>2, <3>1, RowDies
    <3>3. \/ TaskAt(r, "retract")
          \/ TaskAt(r, "delete") /\ task[r].cur # task[r].v
      BY <3>2 DEF Retract, DeleteRow, CurrentIsKept
    <3>. QED
      BY <1>2, <3>2, <3>3 DEF TaskAt, Leaving, Arriving
  <2>3. CASE ~Taken(u)
    <3>1. Live(u)'
      BY <2>1, <2>3, NewRow
    <3>. QED
      BY <1>1, <1>3, <3>1 DEF Live
  <2>. QED
    BY <2>2, <2>3
<1>4. CASE rows' = rows /\ Live(current')
  BY <1>4 DEF Live
<1>. QED
  BY <1>3, <1>4, NewCurrent

-----------------------------------------------------------------------------
\* The first state.
LEMMA InitVersionInv == VersionInit => VersionInv
<1> SUFFICES ASSUME VersionInit PROVE VersionInv
  OBVIOUS
<1>0. /\ \A v \in Versions : rows[v] = NoRow /\ rows[v].st = "none" /\ rows[v].file = 0
      /\ \A r \in Requests : /\ task[r] = NoRequest /\ task[r].pc = "idle" /\ task[r].cur = 0
                             /\ task[r].file = 0
      /\ 1 \in Versions /\ 1 <= stored + 1 /\ 0 <= stored + 1 /\ 0 <= stored
      /\ current = 1 /\ stored = 0 /\ files = {0}
  BY NoRequestFields, VersionBoundsAssumption DEF VersionInit, NoRow
<1>1. VersionTypeOK
  <2>1. NoRow \in Row
    BY DEF NoRow, Row, Sums
  <2>2. rows \in [Versions -> Row] /\ task \in [Requests -> Request]
    BY <2>1, NoRequestFields DEF VersionInit
  <2>3. 0 \in 0..MaxUploads /\ 0 \in 0..MaxVersionFaults /\ {0} \subseteq 0..0
    BY VersionBoundsAssumption
  <2>. QED
    BY <1>0, <2>2, <2>3 DEF VersionInit, VersionTypeOK
<1>2. \A v \in Versions : ~Taken(v) /\ ~Live(v)
  BY <1>0 DEF Taken, Live
<1>3. Bounded
  BY <1>0, <1>2 DEF Bounded, Checked
<1>4. Ordered
  BY <1>0, <1>2 DEF Ordered, Checked
<1>5. LockHolds
  <2>1. 0 <= 1
    OBVIOUS
  <2>. QED
    BY <1>0, <1>2, <2>1 DEF LockHolds
<1>6. FilesOwned
  BY <1>0, <1>2 DEF FilesOwned, TaskAt
<1>7. LiveHasFile /\ ContentsDiffer
  BY <1>2 DEF LiveHasFile, ContentsDiffer
<1>8. ContentsKnown
  BY <1>2 DEF ContentsKnown
<1>9. CurrentIsKept /\ CurrentIsLive
  BY <1>0, <1>2 DEF CurrentIsKept, CurrentIsLive, TaskAt, Leaving, Arriving
<1>. QED
  BY <1>1, <1>3, <1>4, <1>5, <1>6, <1>7, <1>8, <1>9 DEF VersionInv

\* A step that changes nothing.
LEMMA StutterVersionInv == VersionInv /\ UNCHANGED versionVars => VersionInv'
BY DEF VersionInv, versionVars, history, VersionTypeOK, Bounded, Ordered, LockHolds, Unhurried,
   FilesOwned, LiveHasFile, ContentsKnown, ContentsDiffer, CurrentIsKept, CurrentIsLive,
   Taken, Live, TaskAt, Leaving, Arriving

\* VersionInv is inductive, ...
LEMMA VersionInvSteps == VersionInv /\ [VersionNext]_versionVars => VersionInv'
<1> SUFFICES ASSUME VersionInv, [VersionNext]_versionVars PROVE VersionInv'
  OBVIOUS
<1>1. CASE VersionNext
  <2>1. PICK r \in Requests : VersionStep(r)
    BY <1>1 DEF VersionNext
  <2>2. VersionTypeOK' /\ Bounded' /\ Ordered' /\ LockHolds'
    BY <2>1, NextType, NextBounded, NextOrdered, NextLockHolds DEF VersionInv
  <2>3. FilesOwned' /\ LiveHasFile'
    BY <2>1, NextFilesOwned, NextLiveHasFile DEF VersionInv
  <2>4. ContentsKnown' /\ ContentsDiffer'
    BY <2>1, NextContentsKnown, NextContentsDiffer DEF VersionInv
  <2>5. CurrentIsKept' /\ CurrentIsLive'
    BY <2>1, NextCurrentIsKept, NextCurrentIsLive DEF VersionInv
  <2>. QED
    BY <2>2, <2>3, <2>4, <2>5 DEF VersionInv
<1>2. CASE UNCHANGED versionVars
  BY <1>2, StutterVersionInv
<1>. QED
  BY <1>1, <1>2

\* ... and so an invariant.
THEOREM VersionInvariant == VersionSpec => []VersionInv
BY InitVersionInv, VersionInvSteps, PTL DEF VersionSpec

\* Every variable keeps its type: in particular the current version is never moved
\* to a number that was not given out.
THEOREM VersionTypes == VersionSpec => []VersionTypeOK
<1>1. VersionInv => VersionTypeOK
  BY DEF VersionInv
<1>. QED
  BY <1>1, VersionInvariant, PTL

\* Numbers are given out in order and never again, and while nothing was restored
\* or saved over, a lost race for the current version leaves none behind above it.
THEOREM NumbersStayInOrder == VersionSpec => []NumbersInOrder
<1>1. VersionInv => NumbersInOrder
  <2> SUFFICES ASSUME VersionInv PROVE NumbersInOrder
    OBVIOUS
  <2>1. VersionTypeOK /\ (Taken(current) \/ current = 1)
    BY DEF VersionInv, Ordered
  <2>2. ASSUME NEW v \in Versions, v > 1, Taken(v) PROVE Taken(v - 1)
    <3>1. v - 1 \in Versions /\ v - 1 < v
      BY <2>2, VersionBoundsAssumption
    <3>. QED
      BY <2>2, <3>1 DEF VersionInv, Ordered
  <2>3. ASSUME Unhurried, \A r \in Requests : TaskAt(r, "idle"), NEW v \in Versions, v > current
        PROVE  ~Taken(v)
    BY <2>3 DEF VersionInv, LockHolds, TaskAt
  <2>. QED
    BY <2>1, <2>2, <2>3 DEF NumbersInOrder, Unhurried
<1>. QED
  BY <1>1, VersionInvariant, PTL

\* A version that can be listed can be downloaded, unless a retraction failed.
THEOREM LiveVersionsHaveFiles == VersionSpec => []LiveHasFile
<1>1. VersionInv => LiveHasFile
  BY DEF VersionInv
<1>. QED
  BY <1>1, VersionInvariant, PTL

\* Two versions that can be listed never have the same content, as long as the
\* queries of the check answer.
THEOREM LiveContentsDiffer == VersionSpec => []ContentsDiffer
<1>1. VersionInv => ContentsDiffer
  BY DEF VersionInv
<1>. QED
  BY <1>1, VersionInvariant, PTL

\* The current version can be listed, but for the overlaps the history names.
THEOREM CurrentVersionIsLive == VersionSpec => []CurrentIsLive
<1>1. VersionInv => CurrentIsLive
  BY DEF VersionInv
<1>. QED
  BY <1>1, VersionInvariant, PTL

\* Whoever has the list of versions in hand can use it.
LEMMA VersionsAreShown == VersionInv => VersionTypeOK /\ VersionsAreServed
<1> SUFFICES ASSUME VersionInv PROVE VersionsAreServed
  BY DEF VersionInv
<1>1. \A v \in ListVersions : live /\ Live(v) /\ Taken(v) /\ v \in Versions /\ GetVersion(v)
  BY DEF ListVersions, FindByMediaID, GetVersion, Live, Taken
<1>2. ASSUME ListVersions # {}, ~contended PROVE current \in ListVersions
  <2>1. PICK v \in ListVersions : v \in Versions /\ Taken(v) /\ live
    BY <1>1, <1>2
  <2>2. current \in Versions
    BY DEF VersionInv, VersionTypeOK
  <2>3. Taken(1)
    <3>1. v = 1 \/ (1 \in Versions /\ 1 < v)
      BY <2>1, VersionBoundsAssumption
    <3> QED BY <2>1, <3>1 DEF VersionInv, Ordered
  <2>4. Taken(current)
    BY <2>3 DEF VersionInv, Ordered
  <2>5. Live(current)
    BY <1>2, <2>4 DEF VersionInv, CurrentIsLive
  <2> QED BY <2>1, <2>2, <2>5 DEF ListVersions, FindByMediaID
<1>3. \A v \in ListVersions :
        /\ DownloadVersion(v) \/ rows[v].file \in stranded
        /\ GetVersionSignedURL(v) \subseteq files \cup stranded
  BY <1>1 DEF VersionInv, LiveHasFile, DownloadVersion, GetVersionSignedURL
<1>4. \A v, w \in ListVersions : v # w =>
        /\ versionFaults = 0 => HandleDownloadVersion(v) \cap HandleDownloadVersion(w) = {}
        /\ GetVersionSignedURL(v) \cap GetVersionSignedURL(w) = {}
  <2> SUFFICES ASSUME NEW v \in ListVersions, NEW w \in ListVersions, v # w
               PROVE  /\ versionFaults = 0 =>
                            HandleDownloadVersion(v) \cap HandleDownloadVersion(w) = {}
                      /\ GetVersionSignedURL(v) \cap GetVersionSignedURL(w) = {}
    OBVIOUS
  <2>1. versionFaults = 0 => rows[v].sum # rows[w].sum
    BY <1>1 DEF VersionInv, ContentsDiffer
  <2>2. rows[v].file # rows[w].file
    BY <1>1 DEF VersionInv, FilesOwned
  <2>3. HandleDownloadVersion(v) \subseteq {rows[v].sum}
    BY DEF HandleDownloadVersion
  <2>4. HandleDownloadVersion(w) \subseteq {rows[w].sum}
    BY DEF HandleDownloadVersion
  <2>5. GetVersionSignedURL(v) = {rows[v].file} /\ GetVersionSignedURL(w) = {rows[w].file}
    BY <1>1 DEF GetVersionSignedURL
  <2> QED BY <2>1, <2>2, <2>3, <2>4, <2>5
<1> QED BY <1>2, <1>3, <1>4 DEF VersionsAreServed

-----------------------------------------------------------------------------
(* News: rows, requests and sequences *)

\* What a request does to a copy of a row, ...
Titled(row, slug) == [row EXCEPT !.slug = slug]
Dropped(row) == [row EXCEPT !.deleted = TRUE]

\* ... and what it goes on with.
Holding(q, label, copy) == [q EXCEPT !.pc = label, !.copy = copy]
Labelled(q, label) == [q EXCEPT !.pc = label]

\* A row has its types, ...
LEMMA ArticlesAreTyped ==
    ASSUME NEW row \in Article
    PROVE  /\ row.slug \in Slugs /\ row.publishedAt \in Stamp /\ row.status \in NewsStatus
           /\ row.deleted \in BOOLEAN
BY DEF Article

\* ... keeps them with another title, ...
LEMMA TitledIsTyped ==
    ASSUME NEW row \in Article, NEW s \in Slugs
    PROVE  LET x == Titled(row, s)
           IN  /\ x \in Article /\ x.slug = s /\ x.status = row.status
               /\ x.publishedAt = row.publishedAt /\ x.deleted = row.deleted
BY DEF Article, Titled

\* ... when it is deleted, ...
LEMMA DroppedIsTyped ==
    ASSUME NEW row \in Article
    PROVE  LET x == Dropped(row)
           IN  /\ x \in Article /\ x.slug = row.slug /\ x.status = row.status
               /\ x.publishedAt = row.publishedAt /\ x.deleted
BY DEF Article, Dropped

\* ... and with another status, which it keeps the first time of publication with.
LEMMA WithStatusIsTyped ==
    ASSUME NEW row \in Article, NEW s \in NewsStatus, NEW t \in Stamp, t # 0
    PROVE  LET x == WithStatus(row, s, t)
           IN  /\ x \in Article /\ x.slug = row.slug /\ x.status = s
               /\ row.publishedAt \in {0, x.publishedAt} /\ x.deleted = row.deleted
               /\ Stamped(x)
BY DEF Article, WithStatus, Stamped

\* What a request carries, ...
LEMMA NewsRequestsAreTyped ==
    ASSUME NEW q \in NewsRequest
    PROVE  /\ q.user \in Reporters /\ q.id \in 0..MaxArticles /\ q.slug \in Slugs \cup {"keep"}
           /\ q.status \in NewsStatus \cup {"keep"} /\ q.stamp \in Stamp
           /\ q.copy \in Seq(Article) /\ q.pc # "idle"
BY DEF NewsRequest

\* ... with a copy of a row or without, ...
LEMMA HoldingIsTyped ==
    ASSUME NEW q \in NewsRequest, NEW label \in {"savenews", "savestatus"},
           NEW copy \in Seq(Article)
    PROVE  LET x == Holding(q, label, copy)
           IN  /\ x \in NewsRequest /\ x.pc = label /\ x.copy = copy
               /\ x.id = q.id /\ x.status = q.status /\ x.stamp = q.stamp /\ x.slug = q.slug
BY DEF NewsRequest, Holding

\* ... when it is about to announce, ...
LEMMA AnnouncingIsTyped ==
    ASSUME NEW q \in NewsRequest
    PROVE  LET x == Holding(q, "announce", <<>>)
           IN  /\ x \in NewsRequest /\ x.pc = "announce" /\ x.copy = <<>>
               /\ x.id = q.id /\ x.stamp = q.stamp
<1>1. <<>> \in Seq(Article)
  OBVIOUS
<1> QED BY <1>1 DEF NewsRequest, Holding

\* ... and at another statement.
LEMMA LabelledIsTyped ==
    ASSUME NEW q \in NewsRequest, NEW label \in {"dropnews", "mourn"}
    PROVE  LET x == Labelled(q, label)
           IN  /\ x \in NewsRequest /\ x.pc = label /\ x.copy = q.copy
               /\ x.id = q.id /\ x.stamp = q.stamp
BY DEF NewsRequest, Labelled

\* A new request.
LEMMA AskingIsTyped ==
    ASSUME MaxRequests \in Nat, begun \in 0..MaxRequests, begun < MaxRequests,
           NEW label \in {"news", "change", "status", "drop"}, NEW u \in Reporters,
           NEW n \in 0..MaxArticles, NEW slug \in Slugs \cup {"keep"},
           NEW status \in NewsStatus \cup {"keep"}
    PROVE  LET q == Asking(label, u, n, slug, status)
           IN  /\ q \in NewsRequest /\ q.pc = label /\ q.id = n /\ q.slug = slug
               /\ q.status = status /\ q.stamp # 0 /\ q.copy = <<>>
<1>1. <<>> \in Seq(Article) /\ begun + 1 \in Stamp /\ begun + 1 # 0
  BY DEF Stamp
<1> QED BY <1>1 DEF Asking, NewsRequest

\* What a step does to the rows: one is added, ...
RowAdded(row) ==
    /\ row \in Article /\ Stamped(row) /\ SlugIsFree(row.slug, 0)
    /\ Len(news) < MaxArticles
    /\ news' = Append(news, row)
    /\ told' = Append(told, NoCounts) /\ turns' = Append(turns, NoCounts)
    /\ crossed' = crossed

\* ... or one is written by request r.
RowWritten(r, n, row) ==
    /\ n \in Articles /\ row \in Article /\ Stamped(row) /\ SlugIsFree(row.slug, n)
    /\ news' = [news EXCEPT ![n] = row]
    /\ CrossNews(r, n)
    /\ n \in crossed' \/ Moved(n)

\* The request goes on without a row, and owes the bus nothing more or has failed; ...
GoesOn(r, q) ==
    /\ UNCHANGED newsVars
    /\ faults' = faults + 1 \/ (~At(r, "announce") /\ ~At(r, "mourn"))
    /\ q.pc \notin {"announce", "mourn"}

\* ... it ends with a new row; ...
Creates(r, q) ==
    /\ At(r, "news") /\ q = Idle
    /\ \E row \in Article : RowAdded(row)

\* ... it writes a row, and may owe the bus an event; ...
Writes(r, q) ==
    /\ At(r, "savenews") \/ At(r, "savestatus") \/ At(r, "dropnews")
    /\ told' = told
    /\ \E n \in Articles, row \in Article :
        /\ RowWritten(r, n, row)
        /\ \/ q = Idle /\ turns' = turns
           \/ /\ q.pc = "announce" /\ q.id = n
              /\ turns' = [turns EXCEPT ![n].published = @ + 1]
           \/ /\ q.pc = "mourn" /\ q.id = n
              /\ turns' = [turns EXCEPT ![n].deleted = @ + 1]

\* ... or it tells the bus what it owes.
Tells(r, q) ==
    /\ q = Idle /\ UNCHANGED <<news, turns, crossed>>
    /\ \/ At(r, "announce") /\ told' = [told EXCEPT ![req[r].id].published = @ + 1]
       \/ At(r, "mourn") /\ told' = [told EXCEPT ![req[r].id].deleted = @ + 1]

NewsStep ==
    /\ begun' \in 0..MaxRequests
    /\ faults' \in {faults, faults + 1} /\ faults' \in 0..MaxFaults
    /\ \E r \in Slots, q \in NewsRequest \cup {Idle} :
        /\ req' = [req EXCEPT ![r] = q]
        /\ q.pc = "idle" \/ KnowsItsRow(q)'
        /\ GoesOn(r, q) \/ Creates(r, q) \/ Writes(r, q) \/ Tells(r, q)

\* What the invariant says of the request in a slot.
LEMMA RequestInSlot ==
    ASSUME NewsInv, NEW r \in Slots, ~At(r, "idle")
    PROVE  /\ req[r] \in NewsRequest /\ KnowsItsRow(req[r])
           /\ req[r].stamp \in Stamp \ {0}
<1>1. req[r] \in NewsRequest \cup {Idle} /\ KnowsItsRow(req[r])
  BY DEF NewsInv, NewsTypeOK, RequestsAre
<1>2. req[r] # Idle
  BY DEF At, Idle
<1> QED BY <1>1, <1>2, NewsRequestsAreTyped DEF KnowsItsRow

\* A step of a request that ends or owes nothing, and changes no row.
LEMMA RequestsGoOn ==
    ASSUME NewsInv, NEW r \in Slots, NEW q \in NewsRequest \cup {Idle},
           Become(r, q), UNCHANGED newsVars, ~At(r, "announce"), ~At(r, "mourn"),
           q.pc \notin {"announce", "mourn"}, q.pc = "idle" \/ KnowsItsRow(q)
    PROVE  NewsStep
<1>1. begun' \in 0..MaxRequests /\ faults' = faults /\ faults' \in 0..MaxFaults
  BY DEF NewsInv, NewsTypeOK, RequestsAre, Become
<1>2. KnowsItsRow(q) => KnowsItsRow(q)'
  BY DEF KnowsItsRow, CopyFits, newsVars, Articles
<1> QED BY <1>1, <1>2 DEF NewsStep, GoesOn, Become

\* A handler begins.
LEMMA NewsBegins ==
    ASSUME NewsInv, NEW r \in Slots, NEW u \in Reporters,
           NEW label \in {"news", "change", "status", "drop"},
           NEW n \in 0..MaxArticles, NEW slug \in Slugs \cup {"keep"},
           NEW status \in NewsStatus \cup {"keep"},
           Begin(r, Asking(label, u, n, slug, status)), UNCHANGED newsVars,
           label = "news" => slug \in Slugs, label # "news" => n \in Articles,
           label = "status" => status # "keep"
    PROVE  NewsStep
<1>1. /\ begun \in 0..MaxRequests /\ begun < MaxRequests /\ MaxRequests \in Nat
      /\ begun' = begun + 1 /\ faults' = faults /\ faults \in 0..MaxFaults
      /\ At(r, "idle")
  BY RequestBoundsAssumption DEF NewsInv, NewsTypeOK, RequestsAre, Begin
<1>0. PICK q : q = Asking(label, u, n, slug, status)
  OBVIOUS
<1>2. /\ q \in NewsRequest /\ q.pc = label /\ q.id = n /\ q.slug = slug
      /\ q.status = status /\ q.stamp # 0 /\ q.copy = <<>>
  BY <1>0, <1>1, AskingIsTyped, SMTT(30)
<1>3. req' = [req EXCEPT ![r] = q]
  BY <1>0 DEF Begin
<1>4. KnowsItsRow(q)'
  BY <1>2 DEF KnowsItsRow, newsVars, Articles
<1>5. GoesOn(r, q)
  BY <1>1, <1>2 DEF GoesOn, At
<1>6. begun' \in 0..MaxRequests
  BY <1>1
<1> QED BY <1>1, <1>2, <1>3, <1>4, <1>5, <1>6 DEF NewsStep

\* What a request saves is what it read, but for what it was asked to change.
LEMMA SavesWrite ==
    ASSUME NewsInv, NEW r \in Slots, At(r, "savenews") \/ At(r, "savestatus"),
           NEW row \in Article, Stamped(row), SlugIsFree(row.slug, req[r].id),
           news' = [news EXCEPT ![req[r].id] = row], CrossNews(r, req[r].id),
           \/ row.status = req[r].copy[1].status
           \/ CanTransitionTo(req[r].copy[1].status, row.status),
           req[r].copy[1].publishedAt \in {0, row.publishedAt},
           row.deleted = req[r].copy[1].deleted
    PROVE  req[r].id \in Articles /\ RowWritten(r, req[r].id, row)
<1> DEFINE n == req[r].id
<1>1. /\ n \in Articles /\ (n \in crossed \/ req[r].copy[1] = news[n])
      /\ news \in Seq(Article)
  BY RequestInSlot DEF At, KnowsItsRow, CopyFits, NewsInv, NewsTypeOK
<1>2. news'[n] = row
  BY <1>1, RowOfASequence DEF Articles
<1>3. n \in crossed => n \in crossed'
  BY DEF CrossNews
<1>4. ASSUME req[r].copy[1] = news[n] PROVE Moved(n)
  BY <1>2, <1>4 DEF Moved, CanTransitionTo
<1> QED BY <1>1, <1>3, <1>4 DEF RowWritten

\* The steps of Create, Update, UpdateStatus and Delete are steps of this form.
LEMMA NewsSteps ==
    ASSUME NewsInv, NewsNext
    PROVE  NewsStep
<1>0. /\ NewsTypeOK /\ begun \in 0..MaxRequests /\ faults \in 0..MaxFaults
      /\ MaxRequests \in Nat /\ MaxFaults \in Nat /\ Articles = 1..Len(news)
      /\ Len(news) \in 0..MaxArticles /\ news \in Seq(Article)
      /\ Idle \in NewsRequest \cup {Idle} /\ Idle.pc = "idle"
  BY RequestBoundsAssumption DEF NewsInv, NewsTypeOK, RequestsAre, Idle, Articles
<1>1. ASSUME NEW r \in Slots, NewsHandlers(r) PROVE NewsStep
  <2>1. Articles \subseteq 0..MaxArticles /\ 0 \in 0..MaxArticles
    BY <1>0, ArticlesAssumption
  <2>2. PICK u \in Reporters :
          \/ \E s \in Slugs : HandleCreateNews(r, u, s)
          \/ \E n \in Articles :
              \/ \E slug \in Slugs \cup {"keep"}, status \in NewsStatus \cup {"keep"} :
                    HandleUpdateNews(r, u, n, slug, status)
              \/ \E status \in NewsStatus : HandleUpdateStatus(r, u, n, status)
              \/ HandleDeleteNews(r, u, n)
    BY <1>1 DEF NewsHandlers
  <2>3. ASSUME NEW s \in Slugs, HandleCreateNews(r, u, s) PROVE NewsStep
    BY <2>1, <2>3, NewsBegins DEF HandleCreateNews
  <2>4. ASSUME NEW n \in Articles, NEW slug \in Slugs \cup {"keep"},
               NEW status \in NewsStatus \cup {"keep"}, HandleUpdateNews(r, u, n, slug, status)
        PROVE  NewsStep
    BY <2>1, <2>4, NewsBegins DEF HandleUpdateNews
  <2>5. ASSUME NEW n \in Articles, NEW status \in NewsStatus, HandleUpdateStatus(r, u, n, status)
        PROVE  NewsStep
    <3>1. status # "keep"
      BY DEF NewsStatus
    <3> QED BY <2>1, <2>5, <3>1, NewsBegins DEF HandleUpdateStatus
  <2>6. ASSUME NEW n \in Articles, HandleDeleteNews(r, u, n) PROVE NewsStep
    BY <2>1, <2>6, NewsBegins DEF HandleDeleteNews
  <2> QED BY <2>2, <2>3, <2>4, <2>5, <2>6
<1>2. ASSUME NEW r \in Slots, CreateNews(r) PROVE NewsStep
  <2>1. req[r].slug \in Slugs /\ At(r, "news") /\ req[r].user \in Reporters
    BY <1>2, RequestInSlot, NewsRequestsAreTyped DEF CreateNews, At, KnowsItsRow
  <2>2. CASE SlugIsFree(req[r].slug, 0)
    <3> DEFINE row == [author |-> req[r].user, slug |-> req[r].slug, status |-> "draft",
                       publishedAt |-> 0, deleted |-> FALSE]
    <3>1. row \in Article /\ Stamped(row) /\ row.slug = req[r].slug
      BY <1>0, <2>1 DEF Article, NewsStatus, Stamp, Stamped
    <3>2. RowAdded(row)
      BY <1>2, <2>2, <3>1 DEF CreateNews, RowAdded
    <3> HIDE DEF row
    <3>3. Creates(r, Idle)
      BY <2>1, <3>1, <3>2 DEF Creates
    <3> QED BY <1>0, <1>2, <3>3 DEF CreateNews, Finish, Become, NewsStep
  <2>3. CASE ~SlugIsFree(req[r].slug, 0)
    BY <1>0, <1>2, <2>1, <2>3, RequestsGoOn DEF CreateNews, Finish, newsVars, At
  <2> QED BY <2>2, <2>3
<1>3. ASSUME NEW r \in Slots, NEW label \in {"savenews", "savestatus"},
             At(r, "change") \/ At(r, "status"), News_FindByID(req[r].id),
             \/ label = "savenews" /\ req[r].status \in {"keep", news[req[r].id].status}
             \/ CanTransitionTo(news[req[r].id].status, req[r].status),
             label = "savestatus" => At(r, "status"),
             Become(r, [req[r] EXCEPT !.pc = label, !.copy = <<news[req[r].id]>>]),
             UNCHANGED newsVars
      PROVE  NewsStep
  <2> DEFINE row == news[req[r].id]
             q == Holding(req[r], label, <<row>>)
  <2>1. /\ req[r] \in NewsRequest /\ KnowsItsRow(req[r]) /\ ~At(r, "announce") /\ ~At(r, "mourn")
        /\ req[r].id \in Articles
    BY <1>3, RequestInSlot DEF At, News_FindByID
  <2>2. row \in Article /\ Stamped(row)
    BY <1>0, <2>1 DEF NewsInv, RowsAreSound
  <2>3. /\ q \in NewsRequest /\ q.pc = label /\ q.copy = <<row>>
        /\ q.id = req[r].id /\ q.status = req[r].status /\ q.stamp = req[r].stamp
    <3>1. PICK copy : copy = <<row>>
      OBVIOUS
    <3>2. copy \in Seq(Article)
      BY <2>2, <3>1
    <3> HIDE DEF row
    <3>3. q = Holding(req[r], label, copy)
      BY <3>1
    <3> HIDE DEF q
    <3>4. /\ q \in NewsRequest /\ q.pc = label /\ q.copy = copy
          /\ q.id = req[r].id /\ q.status = req[r].status /\ q.stamp = req[r].stamp
      BY <2>1, <3>2, <3>3, HoldingIsTyped
    <3> QED BY <3>1, <3>4
  <2>4. Become(r, q)
    BY <1>3 DEF Holding
  <2>5. Len(<<row>>) = 1 /\ <<row>>[1] = row
    OBVIOUS
  <2>6. label = "savestatus" => req[r].status # "keep"
    BY <1>3, <2>1 DEF KnowsItsRow, At
  <2> HIDE DEF q
  <2>7. CopyFits(q)
    BY <1>3, <2>2, <2>3, <2>5 DEF CopyFits
  <2>8. KnowsItsRow(q)
    BY <2>1, <2>3, <2>6, <2>7 DEF KnowsItsRow
  <2> QED BY <1>3, <2>1, <2>3, <2>4, <2>8, RequestsGoOn
<1>4. ASSUME NEW r \in Slots, UpdateNews(r) PROVE NewsStep
  <2>1. CASE Finish(r)
    BY <1>0, <1>4, <2>1, RequestsGoOn DEF UpdateNews, Finish, At
  <2>2. CASE ~Finish(r)
    BY <1>3, <1>4, <2>2 DEF UpdateNews, MayTouch
  <2> QED BY <2>1, <2>2
<1>5. ASSUME NEW r \in Slots, UpdateStatus(r) PROVE NewsStep
  <2>1. CASE Finish(r)
    BY <1>0, <1>5, <2>1, RequestsGoOn DEF UpdateStatus, Finish, At
  <2>2. CASE ~Finish(r)
    BY <1>3, <1>5, <2>2 DEF UpdateStatus, MayTouch
  <2> QED BY <2>1, <2>2
<1>6. ASSUME NEW r \in Slots, NEW q \in NewsRequest \cup {Idle}, Become(r, q),
             q.pc = "idle" \/ KnowsItsRow(q)', Writes(r, q)
      PROVE  NewsStep
  BY <1>0, <1>6 DEF Become, NewsStep
<1>7. ASSUME NEW r \in Slots, SaveNews(r) PROVE NewsStep
  <2> DEFINE q == req[r]
             old == q.copy[1]
             titled == IF q.slug = "keep" THEN old ELSE Titled(old, q.slug)
             row == IF q.status \in {"keep", old.status} THEN titled
                    ELSE WithStatus(titled, q.status, q.stamp)
  <2>1. /\ q \in NewsRequest /\ KnowsItsRow(q) /\ q.stamp \in Stamp \ {0} /\ At(r, "savenews")
        /\ q.slug \in Slugs \cup {"keep"} /\ q.status \in NewsStatus \cup {"keep"}
        /\ q.copy \in Seq(Article) /\ CopyFits(q) /\ Stamped(old)
    BY <1>7, RequestInSlot, NewsRequestsAreTyped DEF SaveNews, At, KnowsItsRow, CopyFits
  <2>2. old \in Article
    BY <2>1 DEF CopyFits
  <2>3. CASE SlugIsFree(titled.slug, q.id)
    <3>1. /\ titled \in Article /\ titled.status = old.status /\ Stamped(titled)
          /\ titled.publishedAt = old.publishedAt /\ titled.deleted = old.deleted
      BY <2>1, <2>2, TitledIsTyped DEF Stamped
    <3>2. /\ row \in Article /\ Stamped(row) /\ row.slug = titled.slug
          /\ row.status = old.status \/ CanTransitionTo(old.status, row.status)
          /\ old.publishedAt \in {0, row.publishedAt} /\ row.deleted = old.deleted
      <4>1. CASE q.status \in {"keep", old.status}
        BY <3>1, <4>1
      <4>2. CASE q.status \notin {"keep", old.status}
        <5>1. q.status \in NewsStatus /\ CanTransitionTo(old.status, q.status)
          BY <2>1, <4>2 DEF CopyFits
        <5>2. row = WithStatus(titled, q.status, q.stamp)
          BY <4>2
        <5> HIDE DEF row, titled
        <5>3. /\ row \in Article /\ row.slug = titled.slug /\ row.status = q.status
              /\ titled.publishedAt \in {0, row.publishedAt} /\ row.deleted = titled.deleted
              /\ Stamped(row)
          BY <2>1, <3>1, <5>1, <5>2, WithStatusIsTyped
        <5> QED BY <3>1, <5>1, <5>3
      <4> QED BY <4>1, <4>2
    <3>3. /\ news' = [news EXCEPT ![q.id] = row] /\ CrossNews(r, q.id)
          /\ Become(r, Idle) /\ told' = told /\ turns' = turns
      BY <1>7, <2>3 DEF SaveNews, Finish, Titled
    <3> HIDE DEF row, titled
    <3>4. q.id \in Articles /\ RowWritten(r, q.id, row)
      BY <2>1, <2>3, <3>2, <3>3, SavesWrite
    <3>5. Writes(r, Idle)
      BY <2>1, <3>2, <3>3, <3>4 DEF Writes
    <3> QED BY <1>0, <1>6, <3>3, <3>5
  <2>4. CASE ~SlugIsFree(titled.slug, q.id)
    <3>1. UNCHANGED newsVars /\ Become(r, Idle)
      BY <1>7, <2>4 DEF SaveNews, newsVars, Finish, Titled
    <3> QED BY <1>0, <2>1, <3>1, RequestsGoOn DEF At
  <2> QED BY <2>3, <2>4
<1>8. ASSUME NEW r \in Slots, SaveStatus(r) PROVE NewsStep
  <2> DEFINE q == req[r]
             old == q.copy[1]
             row == WithStatus(old, q.status, q.stamp)
  <2>1. /\ q \in NewsRequest /\ KnowsItsRow(q) /\ q.stamp \in Stamp \ {0} /\ At(r, "savestatus")
        /\ q.status \in NewsStatus \cup {"keep"} /\ q.status # "keep"
        /\ q.copy \in Seq(Article) /\ CopyFits(q) /\ q.id \in Articles
    BY <1>8, RequestInSlot, NewsRequestsAreTyped DEF SaveStatus, At, KnowsItsRow
  <2>2. old \in Article /\ q.status \in NewsStatus /\ CanTransitionTo(old.status, q.status)
    BY <2>1 DEF CopyFits, At
  <2>3. CASE SlugIsFree(old.slug, q.id) /\ news' = [news EXCEPT ![q.id] = row]
    <3>1. /\ row \in Article /\ Stamped(row) /\ row.slug = old.slug /\ row.status = q.status
          /\ old.publishedAt \in {0, row.publishedAt} /\ row.deleted = old.deleted
      BY <2>1, <2>2, WithStatusIsTyped
    <3> HIDE DEF row
    <3>2. CrossNews(r, q.id) /\ told' = told
      BY <1>8, <2>3 DEF SaveStatus
    <3>3. RowWritten(r, q.id, row)
      BY <2>1, <2>2, <2>3, <3>1, <3>2, SavesWrite
    <3>4. CASE Finish(r) /\ turns' = turns
      <4>1. Writes(r, Idle)
        BY <2>1, <3>1, <3>2, <3>3, <3>4 DEF Writes
      <4> QED BY <1>0, <1>6, <3>4, <4>1 DEF Finish
    <3>5. CASE /\ Become(r, [q EXCEPT !.pc = "announce", !.copy = <<>>])
               /\ turns' = [turns EXCEPT ![q.id].published = @ + 1]
      <4>0. PICK next : next = Holding(q, "announce", <<>>)
        OBVIOUS
      <4>1. /\ next \in NewsRequest /\ next.pc = "announce" /\ next.copy = <<>>
            /\ next.id = q.id /\ next.stamp = q.stamp
        <5> HIDE DEF q, old
        <5> QED BY <2>1, <4>0, AnnouncingIsTyped
      <4>5. Become(r, next)
        BY <3>5, <4>0 DEF Holding
      <4>2. Writes(r, next)
        BY <2>1, <3>1, <3>2, <3>3, <3>5, <4>1 DEF Writes
      <4>3. Articles' = Articles
        BY <1>0, <2>1, <2>3, <3>1, RowOfASequence DEF Articles
      <4>4. KnowsItsRow(next)'
        BY <2>1, <4>1, <4>3 DEF KnowsItsRow
      <4> QED BY <1>6, <4>5, <4>1, <4>2, <4>4
    <3> QED BY <1>8, <2>3, <3>4, <3>5 DEF SaveStatus
  <2>4. CASE UNCHANGED <<news, turns, crossed>> /\ Finish(r)
    BY <1>0, <1>8, <2>1, <2>4, RequestsGoOn DEF SaveStatus, newsVars, Finish, At
  <2> QED BY <1>8, <2>3, <2>4 DEF SaveStatus
<1>9. ASSUME NEW r \in Slots, DeleteNews(r) PROVE NewsStep
  <2>1. CASE Finish(r)
    BY <1>0, <1>9, <2>1, RequestsGoOn DEF DeleteNews, Finish, At
  <2>2. CASE Goto(r, "dropnews")
    <3> DEFINE q == Labelled(req[r], "dropnews")
    <3>1. req[r] \in NewsRequest /\ KnowsItsRow(req[r]) /\ At(r, "drop")
      BY <1>9, RequestInSlot DEF DeleteNews, At
    <3>2. /\ q \in NewsRequest /\ q.pc = "dropnews" /\ q.copy = req[r].copy
          /\ q.id = req[r].id /\ q.stamp = req[r].stamp
      BY <3>1, LabelledIsTyped
    <3>3. Become(r, q)
      BY <2>2 DEF Goto, Labelled
    <3> HIDE DEF q
    <3>4. KnowsItsRow(q)
      BY <3>1, <3>2 DEF KnowsItsRow, At
    <3> QED BY <1>9, <3>1, <3>2, <3>3, <3>4, RequestsGoOn DEF DeleteNews, At
  <2> QED BY <1>9, <2>1, <2>2 DEF DeleteNews
<1>10. ASSUME NEW r \in Slots, SoftDeleteNews(r) PROVE NewsStep
  <2> DEFINE n == req[r].id
             row == Dropped(news[n])
  <2>1. /\ req[r] \in NewsRequest /\ KnowsItsRow(req[r]) /\ At(r, "dropnews") /\ n \in Articles
        /\ news[n] \in Article
    BY <1>0, <1>10, RequestInSlot DEF SoftDeleteNews, At, KnowsItsRow
  <2>2. CASE Droppable(n)
    <3>0. PICK q : q = Labelled(req[r], "mourn")
      OBVIOUS
    <3>1. /\ row \in Article /\ row.slug = news[n].slug /\ row.status = news[n].status
          /\ row.publishedAt = news[n].publishedAt
      BY <2>1, DroppedIsTyped
    <3>2. news' = [news EXCEPT ![n] = row] /\ CrossNews(r, n) /\ told' = told /\ Become(r, q)
          /\ turns' = [turns EXCEPT ![n].deleted = @ + 1]
      BY <1>10, <2>2, <3>0 DEF SoftDeleteNews, Goto, Droppable, Dropped, Labelled
    <3>3. /\ q \in NewsRequest /\ q.pc = "mourn" /\ q.copy = req[r].copy
          /\ q.id = req[r].id /\ q.stamp = req[r].stamp
      BY <2>1, <3>0, LabelledIsTyped
    <3>4. ~news[n].deleted
      BY <2>2 DEF Droppable
    <3> HIDE DEF row
    <3>5. Stamped(row) /\ SlugIsFree(row.slug, n)
      BY <2>1, <3>1 DEF NewsInv, RowsAreSound, Stamped
    <3>6. Articles' = Articles /\ news'[n] = row
      BY <1>0, <2>1, <3>1, <3>2, RowOfASequence DEF Articles
    <3>7. Moved(n)
      BY <3>1, <3>4, <3>6 DEF Moved
    <3>8. RowWritten(r, n, row)
      BY <2>1, <3>1, <3>2, <3>5, <3>7 DEF RowWritten
    <3>9. Writes(r, q)
      BY <2>1, <3>1, <3>2, <3>3, <3>8 DEF Writes
    <3>10. KnowsItsRow(q)'
      BY <2>1, <3>3, <3>6 DEF KnowsItsRow, At
    <3> QED BY <1>6, <3>2, <3>3, <3>9, <3>10
  <2>3. CASE ~Droppable(n)
    BY <1>0, <1>10, <2>1, <2>3, RequestsGoOn DEF SoftDeleteNews, newsVars, Finish, At
  <2> QED BY <2>2, <2>3
<1>11. ASSUME NEW r \in Slots, Stumble(r, Idle), UNCHANGED newsVars PROVE NewsStep
  <2>1. /\ begun' = begun /\ faults' = faults + 1 /\ faults' \in 0..MaxFaults
        /\ req' = [req EXCEPT ![r] = Idle]
    BY <1>0, <1>11 DEF Stumble
  <2>2. GoesOn(r, Idle)
    BY <1>11, <2>1 DEF GoesOn, Idle
  <2> QED BY <1>0, <2>1, <2>2 DEF NewsStep
<1>12. ASSUME NEW r \in Slots, AnnounceNews(r) PROVE NewsStep
  <2>1. CASE Stumble(r, Idle) /\ UNCHANGED told
    BY <1>11, <1>12, <2>1 DEF AnnounceNews, newsVars
  <2>2. CASE Finish(r) /\ told' = [told EXCEPT ![req[r].id].published = @ + 1]
    BY <1>0, <1>12, <2>2 DEF AnnounceNews, Tells, NewsStep, Finish, Become
  <2> QED BY <1>12, <2>1, <2>2 DEF AnnounceNews
<1>13. ASSUME NEW r \in Slots, AnnounceDeletion(r) PROVE NewsStep
  <2>1. CASE Stumble(r, Idle) /\ UNCHANGED told
    BY <1>11, <1>13, <2>1 DEF AnnounceDeletion, newsVars
  <2>2. CASE Finish(r) /\ told' = [told EXCEPT ![req[r].id].deleted = @ + 1]
    BY <1>0, <1>13, <2>2 DEF AnnounceDeletion, Tells, NewsStep, Finish, Become
  <2> QED BY <1>13, <2>1, <2>2 DEF AnnounceDeletion
<1>14. ASSUME NEW r \in Slots, Abort(r), UNCHANGED newsVars PROVE NewsStep
  BY <1>11, <1>14 DEF Abort
<1> QED
  BY <1>1, <1>2, <1>4, <1>5, <1>7, <1>8, <1>9, <1>10, <1>12, <1>13, <1>14 DEF NewsNext

\* A row stays where it is, and so do its events, in every step.
LEMMA NewsTypesAreKept ==
    ASSUME NewsInv, NewsStep
    PROVE  NewsTypeOK' /\ Articles \subseteq Articles' /\ crossed \subseteq crossed'
<1>0. /\ news \in Seq(Article) /\ told \in Seq(Counts) /\ turns \in Seq(Counts)
      /\ Len(news) \in 0..MaxArticles /\ Len(told) = Len(news) /\ Len(turns) = Len(news)
      /\ crossed \subseteq Articles /\ Articles = 1..Len(news)
      /\ DOMAIN told = Articles /\ DOMAIN turns = Articles
      /\ MaxArticles \in Nat
  BY ArticlesAssumption DEF NewsInv, NewsTypeOK, Articles
<1>1. RequestsAre(NewsRequest)'
  BY DEF NewsStep, NewsInv, NewsTypeOK, RequestsAre
<1>2. ASSUME UNCHANGED newsVars
      PROVE  NewsTypeOK' /\ Articles \subseteq Articles' /\ crossed \subseteq crossed'
  BY <1>1, <1>2 DEF NewsInv, NewsTypeOK, newsVars, Articles
<1>3. ASSUME NEW row \in Article, RowAdded(row)
      PROVE  NewsTypeOK' /\ Articles \subseteq Articles' /\ crossed \subseteq crossed'
  <2>1. NoCounts \in Counts
    BY DEF NoCounts, Counts
  <2>2. news' \in Seq(Article) /\ Len(news') = Len(news) + 1 /\ Articles \subseteq Articles'
    BY <1>0, <1>3, LongerSequence DEF RowAdded, Articles
  <2>3. told' \in Seq(Counts) /\ Len(told') = Len(news) + 1
    BY <1>0, <1>3, <2>1, LongerSequence DEF RowAdded
  <2>4. turns' \in Seq(Counts) /\ Len(turns') = Len(news) + 1
    BY <1>0, <1>3, <2>1, LongerSequence DEF RowAdded
  <2> QED BY <1>0, <1>1, <1>3, <2>2, <2>3, <2>4, SMTT(30) DEF NewsTypeOK, RowAdded
<1>4. ASSUME NEW s \in Seq(Counts), NEW n \in DOMAIN s, NEW t,
             \/ t = [s EXCEPT ![n].published = @ + 1]
             \/ t = [s EXCEPT ![n].deleted = @ + 1]
      PROVE  t \in Seq(Counts) /\ Len(t) = Len(s)
  <2>1. s[n] \in Counts
    OBVIOUS
  <2>2. PICK e \in Counts : t = [s EXCEPT ![n] = e]
    <3>1. [s[n] EXCEPT !.published = @ + 1] \in Counts
      BY <2>1 DEF Counts
    <3>2. [s[n] EXCEPT !.deleted = @ + 1] \in Counts
      BY <2>1, SMTT(30) DEF Counts
    <3> QED BY <1>4, <3>1, <3>2
  <2> QED BY <2>2, RowOfASequence
<1>5. ASSUME NEW r \in Slots, NEW n \in Articles, NEW row \in Article, RowWritten(r, n, row),
             told' \in Seq(Counts), Len(told') = Len(news),
             turns' \in Seq(Counts), Len(turns') = Len(news)
      PROVE  NewsTypeOK' /\ Articles \subseteq Articles' /\ crossed \subseteq crossed'
  <2>1. news' \in Seq(Article) /\ Len(news') = Len(news) /\ Articles' = Articles
    BY <1>0, <1>5, RowOfASequence DEF RowWritten, Articles
  <2>2. crossed' \subseteq Articles /\ crossed \subseteq crossed'
    BY <1>0, <1>5 DEF RowWritten, CrossNews
  <2> QED BY <1>0, <1>1, <1>5, <2>1, <2>2 DEF NewsTypeOK
<1>6. ASSUME NEW r \in Slots, NEW q, Writes(r, q)
      PROVE  NewsTypeOK' /\ Articles \subseteq Articles' /\ crossed \subseteq crossed'
  <2>1. PICK n \in Articles, row \in Article :
        /\ RowWritten(r, n, row)
        /\ \/ turns' = turns
           \/ turns' = [turns EXCEPT ![n].published = @ + 1]
           \/ turns' = [turns EXCEPT ![n].deleted = @ + 1]
    BY <1>6 DEF Writes
  <2>2. told' \in Seq(Counts) /\ Len(told') = Len(news)
    BY <1>0, <1>6 DEF Writes
  <2>3. turns' \in Seq(Counts) /\ Len(turns') = Len(news)
    <3>1. n \in DOMAIN turns
      BY <1>0
    <3>2. CASE turns' = turns
      BY <1>0, <3>2
    <3>3. CASE \/ turns' = [turns EXCEPT ![n].published = @ + 1]
               \/ turns' = [turns EXCEPT ![n].deleted = @ + 1]
      BY <1>0, <1>4, <3>1, <3>3, ZenonT(40)
    <3> QED BY <2>1, <3>2, <3>3
  <2> QED BY <1>5, <2>1, <2>2, <2>3
<1>7. ASSUME NEW r \in Slots, NEW q, Tells(r, q)
      PROVE  NewsTypeOK' /\ Articles \subseteq Articles' /\ crossed \subseteq crossed'
  <2>1. req[r].id \in DOMAIN told
    BY <1>0, <1>7, RequestInSlot DEF Tells, At, KnowsItsRow
  <2>2. told' \in Seq(Counts) /\ Len(told') = Len(news)
    BY <1>0, <1>4, <1>7, <2>1, ZenonT(40) DEF Tells
  <2> QED BY <1>0, <1>1, <1>7, <2>2 DEF NewsTypeOK, Tells, Articles
<1> QED BY <1>2, <1>3, <1>6, <1>7 DEF NewsStep, GoesOn, Creates

\* What a step leaves in the rows.
LEMMA RowsAfter ==
    ASSUME NewsInv, NewsStep
    PROVE  RowsAreSound' /\ \A n \in Articles : n \in crossed' \/ Moved(n)
<1>0. news \in Seq(Article) /\ RowsAreSound
  BY DEF NewsInv, NewsTypeOK
<1>1. ASSUME NEW n \in Articles, news'[n] = news[n] PROVE Moved(n)
  BY <1>1 DEF Moved
<1>2. CASE news' = news
  BY <1>0, <1>1, <1>2 DEF RowsAreSound, Stamped, SlugIsFree, Articles
<1>3. ASSUME NEW row \in Article, RowAdded(row)
      PROVE  RowsAreSound' /\ \A n \in Articles : n \in crossed' \/ Moved(n)
  <2>1. /\ Articles' = Articles \cup {Len(news) + 1} /\ Len(news) + 1 \notin Articles
        /\ news'[Len(news) + 1] = row /\ \A n \in Articles : news'[n] = news[n]
    BY <1>0, <1>3, LongerSequence DEF RowAdded, Articles
  <2>2. \A m \in Articles : news[m].slug # row.slug
    BY <1>0, <1>3 DEF RowAdded, SlugIsFree, Articles
  <2>3. Stamped(row)
    BY <1>3 DEF RowAdded
  <2> QED BY <1>0, <1>1, <2>1, <2>2, <2>3 DEF RowsAreSound, Stamped, SlugIsFree
<1>4. ASSUME NEW r \in Slots, NEW n \in Articles, NEW row \in Article, RowWritten(r, n, row)
      PROVE  RowsAreSound' /\ \A m \in Articles : m \in crossed' \/ Moved(m)
  <2>1. /\ Articles' = Articles /\ news'[n] = row
        /\ \A m \in Articles : m # n => news'[m] = news[m]
    BY <1>0, <1>4, RowOfASequence DEF RowWritten, Articles
  <2>2. \A m \in Articles \ {n} : news[m].slug # row.slug
    BY <1>4 DEF RowWritten, SlugIsFree
  <2>3. Stamped(row) /\ (n \in crossed' \/ Moved(n))
    BY <1>4 DEF RowWritten
  <2> QED BY <1>0, <1>1, <2>1, <2>2, <2>3 DEF RowsAreSound, Stamped, SlugIsFree
<1> QED
  BY <1>2, <1>3, <1>4 DEF NewsStep, GoesOn, Creates, Writes, Tells, newsVars

\* A request that is not in the way keeps what it knows, unless its row is crossed.
LEMMA OthersKnow ==
    ASSUME NewsInv, NewsStep
    PROVE  \A s \in Slots : At(s, "idle")' \/ KnowsItsRow(req[s])'
<1>0. /\ Articles \subseteq Articles' /\ crossed \subseteq crossed'
      /\ news \in Seq(Article)
  BY NewsTypesAreKept DEF NewsInv, NewsTypeOK
<1>1. PICK r \in Slots, q \in NewsRequest \cup {Idle} :
        /\ req' = [req EXCEPT ![r] = q]
        /\ q.pc = "idle" \/ KnowsItsRow(q)'
        /\ GoesOn(r, q) \/ Creates(r, q) \/ Writes(r, q) \/ Tells(r, q)
  BY DEF NewsStep
<1>2. req \in [Slots -> NewsRequest \cup {Idle}]
  BY DEF NewsInv, NewsTypeOK, RequestsAre
<1>3. req'[r].pc = "idle" \/ KnowsItsRow(req[r])'
  <2>1. req'[r] = q
    BY <1>1, <1>2
  <2> QED BY <1>1, <2>1 DEF KnowsItsRow, CopyFits
<1>4. ASSUME NEW s \in Slots, s # r, ~At(s, "idle") PROVE KnowsItsRow(req[s])'
  <2>1. req'[s] = req[s] /\ KnowsItsRow(req[s])
    BY <1>1, <1>2, <1>4, RequestInSlot
  <2>2. ASSUME req[s].pc \in {"savenews", "savestatus"} PROVE CopyFits(req[s])'
    <3>1. CopyFits(req[s]) /\ req[s].copy # <<>> /\ req[s].id \in Articles
      BY <2>1, <2>2 DEF KnowsItsRow, CopyFits
    <3>2. req[s].id \in crossed' \/ req[s].copy[1] = news'[req[s].id]
      <4>1. CASE news' = news
        BY <1>0, <3>1, <4>1 DEF CopyFits
      <4>2. ASSUME NEW row \in Article, RowAdded(row)
            PROVE  req[s].id \in crossed' \/ req[s].copy[1] = news'[req[s].id]
        <5>1. news'[req[s].id] = news[req[s].id]
          BY <1>0, <3>1, <4>2, LongerSequence DEF RowAdded, Articles
        <5> QED BY <1>0, <3>1, <5>1 DEF CopyFits
      <4>3. ASSUME NEW n \in Articles, NEW row \in Article, RowWritten(r, n, row)
            PROVE  req[s].id \in crossed' \/ req[s].copy[1] = news'[req[s].id]
        <5>1. CASE n = req[s].id
          BY <1>4, <3>1, <4>3, <5>1 DEF RowWritten, CrossNews, Others
        <5>2. CASE n # req[s].id
          <6>1. news'[req[s].id] = news[req[s].id]
            BY <1>0, <3>1, <4>3, <5>2, RowOfASequence DEF RowWritten, Articles
          <6> QED BY <1>0, <3>1, <6>1 DEF CopyFits
        <5> QED BY <5>1, <5>2
      <4> QED BY <1>1, <4>1, <4>2, <4>3 DEF GoesOn, Creates, Writes, Tells, newsVars
    <3> QED BY <2>1, <3>1, <3>2 DEF CopyFits
  <2> QED BY <1>0, <2>1, <2>2 DEF KnowsItsRow
<1>5. \A s \in Slots : s # r => req'[s] = req[s]
  BY <1>1, <1>2
<1> QED BY <1>3, <1>4, <1>5 DEF At

\* Who owes an event after the request in slot r has become q.
LEMMA OwingAfter ==
    ASSUME NEW r \in Slots, NEW q, DOMAIN req = Slots, req' = [req EXCEPT ![r] = q],
           NEW label, NEW n
    PROVE  /\ q.pc = label /\ q.id = n => Owing(label, n)' = Owing(label, n) \cup {r}
           /\ q.pc # label \/ q.id # n => Owing(label, n)' = Owing(label, n) \ {r}
BY DEF Owing, At

\* The events of each row stay accounted for.
LEMMA EventsAfter ==
    ASSUME NewsInv, NewsStep
    PROVE  EventsAreOwed'
<1>0. /\ told \in Seq(Counts) /\ turns \in Seq(Counts) /\ news \in Seq(Article)
      /\ DOMAIN told = Articles /\ DOMAIN turns = Articles
      /\ Len(told) = Len(news) /\ Len(turns) = Len(news)
      /\ faults \in Nat /\ EventsAreOwed /\ DOMAIN req = Slots /\ faults' \in {faults, faults + 1}
  BY DEF NewsInv, NewsTypeOK, RequestsAre, Articles, NewsStep
<1>1. PICK r \in Slots, q \in NewsRequest \cup {Idle} :
        /\ req' = [req EXCEPT ![r] = q]
        /\ GoesOn(r, q) \/ Creates(r, q) \/ Writes(r, q) \/ Tells(r, q)
  BY DEF NewsStep
<1>2. ASSUME NEW n \in Articles
      PROVE  /\ told[n] \in Counts /\ turns[n] \in Counts
             /\ told[n].published \in Nat /\ told[n].deleted \in Nat
             /\ turns[n].published \in Nat /\ turns[n].deleted \in Nat
             /\ Accounted(told[n].published, turns[n].published, Owing("announce", n), faults)
             /\ Accounted(told[n].deleted, turns[n].deleted, Owing("mourn", n), faults)
  <2>1. told[n] \in Counts /\ turns[n] \in Counts
    BY <1>0
  <2> QED BY <1>0, <2>1 DEF Counts, EventsAreOwed
<1>3. ASSUME NEW n \in Articles, told'[n] = told[n], turns'[n] = turns[n],
             faults' = faults + 1 \/ (r \notin Owing("announce", n) /\ r \notin Owing("mourn", n)),
             q.pc \notin {"announce", "mourn"} \/ q.id # n
      PROVE  /\ Accounted(told[n].published, turns[n].published, Owing("announce", n), faults)'
             /\ Accounted(told[n].deleted, turns[n].deleted, Owing("mourn", n), faults)'
  <2>1. /\ Owing("announce", n)' = Owing("announce", n) \ {r}
        /\ Owing("mourn", n)' = Owing("mourn", n) \ {r}
    BY <1>0, <1>1, <1>3, OwingAfter DEF Owing, At
  <2>2. /\ Accounted(told[n].published, turns[n].published, Owing("announce", n) \ {r}, faults')
        /\ Accounted(told[n].deleted, turns[n].deleted, Owing("mourn", n) \ {r}, faults')
    BY <1>0, <1>2, <1>3, AccountsOfEvents
  <2> QED BY <1>3, <2>1, <2>2
<1>4. CASE GoesOn(r, q)
  <2>1. \A n \in Articles' : n \in Articles /\ told'[n] = told[n] /\ turns'[n] = turns[n]
    BY <1>4 DEF GoesOn, newsVars, Articles
  <2>2. \A n \in Articles : \/ faults' = faults + 1
                            \/ r \notin Owing("announce", n) /\ r \notin Owing("mourn", n)
    BY <1>4 DEF GoesOn, Owing
  <2> QED BY <1>3, <1>4, <2>1, <2>2 DEF GoesOn, EventsAreOwed
<1>5. CASE Creates(r, q)
  <2>0. PICK new : new = Len(news) + 1
    OBVIOUS
  <2>1. /\ Articles' = Articles \cup {new} /\ new \notin Articles
        /\ \A n \in Articles : told'[n] = told[n] /\ turns'[n] = turns[n]
        /\ told'[new] = NoCounts /\ turns'[new] = NoCounts
    <3>1. NoCounts \in Counts
      BY DEF NoCounts, Counts
    <3>2. Articles' = Articles \cup {new} /\ new \notin Articles
      BY <1>0, <1>5, <2>0, LongerSequence DEF Creates, RowAdded, Articles
    <3>3. told' = Append(told, NoCounts) /\ turns' = Append(turns, NoCounts)
      BY <1>5 DEF Creates, RowAdded
    <3> QED BY <1>0, <2>0, <3>1, <3>2, <3>3, LongerSequence
  <2>2. \A n : r \notin Owing("announce", n) /\ r \notin Owing("mourn", n)
    BY <1>5 DEF Creates, Owing, At
  <2>3. q.pc = "idle"
    BY <1>5 DEF Creates, Idle
  <2>4. /\ Accounted(told[new].published, turns[new].published, Owing("announce", new), faults)'
        /\ Accounted(told[new].deleted, turns[new].deleted, Owing("mourn", new), faults)'
    <3>1. Owing("announce", new) = {} /\ Owing("mourn", new) = {}
      BY <2>1, RequestInSlot DEF Owing, At, KnowsItsRow
    <3>2. Owing("announce", new)' = {} /\ Owing("mourn", new)' = {}
      BY <1>0, <1>1, <2>3, <3>1, OwingAfter DEF Owing, At
    <3>3. Accounted(0, 0, {}, faults')
      BY FS_EmptySet DEF Accounted
    <3>4. /\ told'[new].published = 0 /\ turns'[new].published = 0
          /\ told'[new].deleted = 0 /\ turns'[new].deleted = 0
      BY <2>1 DEF NoCounts
    <3> QED BY <3>2, <3>3, <3>4
  <2>5. \A n \in Articles :
        /\ Accounted(told[n].published, turns[n].published, Owing("announce", n), faults)'
        /\ Accounted(told[n].deleted, turns[n].deleted, Owing("mourn", n), faults)'
    BY <1>3, <2>1, <2>2, <2>3
  <2> QED BY <2>1, <2>4, <2>5 DEF EventsAreOwed
<1>6. CASE Writes(r, q)
  <2>1. PICK m \in Articles, row \in Article :
        /\ RowWritten(r, m, row)
        /\ \/ q = Idle /\ turns' = turns
           \/ /\ q.pc = "announce" /\ q.id = m
              /\ turns' = [turns EXCEPT ![m].published = @ + 1]
           \/ /\ q.pc = "mourn" /\ q.id = m
              /\ turns' = [turns EXCEPT ![m].deleted = @ + 1]
    BY <1>6 DEF Writes
  <2>2. Articles' = Articles /\ told' = told
    BY <1>0, <1>6, <2>1, RowOfASequence DEF RowWritten, Writes, Articles
  <2>3. \A n : r \notin Owing("announce", n) /\ r \notin Owing("mourn", n)
    BY <1>6 DEF Writes, Owing, At
  <2>4. ASSUME NEW n \in Articles, n # m \/ q = Idle
        PROVE  /\ Accounted(told[n].published, turns[n].published, Owing("announce", n), faults)'
               /\ Accounted(told[n].deleted, turns[n].deleted, Owing("mourn", n), faults)'
    <3>1. turns'[n] = turns[n] /\ (q.pc \notin {"announce", "mourn"} \/ q.id # n)
      BY <1>0, <2>1, <2>4 DEF Idle
    <3> QED BY <1>3, <2>2, <2>3, <3>1
  <2>5. ASSUME q # Idle
        PROVE  /\ Accounted(told[m].published, turns[m].published, Owing("announce", m), faults)'
               /\ Accounted(told[m].deleted, turns[m].deleted, Owing("mourn", m), faults)'
    <3>1. CASE q.pc = "announce"
      <4>1. /\ Owing("announce", m)' = Owing("announce", m) \cup {r}
            /\ Owing("mourn", m)' = Owing("mourn", m) \ {r}
        BY <1>0, <1>1, <2>1, <2>5, <3>1, OwingAfter DEF Owing, At
      <4>2. turns'[m].published = turns[m].published + 1 /\ turns'[m].deleted = turns[m].deleted
        BY <1>0, <1>2, <2>1, <2>5, <3>1 DEF Counts
      <4>3. /\ Accounted(told[m].published, turns[m].published + 1,
                         Owing("announce", m) \cup {r}, faults')
            /\ Accounted(told[m].deleted, turns[m].deleted, Owing("mourn", m) \ {r}, faults')
        BY <1>0, <1>2, <2>3, AccountsOfEvents
      <4> QED BY <2>2, <4>1, <4>2, <4>3
    <3>2. CASE q.pc = "mourn"
      <4>1. /\ Owing("announce", m)' = Owing("announce", m) \ {r}
            /\ Owing("mourn", m)' = Owing("mourn", m) \cup {r}
        BY <1>0, <1>1, <2>1, <2>5, <3>2, OwingAfter DEF Owing, At
      <4>2. turns'[m].published = turns[m].published /\ turns'[m].deleted = turns[m].deleted + 1
        BY <1>0, <1>2, <2>1, <2>5, <3>2 DEF Counts
      <4>3. /\ Accounted(told[m].published, turns[m].published, Owing("announce", m) \ {r}, faults')
            /\ Accounted(told[m].deleted, turns[m].deleted + 1, Owing("mourn", m) \cup {r}, faults')
        BY <1>0, <1>2, <2>3, AccountsOfEvents
      <4> QED BY <2>2, <4>1, <4>2, <4>3
    <3> QED BY <2>1, <2>5, <3>1, <3>2
  <2> QED BY <2>2, <2>4, <2>5 DEF EventsAreOwed
<1>7. CASE Tells(r, q)
  <2>0. PICK m : m = req[r].id
    OBVIOUS
  <2>1. m \in Articles /\ Articles' = Articles /\ turns' = turns /\ q.pc = "idle"
    BY <1>7, <2>0, RequestInSlot DEF Tells, At, KnowsItsRow, Articles, Idle
  <2>2. \A n \in Articles \ {m} : r \notin Owing("announce", n) /\ r \notin Owing("mourn", n)
    BY <2>0 DEF Owing
  <2>3. ASSUME NEW n \in Articles \ {m}
        PROVE  /\ Accounted(told[n].published, turns[n].published, Owing("announce", n), faults)'
               /\ Accounted(told[n].deleted, turns[n].deleted, Owing("mourn", n), faults)'
    <3>1. told'[n] = told[n]
      BY <1>0, <1>7, <2>0 DEF Tells
    <3> QED BY <1>3, <2>1, <2>2, <3>1
  <2>4. /\ Owing("announce", m)' = Owing("announce", m) \ {r}
        /\ Owing("mourn", m)' = Owing("mourn", m) \ {r}
    BY <1>0, <1>1, <2>1, OwingAfter DEF Owing, At
  <2>5. CASE At(r, "announce") /\ told' = [told EXCEPT ![m].published = @ + 1]
    <3>1. r \in Owing("announce", m) /\ r \notin Owing("mourn", m)
      BY <2>0, <2>5 DEF Owing, At
    <3>2. told'[m].published = told[m].published + 1 /\ told'[m].deleted = told[m].deleted
      BY <1>0, <1>2, <2>1, <2>5 DEF Counts
    <3>3. /\ Accounted(told[m].published + 1, turns[m].published,
                       Owing("announce", m) \ {r}, faults')
          /\ Accounted(told[m].deleted, turns[m].deleted, Owing("mourn", m) \ {r}, faults')
      BY <1>0, <1>2, <2>1, <3>1, AccountsOfEvents
    <3>4. /\ Accounted(told[m].published, turns[m].published, Owing("announce", m), faults)'
          /\ Accounted(told[m].deleted, turns[m].deleted, Owing("mourn", m), faults)'
      BY <2>1, <2>4, <3>2, <3>3
    <3> QED BY <2>1, <2>3, <3>4 DEF EventsAreOwed
  <2>6. CASE At(r, "mourn") /\ told' = [told EXCEPT ![m].deleted = @ + 1]
    <3>1. r \notin Owing("announce", m) /\ r \in Owing("mourn", m)
      BY <2>0, <2>6 DEF Owing, At
    <3>2. told'[m].published = told[m].published /\ told'[m].deleted = told[m].deleted + 1
      BY <1>0, <1>2, <2>1, <2>6 DEF Counts
    <3>3. /\ Accounted(told[m].published, turns[m].published, Owing("announce", m) \ {r}, faults')
          /\ Accounted(told[m].deleted + 1, turns[m].deleted, Owing("mourn", m) \ {r}, faults')
      BY <1>0, <1>2, <2>1, <3>1, AccountsOfEvents
    <3>4. /\ Accounted(told[m].published, turns[m].published, Owing("announce", m), faults)'
          /\ Accounted(told[m].deleted, turns[m].deleted, Owing("mourn", m), faults)'
      BY <2>1, <2>4, <3>2, <3>3
    <3> QED BY <2>1, <2>3, <3>4 DEF EventsAreOwed
  <2> QED BY <1>7, <2>0, <2>5, <2>6 DEF Tells
<1> QED BY <1>1, <1>4, <1>5, <1>6, <1>7

\* The table is empty at first.
LEMMA NewsStart == NewsInit /\ RequestsInit => NewsInv
<1> SUFFICES ASSUME NewsInit, RequestsInit PROVE NewsInv
  OBVIOUS
<1>1. Articles = {} /\ Len(<<>>) = 0 /\ \A S : <<>> \in Seq(S)
  BY DEF NewsInit, Articles
<1>2. NewsTypeOK
  BY <1>1, RequestBoundsAssumption, ArticlesAssumption
  DEF NewsInit, RequestsInit, NewsTypeOK, RequestsAre
<1> QED BY <1>1, <1>2 DEF NewsInv, RowsAreSound, EventsAreOwed, RequestsInit, At, Idle

\* NewsInv is inductive, ...
LEMMA NewsInvSteps == NewsInv /\ [NewsNext]_<<newsVars, requestVars>> => NewsInv'
<1> SUFFICES ASSUME NewsInv, [NewsNext]_<<newsVars, requestVars>> PROVE NewsInv'
  OBVIOUS
<1>1. CASE NewsNext
  <2>1. NewsStep
    BY <1>1, NewsSteps
  <2> QED BY <2>1, NewsTypesAreKept, RowsAfter, OthersKnow, EventsAfter DEF NewsInv
<1>2. CASE UNCHANGED <<newsVars, requestVars>>
  BY <1>2
  DEF NewsInv, NewsTypeOK, RequestsAre, RowsAreSound, EventsAreOwed, Owing, At, KnowsItsRow,
      CopyFits, Stamped, SlugIsFree, Articles, newsVars, requestVars
<1> QED BY <1>1, <1>2

\* ... and so an invariant.
LEMMA NewsInvHolds == NewsSpec => []NewsInv
BY NewsStart, NewsInvSteps, PTL DEF NewsSpec

\* What readers are shown and the bus is told follows from the rows.
LEMMA NewsAreShown == NewsInv => NewsHold
<1> SUFFICES ASSUME NewsInv PROVE NewsHold
  OBVIOUS
<1>1. ASSUME NEW s \in Slugs PROVE Cardinality(News_FindBySlug(s)) <= 1
  <2>1. CASE News_FindBySlug(s) = {}
    BY <2>1, FS_EmptySet
  <2>2. CASE News_FindBySlug(s) # {}
    <3>1. PICK n \in News_FindBySlug(s) : TRUE
      BY <2>2
    <3>2. News_FindBySlug(s) = {n}
      BY <3>1 DEF News_FindBySlug, NewsInv, RowsAreSound, SlugIsFree
    <3>3. Cardinality(News_FindBySlug(s)) = 1
      BY <3>2, FS_Singleton
    <3> QED BY <3>3
  <2> QED BY <2>1, <2>2
<1>2. ASSUME NEW s \in Slugs
      PROVE  /\ \A n \in GetBySlug(s) : news[n].publishedAt # 0
             /\ \A u \in Reporters : GetBySlug(s) \subseteq GetBySlugWithAuth(u, s)
  BY DEF GetBySlug, GetBySlugWithAuth, News_FindBySlug, NewsInv, RowsAreSound, Stamped
<1>3. ASSUME NEW u \in Reporters, NEW n \in Articles, GetNews(u, n) # {}
      PROVE  n \in ListNews(u, news[n].status)
  BY <1>3
  DEF GetNews, ListNews, MayTouch, News_FindByID, FindAllNews, FindByAuthorID, FindByStatus
<1>4. SlugsLeadToPublished
  BY <1>1, <1>2, <1>3 DEF SlugsLeadToPublished
<1>5. ASSUME NEW n \in Articles
      PROVE  /\ told[n].published <= turns[n].published
             /\ told[n].deleted <= turns[n].deleted
             /\ Quiet /\ faults = 0 => told[n] = turns[n]
  <2>1. /\ told[n] \in Counts /\ turns[n] \in Counts
    BY DEF NewsInv, NewsTypeOK, Articles
  <2>2. /\ Accounted(told[n].published, turns[n].published, Owing("announce", n), faults)
        /\ Accounted(told[n].deleted, turns[n].deleted, Owing("mourn", n), faults)
    BY DEF NewsInv, EventsAreOwed
  <2>3. /\ told[n].published \in Nat /\ turns[n].published \in Nat
        /\ told[n].deleted \in Nat /\ turns[n].deleted \in Nat
    BY <2>1 DEF Counts
  <2>4. /\ Cardinality(Owing("announce", n)) \in Nat /\ Cardinality(Owing("mourn", n)) \in Nat
    BY <2>2, FS_CardinalityType DEF Accounted
  <2>5. told[n].published <= turns[n].published /\ told[n].deleted <= turns[n].deleted
    BY <2>2, <2>3, <2>4 DEF Accounted
  <2>6. ASSUME Quiet, faults = 0 PROVE told[n] = turns[n]
    <3>1. Owing("announce", n) = {} /\ Owing("mourn", n) = {}
      BY <2>6 DEF Quiet, Owing, At, Idle
    <3>2. told[n].published = turns[n].published /\ told[n].deleted = turns[n].deleted
      BY <2>2, <2>3, <2>6, <3>1, FS_EmptySet DEF Accounted
    <3> QED BY <2>1, <3>2 DEF Counts
  <2> QED BY <2>5, <2>6
<1> QED BY <1>4, <1>5 DEF NewsHold, EventsFollowRows

\* A slug leads to one article, which was published at a time that its row tells, and the bus
\* hears of what happened to the rows, once each: service/news.go UpdateStatus, Delete, GetBySlug.
THEOREM NewsAlwaysHold == NewsSpec => []NewsHold
BY NewsInvHolds, NewsAreShown, PTL

\* A status moves along a transition, the time of publication stands and a deleted article stays
\* deleted, unless a request wrote the row while another held a copy: domain/news.go
\* CanTransitionTo, repository/news.go Update.
THEOREM NewsAlwaysMovesAlong == NewsSpec => NewsMovesAlong
<1>1. NewsInv /\ [NewsNext]_<<newsVars, requestVars>>
        => [\A n \in Articles : n \in crossed' \/ Moved(n)]_newsVars
  <2> SUFFICES ASSUME NewsInv, NewsNext PROVE \A n \in Articles : n \in crossed' \/ Moved(n)
    BY DEF requestVars
  <2> QED BY NewsSteps, RowsAfter
<1> QED BY <1>1, NewsInvHolds, PTL DEF NewsSpec, NewsMovesAlong

-----------------------------------------------------------------------------
(* Comments *)

\* Row x is row y with another text, pin or deletion.
SameComment(x, y) ==
    x \in Comment /\ x.on = y.on /\ x.parent = y.parent /\ x.author = y.author

\* The fields of a row, ...
LEMMA CommentIsTyped ==
    ASSUME NEW row \in Comment
    PROVE  /\ row.on \in Entities /\ row.parent \in 0..MaxComments /\ row.author \in Writers
           /\ row.text \in Text /\ row.deleted \in BOOLEAN
BY DEF Comment

\* ... one of which is set.
LEMMA SetCommentIsTyped ==
    ASSUME NEW row \in Comment
    PROVE  /\ \A n \in Text : /\ SameComment([row EXCEPT !.text = n], row)
                              /\ [row EXCEPT !.text = n].text = n
           /\ \A b \in BOOLEAN : /\ SameComment([row EXCEPT !.pinned = b], row)
                                 /\ [row EXCEPT !.pinned = b].text = row.text
           /\ SameComment([row EXCEPT !.deleted = TRUE], row)
           /\ [row EXCEPT !.deleted = TRUE].text = row.text
BY DEF Comment, SameComment

\* What a request is made of.
LEMMA CommentRequestIsTyped ==
    /\ Idle \notin CommentRequest /\ Idle.pc = "idle"
    /\ \A q \in CommentRequest :
        /\ q.pc \in {"comment", "insert", "edit", "saveedit", "pin", "savepin", "remove",
                     "softdelete"}
        /\ q.user \in Writers /\ q.on \in Entities /\ q.id \in 0..MaxComments
        /\ q.text \in Text /\ q.pinned \in BOOLEAN /\ q.copy \in Seq(Comment)
BY DEF Idle, CommentRequest

\* What it becomes: at another statement, ...
LEMMA CommentGotoIsTyped ==
    ASSUME NEW q \in CommentRequest, NEW label \in {"insert", "softdelete"}, NEW x,
           x = [q EXCEPT !.pc = label]
    PROVE  x \in CommentRequest /\ x.pc = label /\ x.id = q.id /\ x.on = q.on
BY DEF CommentRequest

\* ... with the thread it belongs to, ...
LEMMA CommentParentIsTyped ==
    ASSUME NEW q \in CommentRequest, NEW p \in 0..MaxComments
    PROVE  LET x == [q EXCEPT !.pc = "insert", !.id = p]
           IN  x \in CommentRequest /\ x.pc = "insert" /\ x.id = p /\ x.on = q.on
BY DEF CommentRequest

\* A handler begins with such a request.
LEMMA CommentCallIsTyped ==
    ASSUME begun + 1 \in Text, NEW u \in Writers, NEW c \in 0..MaxComments
    PROVE  /\ \A e \in Entities :
                [pc |-> "comment", user |-> u, on |-> e, id |-> c, text |-> begun + 1,
                 pinned |-> FALSE, copy |-> <<>>] \in CommentRequest
           /\ comments[c].on \in Entities =>
                \A label \in {"edit", "pin", "remove"} :
                    LET x == Asks(label, u, c)
                    IN  x \in CommentRequest /\ x.pc = label /\ x.id = c
<1>1. <<>> \in Seq(Comment)
  OBVIOUS
<1> QED BY <1>1 DEF CommentRequest, Asks

\* Request r becomes q and changes no row, ...
CommentsGoOn(r, q) == KnowsItsComment(q) /\ UNCHANGED commentVars

\* ... or it ends with a new row, ...
CommentAdded(row) ==
    /\ row \in Comment /\ (row.parent = 0 \/ IsTop(row.parent, row.on))
    /\ Len(comments) < MaxComments
    /\ comments' = Append(comments, row) /\ acked' = Append(acked, row)
    /\ wrote' = wrote \cup {<<Len(comments) + 1, row.author, row.text>>}
    /\ mixed' = mixed

\* ... or with one it has written.
CommentWritten(r, c, row, want) ==
    /\ c \in DOMAIN comments /\ SameComment(row, comments[c]) /\ want \in Comment
    /\ c \in mixed \/ row = want
    /\ comments' = [comments EXCEPT ![c] = row] /\ acked' = [acked EXCEPT ![c] = want]
    /\ wrote \subseteq wrote' /\ wrote' \subseteq (1..MaxComments) \X Writers \X Text
    /\ <<c, row.author, row.text>> \in wrote'
    /\ Overlap(r, c)

CommentStep(r, q) ==
    /\ q \in CommentRequest \cup {Idle} /\ req' = [req EXCEPT ![r] = q]
    /\ begun' \in 0..MaxRequests /\ faults' \in 0..MaxFaults
    /\ \/ CommentsGoOn(r, q)
       \/ q = Idle /\ \E row : CommentAdded(row)
       \/ q = Idle /\ \E c, row, want : CommentWritten(r, c, row, want)

\* What the invariant says of the table, ...
LEMMA CommentTable ==
    ASSUME CommentsInv
    PROVE  /\ begun \in 0..MaxRequests /\ faults \in 0..MaxFaults
           /\ MaxRequests \in Nat /\ MaxFaults \in Nat /\ MaxComments \in Nat
           /\ req \in [Slots -> CommentRequest \cup {Idle}]
           /\ comments \in Seq(Comment) /\ acked \in Seq(Comment)
           /\ Len(acked) = Len(comments) /\ Len(comments) \in Nat /\ Len(comments) <= MaxComments
           /\ DOMAIN comments = 1..Len(comments) /\ DOMAIN acked = DOMAIN comments
           /\ DOMAIN comments \subseteq 1..MaxComments
           /\ wrote \subseteq (1..MaxComments) \X Writers \X Text
           /\ \A c \in DOMAIN comments : comments[c] \in Comment /\ acked[c] \in Comment
<1>1. /\ begun \in 0..MaxRequests /\ faults \in 0..MaxFaults
      /\ MaxRequests \in Nat /\ MaxFaults \in Nat /\ MaxComments \in Nat
      /\ req \in [Slots -> CommentRequest \cup {Idle}]
      /\ comments \in Seq(Comment) /\ acked \in Seq(Comment)
      /\ Len(acked) = Len(comments) /\ Len(comments) <= MaxComments
      /\ wrote \subseteq (1..MaxComments) \X Writers \X Text
  BY RequestBoundsAssumption, MaxCommentsAssumption
  DEF CommentsInv, CommentsTypeOK, RequestsAre
<1>2. /\ Len(comments) \in Nat /\ DOMAIN comments = 1..Len(comments)
      /\ DOMAIN acked = DOMAIN comments
  BY <1>1
<1>3. DOMAIN comments \subseteq 1..MaxComments
  BY <1>1, <1>2
<1>4. \A c \in DOMAIN comments : comments[c] \in Comment /\ acked[c] \in Comment
  BY <1>1, <1>2
<1> QED BY <1>1, <1>2, <1>3, <1>4

\* ... and of the request in a slot.
LEMMA CommentInSlot ==
    ASSUME CommentsInv, NEW r \in Slots, ~At(r, "idle")
    PROVE  \E q \in CommentRequest : q = req[r] /\ KnowsItsComment(q)
<1>1. req[r] \in CommentRequest \cup {Idle} /\ KnowsItsComment(req[r])
  BY DEF CommentsInv, CommentsTypeOK, RequestsAre
<1> QED BY <1>1 DEF At, Idle

\* A request goes on without a row, ...
LEMMA CommentGoesOn ==
    ASSUME CommentsInv, NEW r \in Slots, NEW q \in CommentRequest \cup {Idle}, Become(r, q),
           KnowsItsComment(q), UNCHANGED commentVars
    PROVE  CommentStep(r, q)
BY CommentTable DEF CommentStep, CommentsGoOn, Become

\* ... or it ends.
LEMMA IdleKnowsNoComment == KnowsItsComment(Idle) /\ Idle.pc = "idle"
BY DEF KnowsItsComment, Idle

\* A request that ends owes nothing.
LEMMA CommentEnds ==
    ASSUME CommentsInv, NEW r \in Slots, Finish(r), UNCHANGED commentVars
    PROVE  \E q : CommentStep(r, q)
BY CommentGoesOn, IdleKnowsNoComment DEF Finish

\* The handlers.
LEMMA HandlersBeginComments ==
    ASSUME CommentsInv, NEW r \in Slots, CommentHandlers(r)
    PROVE  \E q : CommentStep(r, q)
<1>1. ASSUME NEW q \in CommentRequest, q.pc \in {"comment", "edit", "pin", "remove"},
             q.pc = "comment" \/ q.id \in DOMAIN comments, Begin(r, q), UNCHANGED commentVars
      PROVE  \E x : CommentStep(r, x)
  <2>1. KnowsItsComment(q)
    BY <1>1 DEF KnowsItsComment
  <2>2. /\ begun' \in 0..MaxRequests /\ faults' \in 0..MaxFaults /\ req' = [req EXCEPT ![r] = q]
    BY <1>1, CommentTable DEF Begin
  <2> QED BY <1>1, <2>1, <2>2 DEF CommentStep, CommentsGoOn
<1>2. ASSUME NEW q, Begin(r, q) PROVE begun + 1 \in Text
  BY <1>2, CommentTable DEF Begin, Text
<1>3. ASSUME NEW u \in Writers, NEW e \in Entities, NEW p \in 0..Len(comments),
             HandleCreateComment(r, u, e, p)
      PROVE  \E x : CommentStep(r, x)
  <2>1. PICK q : q = [pc |-> "comment", user |-> u, on |-> e, id |-> p, text |-> begun + 1,
                      pinned |-> FALSE, copy |-> <<>>]
    OBVIOUS
  <2>2. p \in 0..MaxComments
    BY CommentTable
  <2>3. Begin(r, q) /\ UNCHANGED commentVars /\ q.pc = "comment"
    BY <1>3, <2>1 DEF HandleCreateComment
  <2>4. q \in CommentRequest
    BY <1>2, <2>1, <2>2, <2>3, CommentCallIsTyped
  <2> QED BY <1>1, <2>3, <2>4
<1>4. ASSUME NEW u \in Writers, NEW c \in DOMAIN comments, NEW label \in {"edit", "pin", "remove"},
             NEW q, q \in {Asks(label, u, c), [Asks(label, u, c) EXCEPT !.pinned = TRUE]},
             Begin(r, q), UNCHANGED commentVars
      PROVE  \E x : CommentStep(r, x)
  <2>1. c \in 0..MaxComments /\ comments[c].on \in Entities
    BY CommentTable, CommentIsTyped
  <2>2. begun + 1 \in Text
    BY <1>2, <1>4
  <2>3. PICK a : a = Asks(label, u, c)
    OBVIOUS
  <2>4. a \in CommentRequest /\ a.pc = label /\ a.id = c
    BY <2>1, <2>2, <2>3, CommentCallIsTyped
  <2>5. LET x == [a EXCEPT !.pinned = TRUE]
        IN  x \in CommentRequest /\ x.pc = label /\ x.id = c
    BY <2>4 DEF CommentRequest
  <2>6. q \in CommentRequest /\ q.pc = label /\ q.id = c
    BY <1>4, <2>3, <2>4, <2>5
  <2> QED BY <1>1, <1>4, <2>6
<1>5. ASSUME NEW u \in Writers, NEW c \in DOMAIN comments,
             \/ HandleUpdateComment(r, u, c) \/ HandleDeleteComment(r, u, c)
             \/ HandlePin(r, u, c) \/ HandleUnpin(r, u, c)
      PROVE  \E x : CommentStep(r, x)
  BY <1>4, <1>5 DEF HandleUpdateComment, HandleDeleteComment, HandlePin, HandleUnpin
<1> QED BY <1>3, <1>5 DEF CommentHandlers

\* Create looks the answered comment up, ...
LEMMA FindsParent ==
    ASSUME CommentsInv, NEW r \in Slots, CreateComment(r)
    PROVE  \E q : CommentStep(r, q)
<1>1. PICK p \in CommentRequest : p = req[r] /\ KnowsItsComment(p) /\ p.pc = "comment"
  BY CommentInSlot DEF CreateComment, At
<1>2. UNCHANGED commentVars
  BY DEF CreateComment
<1>3. CASE p.id = 0 /\ Goto(r, "insert")
  <2>1. PICK q : q = [p EXCEPT !.pc = "insert"]
    OBVIOUS
  <2>2. q \in CommentRequest /\ q.pc = "insert" /\ q.id = 0
    BY <1>3, <2>1, CommentGotoIsTyped
  <2>3. KnowsItsComment(q)
    BY <2>2 DEF KnowsItsComment
  <2> QED BY <1>1, <1>2, <1>3, <2>1, <2>2, <2>3, CommentGoesOn DEF Goto
<1>4. CASE /\ Comment_FindByID(p.id) /\ comments[p.id].on = p.on
           /\ Become(r, [p EXCEPT !.pc = "insert", !.id = ParentOf(p.id)])
  <2>1. PICK c : c = ParentOf(p.id)
    OBVIOUS
  <2>2. IsTop(c, p.on)
    <3>1. p.id \in DOMAIN comments
      BY <1>4 DEF Comment_FindByID
    <3>2. \/ comments[p.id].parent = 0
          \/ IsTop(comments[p.id].parent, comments[p.id].on)
      BY <3>1 DEF CommentsInv, CommentsAreSound
    <3> QED BY <1>4, <2>1, <3>1, <3>2 DEF ParentOf, IsTop
  <2>3. c \in 0..MaxComments
    BY <2>2, CommentTable DEF IsTop
  <2>4. PICK q : q = [p EXCEPT !.pc = "insert", !.id = c]
    OBVIOUS
  <2>5. q \in CommentRequest /\ q.pc = "insert" /\ q.id = c /\ q.on = p.on
    BY <2>3, <2>4, CommentParentIsTyped
  <2>6. KnowsItsComment(q)
    BY <2>2, <2>5 DEF KnowsItsComment
  <2> QED BY <1>2, <1>4, <2>1, <2>4, <2>5, <2>6, CommentGoesOn
<1>5. CASE Finish(r)
  BY <1>2, <1>5, CommentEnds
<1> QED BY <1>1, <1>3, <1>4, <1>5 DEF CreateComment

\* ... and inserts the row.
LEMMA InsertsComment ==
    ASSUME CommentsInv, NEW r \in Slots, InsertComment(r)
    PROVE  \E q : CommentStep(r, q)
<1>1. PICK p \in CommentRequest : p = req[r] /\ KnowsItsComment(p) /\ p.pc = "insert"
  BY CommentInSlot DEF InsertComment, At
<1>2. PICK row : row = [on |-> p.on, parent |-> p.id, author |-> p.user, text |-> p.text,
                        pinned |-> FALSE, deleted |-> FALSE]
  OBVIOUS
<1>3. row \in Comment /\ row.on = p.on /\ row.parent = p.id
      /\ row.author = p.user /\ row.text = p.text
  BY <1>2, CommentRequestIsTyped DEF Comment
<1>4. row.parent = 0 \/ IsTop(row.parent, row.on)
  BY <1>1, <1>3 DEF KnowsItsComment
<1>5. /\ Len(comments) < MaxComments /\ Finish(r) /\ mixed' = mixed
      /\ comments' = Append(comments, row) /\ acked' = Append(acked, row)
      /\ wrote' = wrote \cup {<<Len(comments) + 1, p.user, p.text>>}
  BY <1>1, <1>2 DEF InsertComment
<1>6. CommentAdded(row)
  BY <1>3, <1>4, <1>5 DEF CommentAdded
<1> QED BY <1>5, <1>6, CommentTable DEF CommentStep, Finish, Become

\* Update and Pin read a row ...
LEMMA ReadsComment ==
    ASSUME CommentsInv, NEW r \in Slots, UNCHANGED commentVars,
           NEW p \in CommentRequest, p = req[r], Comment_FindByID(p.id),
           NEW label \in {"saveedit", "savepin"},
           label = "saveedit" => comments[p.id].author = p.user,
           Become(r, [p EXCEPT !.pc = label, !.copy = <<comments[p.id]>>])
    PROVE  \E q : CommentStep(r, q)
<1>1. PICK row : row = comments[p.id]
  OBVIOUS
<1>2. PICK q : q = [p EXCEPT !.pc = label, !.copy = <<row>>]
  OBVIOUS
<1>3. row \in Comment /\ p.id \in DOMAIN comments
  BY <1>1, CommentTable DEF Comment_FindByID
<1>4. q \in CommentRequest /\ q.pc = label /\ q.id = p.id /\ q.user = p.user /\ q.copy = <<row>>
  <2>1. <<row>> \in Seq(Comment)
    BY <1>3
  <2> QED BY <1>2, <2>1 DEF CommentRequest
<1>5. q.copy # <<>> /\ q.copy[1] = row
  BY <1>4
<1>6. <<p.id, row.author, row.text>> \in wrote
  BY <1>1, <1>3 DEF CommentsInv, CommentsAreSound
<1>7. KnowsItsComment(q)
  BY <1>1, <1>3, <1>4, <1>5, <1>6 DEF KnowsItsComment
<1> QED BY <1>1, <1>2, <1>4, <1>7, CommentGoesOn

\* ... and save the copy of it with a change.
LEMMA SavesComment ==
    ASSUME CommentsInv, NEW r \in Slots, NEW p \in CommentRequest, p = req[r],
           KnowsItsComment(p), SaveEdit(r) \/ SavePin(r)
    PROVE  \E q : CommentStep(r, q)
<1>1. p.pc \in {"saveedit", "savepin"} /\ Finish(r) /\ Overlap(r, p.id)
  BY DEF SaveEdit, SavePin, At
<1>2. PICK copy : copy = p.copy[1]
  OBVIOUS
<1>3. /\ copy \in Comment /\ p.id \in DOMAIN comments
      /\ copy.on = comments[p.id].on /\ copy.parent = comments[p.id].parent
      /\ copy.author = comments[p.id].author
      /\ <<p.id, copy.author, copy.text>> \in wrote
      /\ p.id \in mixed \/ copy = comments[p.id]
  <2>1. p.copy \in Seq(Comment) /\ p.copy # <<>>
    BY <1>1, CommentRequestIsTyped DEF KnowsItsComment
  <2>2. p.copy[1] \in Comment
    BY <2>1
  <2> QED BY <1>1, <1>2, <2>2 DEF KnowsItsComment
<1>4. p.id \in mixed \/ copy = acked[p.id]
  BY <1>3 DEF CommentsInv, CommentsAreSound
<1>5. acked[p.id] \in Comment /\ p.id \in 1..MaxComments /\ p.user \in Writers /\ p.text \in Text
      /\ p.pinned \in BOOLEAN /\ wrote \subseteq (1..MaxComments) \X Writers \X Text
  BY <1>3, CommentTable, CommentRequestIsTyped
<1>6. CASE p.pc = "saveedit"
  <2>1. PICK row : row = [copy EXCEPT !.text = p.text]
    OBVIOUS
  <2>2. PICK want : want = [acked[p.id] EXCEPT !.text = p.text]
    OBVIOUS
  <2>3. SameComment(row, copy) /\ row.text = p.text /\ want \in Comment
    BY <1>3, <1>5, <2>1, <2>2, SetCommentIsTyped DEF SameComment
  <2>4. /\ comments' = [comments EXCEPT ![p.id] = row]
        /\ acked' = [acked EXCEPT ![p.id] = want]
        /\ wrote' = wrote \cup {<<p.id, p.user, p.text>>}
    BY <1>2, <1>6, <2>1, <2>2 DEF SaveEdit, SavePin, SaveRow, At
  <2>5. p.user = copy.author
    BY <1>3, <1>6 DEF KnowsItsComment
  <2>6. CommentWritten(r, p.id, row, want)
    BY <1>1, <1>3, <1>4, <1>5, <2>1, <2>2, <2>3, <2>4, <2>5 DEF CommentWritten, SameComment
  <2> QED BY <1>1, <2>6, CommentTable DEF CommentStep, Finish, Become
<1>7. CASE p.pc = "savepin"
  <2>1. PICK row : row = [copy EXCEPT !.pinned = p.pinned]
    OBVIOUS
  <2>2. PICK want : want = [acked[p.id] EXCEPT !.pinned = p.pinned]
    OBVIOUS
  <2>3. SameComment(row, copy) /\ row.text = copy.text /\ want \in Comment
    BY <1>3, <1>5, <2>1, <2>2, SetCommentIsTyped DEF SameComment
  <2>4. /\ comments' = [comments EXCEPT ![p.id] = row]
        /\ acked' = [acked EXCEPT ![p.id] = want] /\ wrote' = wrote
    BY <1>2, <1>7, <2>1, <2>2 DEF SaveEdit, SavePin, SaveRow, At
  <2>5. CommentWritten(r, p.id, row, want)
    BY <1>1, <1>3, <1>4, <1>5, <2>1, <2>2, <2>3, <2>4 DEF CommentWritten, SameComment
  <2> QED BY <1>1, <2>5, CommentTable DEF CommentStep, Finish, Become
<1> QED BY <1>1, <1>6, <1>7

\* It is deleted.
LEMMA DropsComment ==
    ASSUME CommentsInv, NEW r \in Slots, SoftDeleteComment(r)
    PROVE  \E q : CommentStep(r, q)
<1>1. PICK p \in CommentRequest : p = req[r] /\ KnowsItsComment(p) /\ p.pc = "softdelete"
  BY CommentInSlot DEF SoftDeleteComment, At
<1>2. PICK c \in DOMAIN comments : c = p.id
  BY <1>1 DEF KnowsItsComment
<1>3. Finish(r) /\ wrote' = wrote
  BY DEF SoftDeleteComment
<1>4. CASE ~comments[c].deleted
  <2>1. PICK row : row = [comments[c] EXCEPT !.deleted = TRUE]
    OBVIOUS
  <2>2. PICK want : want = [acked[c] EXCEPT !.deleted = TRUE]
    OBVIOUS
  <2>3. SameComment(row, comments[c]) /\ row.text = comments[c].text /\ want \in Comment
    BY <2>1, <2>2, CommentTable, SetCommentIsTyped DEF SameComment
  <2>4. c \in mixed \/ row = want
    BY <2>1, <2>2 DEF CommentsInv, CommentsAreSound
  <2>5. <<c, row.author, row.text>> \in wrote
    BY <2>3 DEF CommentsInv, CommentsAreSound, SameComment
  <2>6. /\ comments' = [comments EXCEPT ![c] = row] /\ acked' = [acked EXCEPT ![c] = want]
        /\ Overlap(r, c)
    BY <1>1, <1>2, <1>4, <2>1, <2>2 DEF SoftDeleteComment, SaveRow
  <2>7. CommentWritten(r, c, row, want)
    BY <1>3, <2>3, <2>4, <2>5, <2>6, CommentTable DEF CommentWritten
  <2> QED BY <1>3, <2>7, CommentTable DEF CommentStep, Finish, Become
<1>5. CASE comments[c].deleted
  <2>1. UNCHANGED commentVars
    BY <1>1, <1>2, <1>3, <1>5 DEF SoftDeleteComment, commentVars
  <2> QED BY <1>3, <2>1, CommentEnds
<1> QED BY <1>4, <1>5

\* All steps are of this form.
LEMMA CommentSteps ==
    ASSUME CommentsInv, CommentsNext
    PROVE  \E r \in Slots : \E q : CommentStep(r, q)
<1>1. ASSUME NEW r \in Slots, UpdateComment(r) \/ Pin(r) \/ Unpin(r)
      PROVE  \E q : CommentStep(r, q)
  <2>1. PICK p \in CommentRequest : p = req[r]
    BY <1>1, CommentInSlot DEF UpdateComment, Pin, Unpin, At
  <2>2. UNCHANGED commentVars
    BY <1>1 DEF UpdateComment, Pin, Unpin
  <2>3. CASE Finish(r)
    BY <2>2, <2>3, CommentEnds
  <2>4. ASSUME ~Finish(r)
        PROVE  \E label \in {"saveedit", "savepin"} :
                /\ Comment_FindByID(p.id)
                /\ label = "saveedit" => comments[p.id].author = p.user
                /\ Become(r, [p EXCEPT !.pc = label, !.copy = <<comments[p.id]>>])
    BY <1>1, <2>1, <2>4 DEF UpdateComment, Pin, Unpin, OwnComment
  <2> QED BY <2>1, <2>2, <2>3, <2>4, ReadsComment
<1>2. ASSUME NEW r \in Slots, SaveEdit(r) \/ SavePin(r) PROVE \E q : CommentStep(r, q)
  <2>1. PICK p \in CommentRequest : p = req[r] /\ KnowsItsComment(p)
    BY <1>2, CommentInSlot DEF SaveEdit, SavePin, At
  <2> QED BY <1>2, <2>1, SavesComment
<1>3. ASSUME NEW r \in Slots, DeleteComment(r) PROVE \E q : CommentStep(r, q)
  <2>1. PICK p \in CommentRequest : p = req[r] /\ KnowsItsComment(p) /\ p.pc = "remove"
    BY <1>3, CommentInSlot DEF DeleteComment, At
  <2>2. UNCHANGED commentVars
    BY <1>3 DEF DeleteComment
  <2>3. CASE Finish(r)
    BY <2>2, <2>3, CommentEnds
  <2>4. CASE Goto(r, "softdelete")
    <3>1. PICK q : q = [p EXCEPT !.pc = "softdelete"]
      OBVIOUS
    <3>2. q \in CommentRequest /\ q.pc = "softdelete" /\ q.id = p.id
      BY <3>1, CommentGotoIsTyped
    <3>3. KnowsItsComment(q)
      BY <2>1, <3>2 DEF KnowsItsComment
    <3> QED BY <2>1, <2>2, <2>4, <3>1, <3>2, <3>3, CommentGoesOn DEF Goto
  <2> QED BY <1>3, <2>3, <2>4 DEF DeleteComment
<1>4. ASSUME NEW r \in Slots, Abort(r), UNCHANGED commentVars PROVE CommentStep(r, Idle)
  <2>1. req' = [req EXCEPT ![r] = Idle] /\ begun' = begun /\ faults' \in 0..MaxFaults
    BY <1>4, CommentTable DEF Abort, Stumble
  <2> QED BY <1>4, <2>1, CommentTable, IdleKnowsNoComment DEF CommentStep, CommentsGoOn
<1> QED BY <1>1, <1>2, <1>3, <1>4, HandlersBeginComments, FindsParent, InsertsComment,
           DropsComment
    DEF CommentsNext

\* Such a step keeps the invariant: the rows ...
LEMMA CommentRowsAfter ==
    ASSUME CommentsInv, NEW r \in Slots, NEW q, CommentStep(r, q)
    PROVE  /\ comments' \in Seq(Comment) /\ Len(comments') <= MaxComments
           /\ acked' \in Seq(Comment) /\ Len(acked') = Len(comments')
           /\ wrote' \subseteq (1..MaxComments) \X Writers \X Text
           /\ mixed' \subseteq 1..Len(comments') /\ CommentsAreSound'
<1>0. /\ comments \in Seq(Comment) /\ acked \in Seq(Comment) /\ Len(acked) = Len(comments)
      /\ Len(comments) \in Nat /\ Len(comments) <= MaxComments /\ MaxComments \in Nat
      /\ DOMAIN comments = 1..Len(comments) /\ DOMAIN acked = DOMAIN comments
      /\ wrote \subseteq (1..MaxComments) \X Writers \X Text
      /\ mixed \subseteq 1..Len(comments) /\ CommentsAreSound
  BY CommentTable DEF CommentsInv, CommentsTypeOK
<1>1. CASE CommentsGoOn(r, q)
  BY <1>0, <1>1 DEF CommentsGoOn, commentVars, CommentsAreSound, IsTop
<1>2. ASSUME NEW row, CommentAdded(row)
      PROVE  /\ comments' \in Seq(Comment) /\ Len(comments') <= MaxComments
             /\ acked' \in Seq(Comment) /\ Len(acked') = Len(comments')
             /\ wrote' \subseteq (1..MaxComments) \X Writers \X Text
             /\ mixed' \subseteq 1..Len(comments') /\ CommentsAreSound'
  <2>1. PICK new : new = Len(comments) + 1
    OBVIOUS
  <2>2. /\ comments' \in Seq(Comment) /\ Len(comments') = new
        /\ DOMAIN comments' = DOMAIN comments \cup {new}
        /\ new \notin DOMAIN comments /\ comments'[new] = row
        /\ \A m \in DOMAIN comments : comments'[m] = comments[m]
    BY <1>0, <1>2, <2>1, LongerSequence DEF CommentAdded
  <2>3. /\ acked' \in Seq(Comment) /\ Len(acked') = new /\ acked'[new] = row
        /\ \A m \in DOMAIN comments : acked'[m] = acked[m]
    BY <1>0, <1>2, <2>1, LongerSequence DEF CommentAdded
  <2>4. /\ wrote' = wrote \cup {<<new, row.author, row.text>>} /\ new \in 1..MaxComments
        /\ row.author \in Writers /\ row.text \in Text /\ mixed' = mixed
    BY <1>0, <1>2, <2>1, CommentIsTyped DEF CommentAdded
  <2>5. row.parent = 0 \/ (row.parent < new /\ IsTop(row.parent, row.on))
    BY <1>0, <1>2, <2>1 DEF CommentAdded, IsTop
  <2>6. \A p, e : IsTop(p, e) => IsTop(p, e)'
    BY <2>2 DEF IsTop
  <2>7. CommentsAreSound'
    BY <1>0, <2>2, <2>3, <2>4, <2>5, <2>6 DEF CommentsAreSound
  <2>8. mixed' \subseteq 1..Len(comments')
    BY <1>0, <2>1, <2>2, <2>4
  <2>9. Len(comments') <= MaxComments
    BY <1>0, <1>2, <2>1, <2>2 DEF CommentAdded
  <2> QED BY <1>0, <2>2, <2>3, <2>4, <2>7, <2>8, <2>9
<1>3. ASSUME NEW c, NEW row, NEW want, CommentWritten(r, c, row, want)
      PROVE  /\ comments' \in Seq(Comment) /\ Len(comments') <= MaxComments
             /\ acked' \in Seq(Comment) /\ Len(acked') = Len(comments')
             /\ wrote' \subseteq (1..MaxComments) \X Writers \X Text
             /\ mixed' \subseteq 1..Len(comments') /\ CommentsAreSound'
  <2>1. /\ comments' \in Seq(Comment) /\ Len(comments') = Len(comments)
        /\ DOMAIN comments' = DOMAIN comments /\ comments'[c] = row
        /\ \A m \in DOMAIN comments : m # c => comments'[m] = comments[m]
    BY <1>0, <1>3, RowOfASequence DEF CommentWritten, SameComment
  <2>2. /\ acked' \in Seq(Comment) /\ Len(acked') = Len(acked) /\ acked'[c] = want
        /\ \A m \in DOMAIN comments : m # c => acked'[m] = acked[m]
    BY <1>0, <1>3, RowOfASequence DEF CommentWritten
  <2>3. mixed \subseteq mixed' /\ mixed' \subseteq mixed \cup {c} /\ c \in DOMAIN comments
    BY <1>3 DEF CommentWritten, Overlap
  <2>4. \A m \in DOMAIN comments : /\ comments'[m].on = comments[m].on
                                   /\ comments'[m].parent = comments[m].parent
                                   /\ comments'[m].author = comments[m].author
    BY <1>3, <2>1 DEF CommentWritten, SameComment
  <2>5. \A p, e : IsTop(p, e) => IsTop(p, e)'
    BY <2>1, <2>4 DEF IsTop
  <2>6. wrote \subseteq wrote' /\ <<c, row.author, row.text>> \in wrote'
        /\ wrote' \subseteq (1..MaxComments) \X Writers \X Text /\ (c \in mixed \/ row = want)
    BY <1>3 DEF CommentWritten
  <2>7. CommentsAreSound'
    <3> SUFFICES ASSUME NEW m \in DOMAIN comments, NEW x, x = comments'[m]
                 PROVE  /\ x.parent = 0 \/ (x.parent < m /\ IsTop(x.parent, x.on)')
                        /\ <<m, x.author, x.text>> \in wrote'
                        /\ m \in mixed' \/ x = acked'[m]
      BY <2>1 DEF CommentsAreSound
    <3>1. LET y == comments[m]
          IN  /\ y.parent = 0 \/ (y.parent < m /\ IsTop(y.parent, y.on))
              /\ <<m, y.author, y.text>> \in wrote
              /\ m \in mixed \/ y = acked[m]
      BY <1>0 DEF CommentsAreSound
    <3>2. x.parent = 0 \/ (x.parent < m /\ IsTop(x.parent, x.on)')
      BY <2>4, <2>5, <3>1
    <3> QED BY <2>1, <2>2, <2>3, <2>6, <3>1, <3>2
  <2> QED BY <1>0, <2>1, <2>2, <2>3, <2>6, <2>7
<1> QED BY <1>1, <1>2, <1>3 DEF CommentStep

\* ... and what the requests know of them.
LEMMA CommentsAreKnown ==
    ASSUME CommentsInv, NEW r \in Slots, NEW q, CommentStep(r, q), NEW s \in Slots
    PROVE  req'[s] \in CommentRequest \cup {Idle} /\ KnowsItsComment(req[s])'
<1>1. /\ req \in [Slots -> CommentRequest \cup {Idle}] /\ KnowsItsComment(req[s])
      /\ comments \in Seq(Comment) /\ DOMAIN comments = 1..Len(comments)
  BY CommentTable DEF CommentsInv
<1>2. /\ req'[s] \in CommentRequest \cup {Idle}
      /\ s = r => req'[s] = q
      /\ s # r => req'[s] = req[s]
  BY <1>1 DEF CommentStep
<1>3. PICK x : x = req'[s]
  OBVIOUS
<1>4. CASE CommentsGoOn(r, q)
  <2>1. KnowsItsComment(x)
    BY <1>1, <1>2, <1>3, <1>4 DEF CommentsGoOn
  <2>2. UNCHANGED <<comments, wrote, mixed>>
    BY <1>4 DEF CommentsGoOn, commentVars
  <2>3. KnowsItsComment(x)'
    BY <2>1, <2>2 DEF KnowsItsComment, IsTop
  <2> QED BY <1>2, <1>3, <2>3
<1>5. CASE q = Idle /\ s = r
  BY <1>2, <1>5, IdleKnowsNoComment DEF KnowsItsComment
<1>6. ASSUME s # r, DOMAIN comments \subseteq DOMAIN comments', wrote \subseteq wrote',
             mixed \subseteq mixed',
             \A m \in DOMAIN comments : SameComment(comments'[m], comments[m]),
             \A m \in DOMAIN comments :
                \/ comments'[m] = comments[m] \/ req[s].copy = <<>> \/ req[s].id # m
                \/ At(s, "idle") \/ m \in mixed'
      PROVE  KnowsItsComment(req[s])'
  <2>1. KnowsItsComment(x) /\ x = req[s]
    BY <1>1, <1>2, <1>3, <1>6
  <2>2. \A p, e : IsTop(p, e) => IsTop(p, e)'
    BY <1>6 DEF IsTop, SameComment
  <2>3. KnowsItsComment(x)'
    BY <1>6, <2>1, <2>2 DEF KnowsItsComment, SameComment, At
  <2> QED BY <1>3, <2>3
<1>7. ASSUME s # r, NEW row, CommentAdded(row) PROVE KnowsItsComment(req[s])'
  <2>1. /\ DOMAIN comments \subseteq DOMAIN comments'
        /\ \A m \in DOMAIN comments : comments'[m] = comments[m]
    BY <1>1, <1>7, LongerSequence DEF CommentAdded
  <2>2. \A m \in DOMAIN comments : comments[m] \in Comment
    BY CommentTable
  <2> QED BY <1>6, <1>7, <2>1, <2>2 DEF CommentAdded, SameComment
<1>8. ASSUME s # r, NEW c, NEW row, NEW want, CommentWritten(r, c, row, want)
      PROVE  KnowsItsComment(req[s])'
  <2>1. /\ DOMAIN comments' = DOMAIN comments /\ comments'[c] = row
        /\ \A m \in DOMAIN comments : m # c => comments'[m] = comments[m]
    BY <1>1, <1>8, RowOfASequence DEF CommentWritten, SameComment
  <2>2. \A m \in DOMAIN comments : comments[m] \in Comment
    BY CommentTable
  <2>3. \A m \in DOMAIN comments : SameComment(comments'[m], comments[m])
    BY <1>8, <2>1, <2>2 DEF CommentWritten, SameComment
  <2>4. mixed \subseteq mixed' /\ wrote \subseteq wrote'
    BY <1>8 DEF CommentWritten, Overlap
  <2>5. req[s].copy = <<>> \/ req[s].id # c \/ At(s, "idle") \/ c \in mixed'
    BY <1>8 DEF CommentWritten, Overlap, Others
  <2> QED BY <1>6, <1>8, <2>1, <2>3, <2>4, <2>5
<1> QED BY <1>2, <1>4, <1>5, <1>7, <1>8 DEF CommentStep

\* Every step keeps the invariant.
LEMMA CommentInvSteps ==
    CommentsInv /\ [CommentsNext]_<<commentVars, requestVars>> => CommentsInv'
<1>1. ASSUME CommentsInv, CommentsNext PROVE CommentsInv'
  <2>1. PICK r, q : r \in Slots /\ CommentStep(r, q)
    BY <1>1, CommentSteps
  <2>2. /\ comments' \in Seq(Comment) /\ Len(comments') <= MaxComments
        /\ acked' \in Seq(Comment) /\ Len(acked') = Len(comments')
        /\ wrote' \subseteq (1..MaxComments) \X Writers \X Text
        /\ mixed' \subseteq 1..Len(comments') /\ CommentsAreSound'
    BY <1>1, <2>1, CommentRowsAfter
  <2>3. \A s \in Slots : req'[s] \in CommentRequest \cup {Idle} /\ KnowsItsComment(req[s])'
    BY <1>1, <2>1, CommentsAreKnown
  <2>4. req' \in [Slots -> CommentRequest \cup {Idle}]
    <3>1. req \in [Slots -> CommentRequest \cup {Idle}]
      BY <1>1, CommentTable
    <3> QED BY <2>1, <3>1 DEF CommentStep
  <2>5. CommentsTypeOK'
    BY <2>1, <2>2, <2>4 DEF CommentsTypeOK, RequestsAre, CommentStep
  <2> QED BY <2>2, <2>3, <2>5 DEF CommentsInv
<1>2. ASSUME CommentsInv, UNCHANGED <<commentVars, requestVars>> PROVE CommentsInv'
  BY <1>2
  DEF CommentsInv, CommentsTypeOK, RequestsAre, CommentsAreSound, KnowsItsComment, IsTop,
      commentVars, requestVars
<1> QED BY <1>1, <1>2

\* The table is empty at first.
LEMMA CommentsStart == CommentsInit /\ RequestsInit => CommentsInv
<1> SUFFICES ASSUME CommentsInit, RequestsInit PROVE CommentsInv
  OBVIOUS
<1>1. DOMAIN comments = {} /\ comments = <<>> /\ Len(<<>>) = 0 /\ \A S : <<>> \in Seq(S)
  BY DEF CommentsInit
<1>2. CommentsTypeOK
  BY <1>1, RequestBoundsAssumption, MaxCommentsAssumption
  DEF CommentsInit, RequestsInit, CommentsTypeOK, RequestsAre
<1>3. \A r \in Slots : KnowsItsComment(req[r])
  BY IdleKnowsNoComment DEF RequestsInit
<1> QED BY <1>1, <1>2, <1>3 DEF CommentsInv, CommentsAreSound

\* What readers are shown follows from the rows.
LEMMA CommentsAreShown == CommentsInv => CommentsHold
<1> SUFFICES ASSUME CommentsInv PROVE CommentsHold
  OBVIOUS
<1>1. /\ DOMAIN comments \subseteq Nat /\ 0 \notin DOMAIN comments
      /\ \A c \in DOMAIN comments :
            LET row == comments[c]
            IN  /\ row.parent = 0 \/ (row.parent < c /\ IsTop(row.parent, row.on))
                /\ <<c, row.author, row.text>> \in wrote
                /\ c \in mixed \/ row = acked[c]
  BY CommentTable DEF CommentsInv, CommentsAreSound
<1>2. ASSUME NEW c \in DOMAIN comments, NEW d \in FindReplies(c)
      PROVE  /\ comments[c].parent = 0 /\ d \in FindByCommentable(comments[c].on)
             /\ d > c /\ CountReplies(d) = 0
  <2>1. d \in DOMAIN comments /\ comments[d].parent = c /\ ~comments[d].deleted /\ c # 0
    BY <1>1, <1>2 DEF FindReplies
  <2>2. c < d /\ IsTop(c, comments[d].on)
    BY <1>1, <2>1
  <2>3. FindReplies(d) = {}
    <3>1. ASSUME NEW e \in FindReplies(d) PROVE FALSE
      <4>1. e \in DOMAIN comments /\ comments[e].parent = d /\ d # 0
        BY <1>1, <2>1, <3>1 DEF FindReplies
      <4>2. comments[d].parent = 0
        BY <1>1, <4>1 DEF IsTop
      <4> QED BY <2>1, <4>2
    <3> QED BY <3>1
  <2> QED BY <1>1, <2>1, <2>2, <2>3, FS_EmptySet DEF IsTop, FindByCommentable, CountReplies
<1>3. ThreadsAreFlat
  BY <1>2 DEF ThreadsAreFlat, ListReplies, BuildCommentResponse
<1>4. WordsAreTheAuthors
  BY <1>1 DEF WordsAreTheAuthors
<1>5. ChangesStand
  BY <1>1 DEF ChangesStand
<1> QED BY <1>3, <1>4, <1>5 DEF CommentsHold

\* CommentsHold: a thread has one level, a text under a name was sent by its owner, and a change
\* that was acknowledged stands unless requests overlapped: service/comment.go, for any users,
\* entities, requests and failures.
THEOREM CommentsAlwaysHold == CommentsSpec => []CommentsHold
BY CommentsStart, CommentInvSteps, CommentsAreShown, PTL DEF CommentsSpec

-----------------------------------------------------------------------------
(* Invoices *)

\* Row x is row y with another amount or status, or deleted.
SameInvoice(x, y) == x \in Invoice /\ x.owner = y.owner /\ x.number = y.number

\* Row x with amount a and status s, or with status s.
Charged(x, a, s) == [x EXCEPT !.amount = a, !.status = s]
Stated(x, s) == [x EXCEPT !.status = s]

\* The fields of a row, ...
LEMMA InvoiceIsTyped ==
    ASSUME NEW row \in Invoice
    PROVE  /\ row.owner \in Billers /\ row.number \in 1..MaxClock /\ row.amount \in Amount
           /\ row.status \in InvoiceStatus /\ row.deleted \in BOOLEAN
BY DEF Invoice

\* ... some of which are set.
LEMMA SetInvoiceIsTyped ==
    ASSUME NEW row \in Invoice
    PROVE  /\ \A a \in Amount, s \in InvoiceStatus :
                SameInvoice(Charged(row, a, s), row) /\ Charged(row, a, s).amount = a
           /\ \A s \in InvoiceStatus :
                SameInvoice(Stated(row, s), row) /\ Stated(row, s).amount = row.amount
           /\ SameInvoice(Dropped(row), row) /\ Dropped(row).amount = row.amount
BY DEF Invoice, SameInvoice, Charged, Stated, Dropped

\* What a request is made of.
LEMMA InvoiceRequestIsTyped ==
    /\ Idle \notin InvoiceRequest /\ Idle.pc = "idle"
    /\ \A q \in InvoiceRequest :
        /\ q.pc \in {"create", "created", "update", "save", "delete", "drop", "status",
                     "savestatus", "paid"}
        /\ q.user \in Billers /\ q.id \in 0..MaxInvoices /\ q.number \in 1..MaxClock
        /\ q.amount \in Amount /\ q.status \in InvoiceStatus \cup {"same"}
        /\ q.copy \in Seq(Invoice)
BY DEF Idle, InvoiceRequest

\* What it becomes: at another statement, ...
InvoiceAt(q, label) == [q EXCEPT !.pc = label]

\* The request at another statement, ...
LEMMA InvoiceAtIsTyped ==
    ASSUME NEW q \in InvoiceRequest, NEW label \in {"drop", "paid"}
    PROVE  LET x == InvoiceAt(q, label)
           IN  x \in InvoiceRequest /\ x.pc = label /\ x.id = q.id
BY DEF InvoiceRequest, InvoiceAt

\* ... with the id of its row, ...
InvoiceMade(q, i) == [q EXCEPT !.pc = "created", !.id = i]

\* ... with the row it has inserted, ...
LEMMA InvoiceMadeIsTyped ==
    ASSUME NEW q \in InvoiceRequest, NEW i \in 0..MaxInvoices
    PROVE  LET x == InvoiceMade(q, i)
           IN  x \in InvoiceRequest /\ x.pc = "created" /\ x.id = i
BY DEF InvoiceRequest, InvoiceMade

\* ... or with the row it read.
InvoiceRead(q, label, row) == [q EXCEPT !.pc = label, !.copy = <<row>>]

\* ... or with the row it has read.
LEMMA InvoiceReadIsTyped ==
    ASSUME NEW q \in InvoiceRequest, NEW row \in Invoice, NEW label \in {"save", "savestatus"}
    PROVE  LET x == InvoiceRead(q, label, row)
           IN  /\ x \in InvoiceRequest /\ x.pc = label /\ x.id = q.id /\ x.user = q.user
               /\ x.status = q.status /\ x.copy = <<row>>
<1>1. <<row>> \in Seq(Invoice)
  OBVIOUS
<1> QED BY <1>1 DEF InvoiceRequest, InvoiceRead

\* A handler begins with such a request.
LEMMA InvoiceCallIsTyped ==
    ASSUME begun + 1 \in Amount, clock \in 1..MaxClock, NEW u \in Billers,
           NEW i \in 0..MaxInvoices, NEW label \in {"create", "update", "delete", "status"},
           NEW status \in InvoiceStatus \cup {"same"}
    PROVE  LET x == InvoiceCall(label, u, i, begun + 1, status)
           IN  x \in InvoiceRequest /\ x.pc = label /\ x.id = i /\ x.status = status
<1>1. <<>> \in Seq(Invoice)
  OBVIOUS
<1> QED BY <1>1 DEF InvoiceRequest, InvoiceCall

\* The request in slot r owes the bus an event.
OwesEvent(r) == At(r, "created") \/ At(r, "paid")

\* Request r becomes q and changes no row, ...
InvoicesGoOn(r, q) ==
    /\ KnowsItsInvoice(q) /\ q.pc \notin {"created", "paid"} /\ UNCHANGED invoiceVars
    /\ OwesEvent(r) => faults' = faults + 1

\* ... or it has inserted one, ...
InvoiceAdded(q, row) ==
    /\ row \in Invoice /\ NumberIsFree(row.number) /\ Len(invoices) < MaxInvoices
    /\ invoices' = Append(invoices, row) /\ settled' = Append(settled, row)
    /\ payments' = Append(payments, 0)
    /\ billed' = billed \cup {<<Len(invoices) + 1, row.owner, row.amount>>}
    /\ UNCHANGED <<clock, announced, entangled>>
    /\ q.pc = "created" /\ q.id = Len(invoices) + 1

\* ... or written one, ...
InvoiceWritten(r, q, i, row, want) ==
    /\ i \in DOMAIN invoices /\ SameInvoice(row, invoices[i]) /\ want \in Invoice
    /\ i \in entangled \/ row = want
    /\ Invoice_Save(r, i, row) /\ settled' = [settled EXCEPT ![i] = want]
    /\ billed \subseteq billed' /\ billed' \subseteq (DOMAIN invoices) \X Billers \X Amount
    /\ \E v \in {row.owner} \cup Clerks : <<i, v, row.amount>> \in billed'
    /\ UNCHANGED <<clock, announced>>
    /\ \/ q = Idle /\ payments' = payments
       \/ q.pc = "paid" /\ q.id = i /\ payments' = [payments EXCEPT ![i] = @ + 1]

\* ... or told the bus.
InvoiceTold(r, q) ==
    /\ OwesEvent(r) /\ q = Idle
    /\ \E status \in InvoiceStatus : Publish(req[r].pc, req[r].id, status)
    /\ UNCHANGED <<invoices, clock, settled, entangled, billed, payments>>

InvoiceStep(r, q) ==
    /\ q \in InvoiceRequest \cup {Idle} /\ req' = [req EXCEPT ![r] = q]
    /\ begun' \in 0..MaxRequests /\ faults' \in 0..MaxFaults /\ faults' \in {faults, faults + 1}
    /\ \/ InvoicesGoOn(r, q)
       \/ ~OwesEvent(r) /\ \E row : InvoiceAdded(q, row)
       \/ ~OwesEvent(r) /\ \E i, row, want : InvoiceWritten(r, q, i, row, want)
       \/ InvoiceTold(r, q)

\* What the invariant says of the table, ...
LEMMA InvoiceTable ==
    ASSUME InvoicesInv
    PROVE  /\ begun \in 0..MaxRequests /\ faults \in 0..MaxFaults /\ clock \in 1..MaxClock
           /\ MaxRequests \in Nat /\ MaxFaults \in Nat /\ MaxInvoices \in Nat
           /\ req \in [Slots -> InvoiceRequest \cup {Idle}]
           /\ invoices \in Seq(Invoice) /\ settled \in Seq(Invoice) /\ payments \in Seq(Nat)
           /\ Len(settled) = Len(invoices) /\ Len(payments) = Len(invoices)
           /\ Len(invoices) \in Nat /\ Len(invoices) <= MaxInvoices
           /\ DOMAIN invoices = 1..Len(invoices) /\ DOMAIN settled = DOMAIN invoices
           /\ DOMAIN payments = DOMAIN invoices /\ DOMAIN invoices \subseteq 1..MaxInvoices
           /\ billed \subseteq (DOMAIN invoices) \X Billers \X Amount
           /\ entangled \subseteq DOMAIN invoices
           /\ \A i \in DOMAIN invoices : /\ invoices[i] \in Invoice /\ settled[i] \in Invoice
                                         /\ payments[i] \in Nat
<1>1. /\ begun \in 0..MaxRequests /\ faults \in 0..MaxFaults /\ clock \in 1..MaxClock
      /\ MaxRequests \in Nat /\ MaxFaults \in Nat /\ MaxInvoices \in Nat
      /\ req \in [Slots -> InvoiceRequest \cup {Idle}]
      /\ invoices \in Seq(Invoice) /\ settled \in Seq(Invoice) /\ payments \in Seq(Nat)
      /\ Len(settled) = Len(invoices) /\ Len(payments) = Len(invoices)
      /\ Len(invoices) <= MaxInvoices
      /\ billed \subseteq (DOMAIN invoices) \X Billers \X Amount
      /\ entangled \subseteq DOMAIN invoices
  BY RequestBoundsAssumption, InvoicesAssumption DEF InvoicesInv, InvoicesTypeOK, RequestsAre
<1>2. /\ Len(invoices) \in Nat /\ DOMAIN invoices = 1..Len(invoices)
      /\ DOMAIN settled = DOMAIN invoices /\ DOMAIN payments = DOMAIN invoices
  BY <1>1
<1>3. DOMAIN invoices \subseteq 1..MaxInvoices
  BY <1>1, <1>2
<1>4. \A i \in DOMAIN invoices : /\ invoices[i] \in Invoice /\ settled[i] \in Invoice
                                 /\ payments[i] \in Nat
  BY <1>1, <1>2
<1> QED BY <1>1, <1>2, <1>3, <1>4

\* ... and of the request in a slot.
LEMMA InvoiceInSlot ==
    ASSUME InvoicesInv, NEW r \in Slots, ~At(r, "idle")
    PROVE  \E q \in InvoiceRequest : q = req[r] /\ KnowsItsInvoice(q)
<1>1. req[r] \in InvoiceRequest \cup {Idle} /\ KnowsItsInvoice(req[r])
  BY DEF InvoicesInv, InvoicesTypeOK, RequestsAre
<1> QED BY <1>1 DEF At, Idle

\* A request goes on without a row, ...
LEMMA InvoiceGoesOn ==
    ASSUME InvoicesInv, NEW r \in Slots, NEW q \in InvoiceRequest \cup {Idle}, Become(r, q),
           KnowsItsInvoice(q), q.pc \notin {"created", "paid"}, ~OwesEvent(r),
           UNCHANGED invoiceVars
    PROVE  InvoiceStep(r, q)
BY InvoiceTable DEF InvoiceStep, InvoicesGoOn, Become

\* ... or it ends.
LEMMA IdleKnowsNoInvoice == KnowsItsInvoice(Idle) /\ Idle.pc = "idle"
BY DEF KnowsItsInvoice, Idle

\* A request that owes no event may end.
LEMMA InvoiceEnds ==
    ASSUME InvoicesInv, NEW r \in Slots, Finish(r), UNCHANGED invoiceVars, ~OwesEvent(r)
    PROVE  \E q : InvoiceStep(r, q)
BY InvoiceGoesOn, IdleKnowsNoInvoice DEF Finish

\* The handlers.
LEMMA HandlersBeginInvoices ==
    ASSUME InvoicesInv, NEW r \in Slots, InvoiceHandlers(r)
    PROVE  \E q : InvoiceStep(r, q)
<1>1. ASSUME NEW u \in Billers, NEW i \in DOMAIN invoices \cup {0},
             NEW label \in {"create", "update", "delete", "status"},
             NEW status \in InvoiceStatus \cup {"same"},
             Begin(r, InvoiceCall(label, u, i, begun + 1, status)), UNCHANGED invoiceVars,
             label = "create" \/ i # 0,
             label \in {"create", "status"} => status \in InvoiceStatus
      PROVE  \E x : InvoiceStep(r, x)
  <2>1. PICK q : q = InvoiceCall(label, u, i, begun + 1, status)
    OBVIOUS
  <2>2. begun + 1 \in Amount /\ begun' \in 0..MaxRequests
    BY <1>1, InvoiceTable DEF Begin, Amount
  <2>3. i \in 0..MaxInvoices
    BY InvoiceTable
  <2>4. q \in InvoiceRequest /\ q.pc = label /\ q.id = i /\ q.status = status
    BY <2>1, <2>2, <2>3, InvoiceTable, InvoiceCallIsTyped
  <2>5. KnowsItsInvoice(q)
    BY <1>1, <2>4 DEF KnowsItsInvoice
  <2>6. req' = [req EXCEPT ![r] = q] /\ faults' = faults /\ At(r, "idle")
    BY <1>1, <2>1 DEF Begin
  <2>7. InvoicesGoOn(r, q)
    BY <1>1, <2>4, <2>5, <2>6 DEF InvoicesGoOn, OwesEvent, At
  <2> QED BY <2>2, <2>4, <2>6, <2>7, InvoiceTable DEF InvoiceStep
<1>2. ASSUME NEW u \in Billers, HandleCreateInvoice(r, u) PROVE \E x : InvoiceStep(r, x)
  BY <1>1, <1>2 DEF HandleCreateInvoice, InvoiceStatus
<1>3. ASSUME NEW u \in Billers, NEW i \in DOMAIN invoices, NEW s \in {"same", "pending", "paid"},
             HandleUpdateInvoice(r, u, i, s)
      PROVE  \E x : InvoiceStep(r, x)
  <2>1. i # 0 /\ s \in InvoiceStatus \cup {"same"}
    BY InvoiceTable DEF InvoiceStatus
  <2> QED BY <1>1, <1>3, <2>1 DEF HandleUpdateInvoice
<1>4. ASSUME NEW u \in Billers, NEW i \in DOMAIN invoices, HandleDeleteInvoice(r, u, i)
      PROVE  \E x : InvoiceStep(r, x)
  <2>1. i # 0
    BY InvoiceTable
  <2> QED BY <1>1, <1>4, <2>1 DEF HandleDeleteInvoice
<1>5. ASSUME NEW u \in Billers, NEW i \in DOMAIN invoices, NEW s \in {"paid", "cancelled"},
             HandleInvoiceStatus(r, u, i, s)
      PROVE  \E x : InvoiceStep(r, x)
  <2>1. i # 0 /\ s \in InvoiceStatus
    BY InvoiceTable DEF InvoiceStatus
  <2> QED BY <1>1, <1>5, <2>1 DEF HandleInvoiceStatus
<1> QED BY <1>2, <1>3, <1>4, <1>5 DEF InvoiceHandlers

\* Create inserts the row, ...
LEMMA CreatesInvoice ==
    ASSUME InvoicesInv, NEW r \in Slots, CreateInvoice(r)
    PROVE  \E q : InvoiceStep(r, q)
<1>1. PICK p \in InvoiceRequest : p = req[r] /\ KnowsItsInvoice(p) /\ p.pc = "create"
  BY InvoiceInSlot DEF CreateInvoice, At
<1>2. ~OwesEvent(r)
  BY <1>1 DEF OwesEvent, At
<1>3. CASE NumberIsFree(p.number)
  <2>1. PICK row : row = [owner |-> p.user, number |-> p.number, amount |-> p.amount,
                          status |-> p.status, deleted |-> FALSE]
    OBVIOUS
  <2>2. PICK new : new = Len(invoices) + 1
    OBVIOUS
  <2>3. row \in Invoice /\ row.owner = p.user /\ row.number = p.number /\ row.amount = p.amount
    BY <1>1, <2>1, InvoiceRequestIsTyped DEF Invoice, KnowsItsInvoice
  <2>4. /\ Len(invoices) < MaxInvoices
        /\ invoices' = Append(invoices, row) /\ settled' = Append(settled, row)
        /\ payments' = Append(payments, 0)
        /\ billed' = billed \cup {<<new, p.user, p.amount>>}
        /\ UNCHANGED <<clock, announced, entangled>>
        /\ Become(r, InvoiceMade(p, new))
    BY <1>1, <1>3, <2>1, <2>2 DEF CreateInvoice, InvoiceMade
  <2>5. PICK q : q = InvoiceMade(p, new)
    OBVIOUS
  <2>6. new \in 0..MaxInvoices
    BY <2>2, <2>4, InvoiceTable
  <2>7. q \in InvoiceRequest /\ q.pc = "created" /\ q.id = new
    BY <2>5, <2>6, InvoiceMadeIsTyped
  <2>8. InvoiceAdded(q, row)
    BY <1>3, <2>2, <2>3, <2>4, <2>7 DEF InvoiceAdded
  <2> QED BY <1>2, <2>4, <2>5, <2>7, <2>8, InvoiceTable DEF InvoiceStep, Become
<1>4. CASE ~NumberIsFree(p.number)
  <2>1. Finish(r) /\ UNCHANGED invoiceVars
    BY <1>1, <1>4 DEF CreateInvoice, invoiceVars
  <2> QED BY <1>2, <2>1, InvoiceEnds
<1> QED BY <1>3, <1>4

\* ... and the bus is told of it, or of a payment.
LEMMA TellsOfInvoice ==
    ASSUME InvoicesInv, NEW r \in Slots, AnnounceInvoice(r) \/ AnnouncePayment(r)
    PROVE  InvoiceStep(r, Idle)
<1>1. InvoiceTold(r, Idle)
  <2>1. CASE AnnounceInvoice(r)
    BY <2>1 DEF AnnounceInvoice, InvoiceTold, OwesEvent, At, InvoiceStatus
  <2>2. CASE AnnouncePayment(r)
    BY <2>2 DEF AnnouncePayment, InvoiceTold, OwesEvent, At, InvoiceStatus
  <2> QED BY <2>1, <2>2
<1>2. Finish(r)
  BY DEF AnnounceInvoice, AnnouncePayment
<1> QED BY <1>1, <1>2, InvoiceTable DEF InvoiceStep, Finish, Become

\* Update and UpdateStatus read the row, ...
LEMMA ReadsInvoice ==
    ASSUME InvoicesInv, NEW r \in Slots, UpdateInvoice(r) \/ UpdateInvoiceStatus(r)
    PROVE  \E q : InvoiceStep(r, q)
<1>1. PICK p \in InvoiceRequest : p = req[r] /\ KnowsItsInvoice(p) /\ p.pc \in {"update", "status"}
  BY InvoiceInSlot DEF UpdateInvoice, UpdateInvoiceStatus, At
<1>2. UNCHANGED invoiceVars /\ ~OwesEvent(r)
  BY <1>1 DEF UpdateInvoice, UpdateInvoiceStatus, OwesEvent, At
<1>3. CASE Finish(r)
  BY <1>2, <1>3, InvoiceEnds
<1>4. ASSUME NEW label \in {"save", "savestatus"}, Invoice_FindByID(p.id),
             Become(r, InvoiceRead(p, label, invoices[p.id])),
             label = "save" => p.user \in Clerks \cup {invoices[p.id].owner},
             label = "savestatus" => p.status \in InvoiceStatus
      PROVE  \E q : InvoiceStep(r, q)
  <2>1. PICK row : row = invoices[p.id]
    OBVIOUS
  <2>2. row \in Invoice /\ p.id \in DOMAIN invoices
    BY <1>4, <2>1, InvoiceTable DEF Invoice_FindByID
  <2>3. PICK q : q = InvoiceRead(p, label, row)
    OBVIOUS
  <2>4. /\ q \in InvoiceRequest /\ q.pc = label /\ q.id = p.id /\ q.user = p.user
        /\ q.status = p.status /\ q.copy = <<row>>
    BY <2>2, <2>3, InvoiceReadIsTyped
  <2>5. q.copy # <<>> /\ q.copy[1] = row
    BY <2>4
  <2>6. IsBilled(p.id, row.owner, row.amount)
    BY <2>1, <2>2 DEF InvoicesInv, InvoicesAreSound
  <2>7. KnowsItsInvoice(q)
    BY <1>4, <2>1, <2>2, <2>4, <2>5, <2>6 DEF KnowsItsInvoice
  <2> QED BY <1>2, <1>4, <2>1, <2>3, <2>4, <2>7, InvoiceGoesOn
<1>5. CASE UpdateInvoice(r) /\ ~Finish(r)
  <2>1. IsOwnedBy(p.id, p.user) /\ Become(r, InvoiceRead(p, "save", invoices[p.id]))
    BY <1>1, <1>5 DEF UpdateInvoice, InvoiceRead
  <2> QED BY <1>4, <2>1 DEF IsOwnedBy
<1>6. CASE UpdateInvoiceStatus(r) /\ ~Finish(r)
  <2>1. /\ Invoice_FindByID(p.id) /\ Become(r, InvoiceRead(p, "savestatus", invoices[p.id]))
        /\ p.pc = "status"
    BY <1>1, <1>6 DEF UpdateInvoiceStatus, InvoiceRead, At
  <2>2. p.status \in InvoiceStatus
    BY <1>1, <2>1 DEF KnowsItsInvoice
  <2> QED BY <1>4, <2>1, <2>2
<1> QED BY <1>3, <1>5, <1>6

\* ... and save the copy of it with a change.
LEMMA SavesInvoice ==
    ASSUME InvoicesInv, NEW r \in Slots, SaveInvoice(r) \/ SaveInvoiceStatus(r)
    PROVE  \E q : InvoiceStep(r, q)
<1>1. PICK p \in InvoiceRequest :
            p = req[r] /\ KnowsItsInvoice(p) /\ p.pc \in {"save", "savestatus"}
  BY InvoiceInSlot DEF SaveInvoice, SaveInvoiceStatus, At
<1>2. ~OwesEvent(r)
  BY <1>1 DEF OwesEvent, At
<1>3. PICK i, copy, old : i = p.id /\ copy = p.copy[1] /\ old = settled[i]
  OBVIOUS
<1>4. /\ copy \in Invoice /\ i \in DOMAIN invoices
      /\ copy.owner = invoices[i].owner /\ copy.number = invoices[i].number
      /\ IsBilled(i, copy.owner, copy.amount)
      /\ i \in entangled \/ copy = invoices[i]
  <2>1. p.copy \in Seq(Invoice) /\ p.copy # <<>>
    BY <1>1, InvoiceRequestIsTyped DEF KnowsItsInvoice
  <2>2. p.copy[1] \in Invoice
    BY <2>1
  <2> QED BY <1>1, <1>3, <2>2 DEF KnowsItsInvoice
<1>5. i \in entangled \/ copy = old
  BY <1>3, <1>4 DEF InvoicesInv, InvoicesAreSound
<1>6. /\ old \in Invoice /\ p.user \in Billers /\ p.amount \in Amount
      /\ p.status \in InvoiceStatus \cup {"same"}
      /\ billed \subseteq (DOMAIN invoices) \X Billers \X Amount
      /\ copy.status \in InvoiceStatus /\ old.status \in InvoiceStatus
  BY <1>3, <1>4, InvoiceTable, InvoiceRequestIsTyped, InvoiceIsTyped
<1>7. CASE SaveInvoice(r)
  <2>1. PICK s, t : /\ s = (IF p.status = "same" THEN copy.status ELSE p.status)
                    /\ t = (IF p.status = "same" THEN old.status ELSE p.status)
    OBVIOUS
  <2>2. PICK row, want : row = Charged(copy, p.amount, s) /\ want = Charged(old, p.amount, t)
    OBVIOUS
  <2>3. /\ SameInvoice(row, copy) /\ row.amount = p.amount /\ want \in Invoice
        /\ copy = old => row = want
    <3>1. s \in InvoiceStatus /\ t \in InvoiceStatus
      BY <1>6, <2>1
    <3>2. SameInvoice(row, copy) /\ row.amount = p.amount
      BY <1>4, <1>6, <2>2, <3>1, SetInvoiceIsTyped
    <3>3. SameInvoice(want, old)
      BY <1>6, <2>2, <3>1, SetInvoiceIsTyped
    <3>4. copy = old => row = want
      BY <2>1, <2>2
    <3> QED BY <3>2, <3>3, <3>4 DEF SameInvoice
  <2>4. /\ Invoice_Save(r, i, row) /\ settled' = [settled EXCEPT ![i] = want]
        /\ billed' = billed \cup {<<i, p.user, p.amount>>}
        /\ Finish(r) /\ UNCHANGED <<clock, announced, payments>>
    BY <1>1, <1>3, <1>7, <2>1, <2>2 DEF SaveInvoice, Charged
  <2>5. p.user \in Clerks \cup {row.owner}
    BY <1>1, <1>3, <1>4, <1>7, <2>3 DEF SaveInvoice, At, KnowsItsInvoice, SameInvoice
  <2>6. \E v \in {row.owner} \cup Clerks : <<i, v, row.amount>> \in billed'
    BY <2>3, <2>4, <2>5
  <2>7. billed' \subseteq (DOMAIN invoices) \X Billers \X Amount /\ billed \subseteq billed'
    BY <1>4, <1>6, <2>4
  <2>8. SameInvoice(row, invoices[i])
    BY <1>4, <2>3 DEF SameInvoice
  <2>9. InvoiceWritten(r, Idle, i, row, want)
    BY <1>4, <1>5, <2>3, <2>4, <2>6, <2>7, <2>8 DEF InvoiceWritten
  <2> QED BY <1>2, <2>4, <2>9, InvoiceTable DEF InvoiceStep, Finish, Become
<1>8. CASE SaveInvoiceStatus(r)
  <2>1. p.status \in InvoiceStatus
    BY <1>1, <1>8 DEF SaveInvoiceStatus, At, KnowsItsInvoice
  <2>2. PICK row, want : row = Stated(copy, p.status) /\ want = Stated(old, p.status)
    OBVIOUS
  <2>3. /\ SameInvoice(row, copy) /\ row.amount = copy.amount /\ want \in Invoice
        /\ copy = old => row = want
    BY <1>4, <1>6, <2>1, <2>2, SetInvoiceIsTyped DEF SameInvoice
  <2>4. /\ Invoice_Save(r, i, row) /\ settled' = [settled EXCEPT ![i] = want]
        /\ UNCHANGED <<clock, announced, billed>>
    BY <1>1, <1>3, <1>8, <2>2 DEF SaveInvoiceStatus, Stated
  <2>5. \E v \in {row.owner} \cup Clerks : <<i, v, row.amount>> \in billed'
    BY <1>4, <2>3, <2>4 DEF IsBilled, SameInvoice
  <2>6. SameInvoice(row, invoices[i])
    BY <1>4, <2>3 DEF SameInvoice
  <2>7. ASSUME NEW q, \/ q = Idle /\ payments' = payments
                      \/ q.pc = "paid" /\ q.id = i /\ payments' = [payments EXCEPT ![i] = @ + 1]
        PROVE  InvoiceWritten(r, q, i, row, want)
    BY <1>4, <1>5, <1>6, <2>3, <2>4, <2>5, <2>6, <2>7 DEF InvoiceWritten
  <2>8. CASE p.status = "paid"
    <3>1. /\ payments' = [payments EXCEPT ![i] = @ + 1]
          /\ Become(r, InvoiceAt(p, "paid"))
      BY <1>1, <1>3, <1>8, <2>8 DEF SaveInvoiceStatus, Goto, InvoiceAt
    <3>2. PICK q : q = InvoiceAt(p, "paid")
      OBVIOUS
    <3>3. q \in InvoiceRequest /\ q.pc = "paid" /\ q.id = i
      BY <1>3, <3>2, InvoiceAtIsTyped
    <3>4. InvoiceWritten(r, q, i, row, want)
      BY <2>7, <3>1, <3>3
    <3> QED BY <1>2, <3>1, <3>2, <3>3, <3>4, InvoiceTable DEF InvoiceStep, Become
  <2>9. CASE p.status # "paid"
    <3>1. payments' = payments /\ Finish(r)
      BY <1>1, <1>8, <2>9 DEF SaveInvoiceStatus
    <3>2. InvoiceWritten(r, Idle, i, row, want)
      BY <2>7, <3>1
    <3> QED BY <1>2, <3>1, <3>2, InvoiceTable DEF InvoiceStep, Finish, Become
  <2> QED BY <2>8, <2>9
<1> QED BY <1>7, <1>8

\* An invoice is deleted.
LEMMA DropsInvoice ==
    ASSUME InvoicesInv, NEW r \in Slots, DeleteInvoice(r) \/ SoftDeleteInvoice(r)
    PROVE  \E q : InvoiceStep(r, q)
<1>1. PICK p \in InvoiceRequest : p = req[r] /\ KnowsItsInvoice(p) /\ p.pc \in {"delete", "drop"}
  BY InvoiceInSlot DEF DeleteInvoice, SoftDeleteInvoice, At
<1>2. ~OwesEvent(r)
  BY <1>1 DEF OwesEvent, At
<1>3. CASE Finish(r) /\ UNCHANGED invoiceVars
  BY <1>2, <1>3, InvoiceEnds
<1>4. CASE UNCHANGED invoiceVars /\ Goto(r, "drop") /\ p.pc = "delete"
  <2>1. PICK q : q = InvoiceAt(p, "drop")
    OBVIOUS
  <2>2. q \in InvoiceRequest /\ q.pc = "drop" /\ q.id = p.id
    BY <2>1, InvoiceAtIsTyped
  <2>3. KnowsItsInvoice(q)
    BY <1>1, <1>4, <2>2 DEF KnowsItsInvoice
  <2>4. Become(r, q)
    BY <1>1, <1>4, <2>1 DEF Goto, InvoiceAt
  <2> QED BY <1>2, <1>4, <2>2, <2>3, <2>4, InvoiceGoesOn
<1>5. CASE SoftDeleteInvoice(r) /\ Invoice_FindByID(p.id)
  <2>1. PICK i, row, want : /\ i = p.id /\ row = Dropped(invoices[i])
                            /\ want = Dropped(settled[i])
    OBVIOUS
  <2>2. i \in DOMAIN invoices /\ invoices[i] \in Invoice /\ settled[i] \in Invoice
    BY <1>5, <2>1, InvoiceTable DEF Invoice_FindByID
  <2>3. /\ SameInvoice(row, invoices[i]) /\ row.amount = invoices[i].amount /\ want \in Invoice
        /\ invoices[i] = settled[i] => row = want
    BY <2>1, <2>2, SetInvoiceIsTyped DEF SameInvoice
  <2>4. /\ Invoice_Save(r, i, row) /\ settled' = [settled EXCEPT ![i] = want]
        /\ Finish(r) /\ UNCHANGED <<clock, announced, billed, payments>>
    BY <1>1, <1>5, <2>1 DEF SoftDeleteInvoice, Dropped
  <2>5. /\ i \in entangled \/ invoices[i] = settled[i]
        /\ \E v \in {row.owner} \cup Clerks : <<i, v, row.amount>> \in billed'
    BY <2>2, <2>3, <2>4 DEF InvoicesInv, InvoicesAreSound, IsBilled, SameInvoice
  <2>6. billed' \subseteq (DOMAIN invoices) \X Billers \X Amount /\ billed' = billed
    BY <2>4, InvoiceTable
  <2>7. InvoiceWritten(r, Idle, i, row, want)
    BY <2>2, <2>3, <2>4, <2>5, <2>6 DEF InvoiceWritten
  <2> QED BY <1>2, <2>4, <2>7, InvoiceTable DEF InvoiceStep, Finish, Become
<1>6. DeleteInvoice(r) =>
        UNCHANGED invoiceVars /\ (Finish(r) \/ (Goto(r, "drop") /\ p.pc = "delete"))
  BY <1>1 DEF DeleteInvoice, At
<1>7. SoftDeleteInvoice(r) /\ ~Invoice_FindByID(p.id) => Finish(r) /\ UNCHANGED invoiceVars
  BY <1>1 DEF SoftDeleteInvoice, invoiceVars
<1> QED BY <1>3, <1>4, <1>5, <1>6, <1>7

\* All steps but the clock's are of this form.
LEMMA InvoiceSteps ==
    ASSUME InvoicesInv, InvoicesNext, ~Tick
    PROVE  \E r \in Slots : \E q : InvoiceStep(r, q)
<1>1. ASSUME NEW r \in Slots, Abort(r), UNCHANGED invoiceVars PROVE InvoiceStep(r, Idle)
  <2>1. /\ req' = [req EXCEPT ![r] = Idle] /\ begun' = begun /\ faults' \in 0..MaxFaults
        /\ faults' = faults + 1
    BY <1>1, InvoiceTable DEF Abort, Stumble
  <2> QED BY <1>1, <2>1, InvoiceTable, IdleKnowsNoInvoice DEF InvoiceStep, InvoicesGoOn
<1> QED BY <1>1, HandlersBeginInvoices, CreatesInvoice, TellsOfInvoice, ReadsInvoice,
           SavesInvoice, DropsInvoice
    DEF InvoicesNext

\* What was sent stays so.
LEMMA StaysBilled ==
    ASSUME billed \subseteq billed', NEW i, NEW o, NEW a, IsBilled(i, o, a)
    PROVE  IsBilled(i, o, a)'
BY DEF IsBilled

\* A step of a request keeps the invariant: the rows, ...
LEMMA InvoicesAfter ==
    ASSUME InvoicesInv, NEW r \in Slots, NEW q, InvoiceStep(r, q)
    PROVE  /\ invoices' \in Seq(Invoice) /\ Len(invoices') <= MaxInvoices
           /\ settled' \in Seq(Invoice) /\ Len(settled') = Len(invoices')
           /\ payments' \in Seq(Nat) /\ Len(payments') = Len(invoices')
           /\ DOMAIN invoices \subseteq DOMAIN invoices'
           /\ entangled' \subseteq DOMAIN invoices' /\ entangled \subseteq entangled'
           /\ billed' \subseteq (DOMAIN invoices') \X Billers \X Amount /\ billed \subseteq billed'
           /\ \A i \in DOMAIN invoices : SameInvoice(invoices'[i], invoices[i])
           /\ InvoicesAreSound'
<1>0. /\ invoices \in Seq(Invoice) /\ settled \in Seq(Invoice) /\ payments \in Seq(Nat)
      /\ Len(settled) = Len(invoices) /\ Len(payments) = Len(invoices)
      /\ Len(invoices) \in Nat /\ Len(invoices) <= MaxInvoices /\ MaxInvoices \in Nat
      /\ DOMAIN invoices = 1..Len(invoices) /\ DOMAIN settled = DOMAIN invoices
      /\ DOMAIN payments = DOMAIN invoices
      /\ billed \subseteq (DOMAIN invoices) \X Billers \X Amount
      /\ entangled \subseteq DOMAIN invoices /\ InvoicesAreSound
      /\ \A i \in DOMAIN invoices : /\ invoices[i] \in Invoice /\ payments[i] \in Nat
                                    /\ SameInvoice(invoices[i], invoices[i])
  BY InvoiceTable DEF InvoicesInv, SameInvoice
<1>1. CASE InvoicesGoOn(r, q) \/ InvoiceTold(r, q)
  <2>1. UNCHANGED <<invoices, settled, payments, entangled, billed>>
    BY <1>1 DEF InvoicesGoOn, InvoiceTold, invoiceVars
  <2> QED BY <1>0, <2>1 DEF InvoicesAreSound, IsBilled, SameInvoice
<1>2. ASSUME NEW row, InvoiceAdded(q, row)
      PROVE  /\ invoices' \in Seq(Invoice) /\ Len(invoices') <= MaxInvoices
             /\ settled' \in Seq(Invoice) /\ Len(settled') = Len(invoices')
             /\ payments' \in Seq(Nat) /\ Len(payments') = Len(invoices')
             /\ DOMAIN invoices \subseteq DOMAIN invoices'
             /\ entangled' \subseteq DOMAIN invoices' /\ entangled \subseteq entangled'
             /\ billed' \subseteq (DOMAIN invoices') \X Billers \X Amount
             /\ billed \subseteq billed'
             /\ \A i \in DOMAIN invoices : SameInvoice(invoices'[i], invoices[i])
             /\ InvoicesAreSound'
  <2>1. PICK new : new = Len(invoices) + 1
    OBVIOUS
  <2>2. /\ invoices' \in Seq(Invoice) /\ Len(invoices') = new /\ new \in Nat
        /\ DOMAIN invoices' = DOMAIN invoices \cup {new}
        /\ new \notin DOMAIN invoices /\ invoices'[new] = row
        /\ \A i \in DOMAIN invoices : invoices'[i] = invoices[i]
    BY <1>0, <1>2, <2>1, LongerSequence DEF InvoiceAdded
  <2>3. /\ settled' \in Seq(Invoice) /\ Len(settled') = new /\ settled'[new] = row
        /\ \A i \in DOMAIN invoices : settled'[i] = settled[i]
    BY <1>0, <1>2, <2>1, LongerSequence DEF InvoiceAdded
  <2>4. payments' \in Seq(Nat) /\ Len(payments') = new
    BY <1>0, <1>2, <2>1, LongerSequence DEF InvoiceAdded
  <2>5. /\ billed' = billed \cup {<<new, row.owner, row.amount>>} /\ entangled' = entangled
        /\ row.owner \in Billers /\ row.amount \in Amount
        /\ \A i \in DOMAIN invoices : invoices[i].number # row.number
    BY <1>2, <2>1, InvoiceIsTyped DEF InvoiceAdded, NumberIsFree
  <2>6. \A i \in DOMAIN invoices' : \A o, a :
          /\ o = invoices'[i].owner /\ a = invoices'[i].amount => IsBilled(i, o, a)'
          /\ i \in entangled' \/ invoices'[i] = settled'[i]
    <3>1. \A o, a : IsBilled(new, o, a)' <=> \E v \in {o} \cup Clerks : <<new, v, a>> \in billed'
      BY DEF IsBilled
    <3>2. IsBilled(new, row.owner, row.amount)'
      BY <2>5, <3>1
    <3>3. \A i \in DOMAIN invoices : \A o, a :
            /\ o = invoices[i].owner /\ a = invoices[i].amount => IsBilled(i, o, a)'
            /\ i \in entangled \/ invoices[i] = settled[i]
      BY <1>0, <2>5, StaysBilled DEF InvoicesAreSound
    <3> QED BY <2>2, <2>3, <2>5, <3>2, <3>3
  <2>7. \A i, j \in DOMAIN invoices' : invoices'[i].number = invoices'[j].number => i = j
    BY <1>0, <2>2, <2>5 DEF InvoicesAreSound
  <2>8. InvoicesAreSound'
    BY <2>6, <2>7 DEF InvoicesAreSound
  <2>9. Len(invoices') <= MaxInvoices
    BY <1>0, <1>2, <2>1, <2>2 DEF InvoiceAdded
  <2>10. \A i \in DOMAIN invoices : SameInvoice(invoices'[i], invoices[i])
    BY <1>0, <2>2
  <2>11. /\ DOMAIN invoices \subseteq DOMAIN invoices' /\ billed \subseteq billed'
         /\ billed' \subseteq (DOMAIN invoices') \X Billers \X Amount
         /\ entangled' \subseteq DOMAIN invoices' /\ entangled \subseteq entangled'
    BY <1>0, <2>2, <2>5
  <2> QED BY <2>2, <2>3, <2>4, <2>8, <2>9, <2>10, <2>11
<1>3. ASSUME NEW i, NEW row, NEW want, InvoiceWritten(r, q, i, row, want)
      PROVE  /\ invoices' \in Seq(Invoice) /\ Len(invoices') <= MaxInvoices
             /\ settled' \in Seq(Invoice) /\ Len(settled') = Len(invoices')
             /\ payments' \in Seq(Nat) /\ Len(payments') = Len(invoices')
             /\ DOMAIN invoices \subseteq DOMAIN invoices'
             /\ entangled' \subseteq DOMAIN invoices' /\ entangled \subseteq entangled'
             /\ billed' \subseteq (DOMAIN invoices') \X Billers \X Amount
             /\ billed \subseteq billed'
             /\ \A k \in DOMAIN invoices : SameInvoice(invoices'[k], invoices[k])
             /\ InvoicesAreSound'
  <2>1. /\ invoices' \in Seq(Invoice) /\ Len(invoices') = Len(invoices)
        /\ DOMAIN invoices' = DOMAIN invoices /\ invoices'[i] = row
        /\ \A k \in DOMAIN invoices : k # i => invoices'[k] = invoices[k]
    BY <1>0, <1>3, RowOfASequence DEF InvoiceWritten, Invoice_Save, SameInvoice
  <2>2. /\ settled' \in Seq(Invoice) /\ Len(settled') = Len(settled) /\ settled'[i] = want
        /\ \A k \in DOMAIN invoices : k # i => settled'[k] = settled[k]
    BY <1>0, <1>3, RowOfASequence DEF InvoiceWritten
  <2>3. payments' \in Seq(Nat) /\ Len(payments') = Len(payments)
    <3>1. CASE payments' = payments
      BY <1>0, <3>1
    <3>2. CASE payments' = [payments EXCEPT ![i] = @ + 1]
      <4>1. i \in DOMAIN payments /\ payments[i] + 1 \in Nat
        BY <1>0, <1>3 DEF InvoiceWritten
      <4> QED BY <1>0, <3>2, <4>1, RowOfASequence
    <3> QED BY <1>3, <3>1, <3>2 DEF InvoiceWritten
  <2>4. entangled \subseteq entangled' /\ entangled' \subseteq entangled \cup {i}
        /\ i \in DOMAIN invoices /\ (i \in entangled \/ row = want)
    BY <1>3 DEF InvoiceWritten, Invoice_Save
  <2>5. /\ billed \subseteq billed' /\ billed' \subseteq (DOMAIN invoices) \X Billers \X Amount
        /\ \E v \in {row.owner} \cup Clerks : <<i, v, row.amount>> \in billed'
        /\ SameInvoice(row, invoices[i])
    BY <1>3 DEF InvoiceWritten
  <2>6. \A k \in DOMAIN invoices : SameInvoice(invoices'[k], invoices[k])
    BY <1>0, <2>1, <2>5
  <2>7. \A k \in DOMAIN invoices' : \A o, a :
          /\ o = invoices'[k].owner /\ a = invoices'[k].amount => IsBilled(k, o, a)'
          /\ k \in entangled' \/ invoices'[k] = settled'[k]
    <3>1. \A o, a : IsBilled(i, o, a)' <=> \E v \in {o} \cup Clerks : <<i, v, a>> \in billed'
      BY DEF IsBilled
    <3>2. IsBilled(i, row.owner, row.amount)'
      BY <2>5, <3>1
    <3>3. \A k \in DOMAIN invoices : \A o, a :
            /\ o = invoices[k].owner /\ a = invoices[k].amount => IsBilled(k, o, a)'
            /\ k \in entangled \/ invoices[k] = settled[k]
      BY <1>0, <2>5, StaysBilled DEF InvoicesAreSound
    <3> QED BY <2>1, <2>2, <2>4, <3>2, <3>3
  <2>8. \A k, j \in DOMAIN invoices' : invoices'[k].number = invoices'[j].number => k = j
    <3>1. \A k \in DOMAIN invoices : invoices'[k].number = invoices[k].number
      BY <2>6 DEF SameInvoice
    <3> QED BY <1>0, <2>1, <3>1 DEF InvoicesAreSound
  <2>9. InvoicesAreSound'
    BY <2>7, <2>8 DEF InvoicesAreSound
  <2> QED BY <1>0, <2>1, <2>2, <2>3, <2>4, <2>5, <2>6, <2>9
<1> QED BY <1>1, <1>2, <1>3 DEF InvoiceStep

\* ... what the requests know of them, ...
LEMMA InvoicesAreKnown ==
    ASSUME InvoicesInv, NEW r \in Slots, NEW q, InvoiceStep(r, q), NEW s \in Slots
    PROVE  req'[s] \in InvoiceRequest \cup {Idle} /\ KnowsItsInvoice(req[s])'
<1>1. /\ req \in [Slots -> InvoiceRequest \cup {Idle}] /\ KnowsItsInvoice(req[s])
      /\ invoices \in Seq(Invoice) /\ DOMAIN invoices = 1..Len(invoices)
  BY InvoiceTable DEF InvoicesInv
<1>2. /\ req'[s] \in InvoiceRequest \cup {Idle}
      /\ s = r => req'[s] = q
      /\ s # r => req'[s] = req[s]
  BY <1>1 DEF InvoiceStep
<1>3. PICK x : x = req'[s]
  OBVIOUS
<1>4. /\ DOMAIN invoices \subseteq DOMAIN invoices'
      /\ entangled \subseteq entangled' /\ billed \subseteq billed'
      /\ \A i \in DOMAIN invoices : SameInvoice(invoices'[i], invoices[i])
  BY InvoicesAfter
<1>5. ASSUME KnowsItsInvoice(x),
             x.pc \in {"save", "savestatus"} =>
                x.id \in entangled' \/ invoices'[x.id] = invoices[x.id]
      PROVE  KnowsItsInvoice(x)'
  <2>1. /\ x.pc \notin {"idle", "create"} => x.id \in DOMAIN invoices'
        /\ x.pc \in {"create", "status", "savestatus"} => x.status \in InvoiceStatus
    BY <1>4, <1>5 DEF KnowsItsInvoice
  <2>2. x.pc = "save" => x.user \in Clerks \cup {invoices'[x.id].owner}
    BY <1>4, <1>5 DEF KnowsItsInvoice, SameInvoice
  <2>3. ASSUME x.pc \in {"save", "savestatus"}
        PROVE  /\ x.copy # <<>> /\ x.copy[1].owner = invoices'[x.id].owner
               /\ x.copy[1].number = invoices'[x.id].number
               /\ IsBilled(x.id, x.copy[1].owner, x.copy[1].amount)'
               /\ x.id \in entangled' \/ x.copy[1] = invoices'[x.id]
    <3>1. /\ x.id \in DOMAIN invoices /\ x.copy # <<>> /\ x.copy[1].owner = invoices[x.id].owner
          /\ x.copy[1].number = invoices[x.id].number
          /\ IsBilled(x.id, x.copy[1].owner, x.copy[1].amount)
          /\ x.id \in entangled \/ x.copy[1] = invoices[x.id]
      BY <1>5, <2>3 DEF KnowsItsInvoice
    <3>2. IsBilled(x.id, x.copy[1].owner, x.copy[1].amount)'
      BY <1>4, <3>1, StaysBilled
    <3> QED BY <1>4, <1>5, <2>3, <3>1, <3>2 DEF SameInvoice
  <2> QED BY <2>1, <2>2, <2>3 DEF KnowsItsInvoice
<1>6. CASE s = r
  <2>1. CASE q = Idle
    <3>1. x.pc = "idle"
      BY <1>2, <1>3, <1>6, <2>1, IdleKnowsNoInvoice
    <3>2. KnowsItsInvoice(x)'
      BY <3>1 DEF KnowsItsInvoice
    <3> QED BY <1>2, <1>3, <3>2
  <2>2. CASE InvoicesGoOn(r, q)
    <3>1. KnowsItsInvoice(x) /\ invoices' = invoices
      BY <1>2, <1>3, <1>6, <2>2 DEF InvoicesGoOn, invoiceVars
    <3>2. KnowsItsInvoice(x)'
      BY <1>5, <3>1
    <3> QED BY <1>2, <1>3, <3>2
  <2>3. CASE \E row : InvoiceAdded(q, row)
    <3>1. x.pc = "created" /\ x.id \in DOMAIN invoices'
      BY <1>1, <1>2, <1>3, <1>6, <2>3, LongerSequence DEF InvoiceAdded
    <3>2. KnowsItsInvoice(x)'
      BY <3>1 DEF KnowsItsInvoice
    <3> QED BY <1>2, <1>3, <3>2
  <2>4. CASE q # Idle /\ \E i, row, want : InvoiceWritten(r, q, i, row, want)
    <3>1. x.pc = "paid" /\ x.id \in DOMAIN invoices'
      BY <1>2, <1>3, <1>4, <1>6, <2>4 DEF InvoiceWritten
    <3>2. KnowsItsInvoice(x)'
      BY <3>1 DEF KnowsItsInvoice
    <3> QED BY <1>2, <1>3, <3>2
  <2> QED BY <2>1, <2>2, <2>3, <2>4 DEF InvoiceStep, InvoiceTold
<1>7. CASE s # r
  <2>1. KnowsItsInvoice(x) /\ x = req[s]
    BY <1>1, <1>2, <1>3, <1>7
  <2>2. ASSUME x.pc \in {"save", "savestatus"}
        PROVE  x.id \in entangled' \/ invoices'[x.id] = invoices[x.id]
    <3>1. x.id \in DOMAIN invoices /\ x.copy # <<>>
      BY <2>1, <2>2 DEF KnowsItsInvoice
    <3>2. CASE UNCHANGED invoices
      BY <3>2
    <3>3. ASSUME NEW row, InvoiceAdded(q, row) PROVE invoices'[x.id] = invoices[x.id]
      BY <1>1, <3>1, <3>3, LongerSequence DEF InvoiceAdded
    <3>4. ASSUME NEW i, NEW row, NEW want, InvoiceWritten(r, q, i, row, want)
          PROVE  x.id \in entangled' \/ invoices'[x.id] = invoices[x.id]
      <4>1. CASE x.id = i
        <5>1. s \in Others(r) /\ ~At(s, "idle")
          BY <1>7, <2>1, <2>2 DEF Others, At
        <5> QED BY <2>1, <3>1, <3>4, <4>1, <5>1 DEF InvoiceWritten, Invoice_Save
      <4>2. CASE x.id # i
        BY <1>1, <3>1, <3>4, <4>2 DEF InvoiceWritten, Invoice_Save
      <4> QED BY <4>1, <4>2
    <3> QED BY <3>2, <3>3, <3>4 DEF InvoiceStep, InvoicesGoOn, InvoiceTold, invoiceVars
  <2>3. KnowsItsInvoice(x)'
    BY <1>5, <2>1, <2>2
  <2> QED BY <1>2, <1>3, <2>3
<1> QED BY <1>6, <1>7

\* ... the events published, ...
LEMMA InvoiceEventsAreTyped ==
    ASSUME InvoicesInv, NEW r \in Slots, NEW q, InvoiceStep(r, q)
    PROVE  /\ announced' \in Seq({"created", "paid"} \X (DOMAIN invoices') \X InvoiceStatus)
           /\ clock' = clock
<1>1. announced \in Seq({"created", "paid"} \X (DOMAIN invoices) \X InvoiceStatus)
  BY DEF InvoicesInv, InvoicesTypeOK
<1>2. announced \in Seq({"created", "paid"} \X (DOMAIN invoices') \X InvoiceStatus)
  <2>1. {"created", "paid"} \X (DOMAIN invoices) \X InvoiceStatus
            \subseteq {"created", "paid"} \X (DOMAIN invoices') \X InvoiceStatus
    BY InvoicesAfter
  <2> QED BY <1>1, <2>1, SeqMonotonic
<1>3. CASE announced' = announced /\ clock' = clock
  BY <1>2, <1>3
<1>4. CASE InvoiceTold(r, q)
  <2>1. PICK p \in InvoiceRequest : p = req[r] /\ KnowsItsInvoice(p) /\ p.pc \in {"created", "paid"}
    BY <1>4, InvoiceInSlot DEF InvoiceTold, OwesEvent, At
  <2>2. p.id \in DOMAIN invoices'
    BY <1>4, <2>1 DEF KnowsItsInvoice, InvoiceTold
  <2>3. PICK status \in InvoiceStatus : announced' = Append(announced, <<p.pc, p.id, status>>)
    BY <1>4, <2>1 DEF InvoiceTold, Publish
  <2>4. <<p.pc, p.id, status>> \in {"created", "paid"} \X (DOMAIN invoices') \X InvoiceStatus
    BY <2>1, <2>2
  <2> QED BY <1>2, <1>4, <2>3, <2>4, LongerSequence DEF InvoiceTold
<1> QED BY <1>3, <1>4 DEF InvoiceStep, InvoicesGoOn, InvoiceAdded, InvoiceWritten, invoiceVars

\* What the bus was told of invoice i and what it is to be told.
DueOf(type, i) == IF type = "created" THEN 1 ELSE payments[i]
IsOwed(type, i) ==
    Accounted(Cardinality(About(type, i)), DueOf(type, i), Announcing(type, i), faults)

\* So much of it was told.
LEMMA EventsOfInvoices ==
    ASSUME InvoicesInv
    PROVE  /\ DOMAIN announced = 1..Len(announced) /\ Len(announced) \in Nat
           /\ \A m \in DOMAIN announced : announced[m][2] \in DOMAIN invoices
           /\ \A type, i : IsFiniteSet(About(type, i)) /\ Cardinality(About(type, i)) \in Nat
<1>1. announced \in Seq({"created", "paid"} \X (DOMAIN invoices) \X InvoiceStatus)
  BY DEF InvoicesInv, InvoicesTypeOK
<1>2. DOMAIN announced = 1..Len(announced) /\ Len(announced) \in Nat
  BY <1>1
<1>3. \A m \in DOMAIN announced : announced[m][2] \in DOMAIN invoices
  <2>1. \A m \in DOMAIN announced :
            announced[m] \in {"created", "paid"} \X (DOMAIN invoices) \X InvoiceStatus
    BY <1>1, <1>2
  <2> QED BY <2>1
<1>4. IsFiniteSet(DOMAIN announced)
  BY <1>2, FS_Interval
<1>5. ASSUME NEW type, NEW i
      PROVE  IsFiniteSet(About(type, i)) /\ Cardinality(About(type, i)) \in Nat
  BY <1>4, FS_Subset, FS_CardinalityType DEF About
<1> QED BY <1>2, <1>3, <1>5

\* Who has to tell the bus after the request in slot r has become q.
LEMMA AnnouncingAfter ==
    ASSUME NEW r \in Slots, NEW q, DOMAIN req = Slots, req' = [req EXCEPT ![r] = q],
           NEW type \in {"created", "paid"}, NEW i
    PROVE  /\ q.pc = type /\ q.id = i => Announcing(type, i)' = Announcing(type, i) \cup {r}
           /\ q.pc # type \/ q.id # i => Announcing(type, i)' = Announcing(type, i) \ {r}
<1>1. /\ req'[r] = q /\ DOMAIN req' = Slots
      /\ \A s \in Slots : s # r => req'[s] = req[s]
  OBVIOUS
<1> QED BY <1>1 DEF Announcing, At

\* ... and what the bus is owed.
LEMMA AnnouncementsAfter ==
    ASSUME InvoicesInv, NEW r \in Slots, NEW q, InvoiceStep(r, q)
    PROVE  AnnouncementsAreOwed'
<1>0. /\ DOMAIN req = Slots /\ req' = [req EXCEPT ![r] = q]
      /\ faults \in Nat /\ faults' \in {faults, faults + 1}
      /\ DOMAIN payments = DOMAIN invoices
  BY InvoiceTable DEF InvoiceStep
<1>1. ASSUME NEW i \in DOMAIN invoices, NEW type \in {"created", "paid"}
      PROVE  /\ IsOwed(type, i) /\ DueOf(type, i) \in Nat
             /\ Cardinality(About(type, i)) \in Nat
  BY InvoiceTable, EventsOfInvoices DEF InvoicesInv, AnnouncementsAreOwed, IsOwed, DueOf
<1>2. SUFFICES ASSUME NEW i \in DOMAIN invoices', NEW type \in {"created", "paid"}
               PROVE  IsOwed(type, i)'
  BY DEF AnnouncementsAreOwed, IsOwed, DueOf
<1>3. ASSUME i \in DOMAIN invoices, About(type, i)' = About(type, i),
             DueOf(type, i)' = DueOf(type, i),
             faults' = faults + 1 \/ r \notin Announcing(type, i), q.pc # type \/ q.id # i
      PROVE  IsOwed(type, i)'
  <2>1. Announcing(type, i)' = Announcing(type, i) \ {r}
    BY <1>0, <1>3, AnnouncingAfter
  <2>2. PICK done, due, owing, f, g :
            /\ done = Cardinality(About(type, i)) /\ due = DueOf(type, i)
            /\ owing = Announcing(type, i) /\ f = faults /\ g = faults'
    OBVIOUS
  <2>3. Accounted(done, due, owing, f) /\ done \in Nat /\ due \in Nat
    BY <1>1, <1>3, <2>2 DEF IsOwed
  <2>4. f \in Nat /\ g \in {f, f + 1} /\ (r \notin owing \/ g = f + 1)
    BY <1>0, <1>3, <2>2
  <2>5. Accounted(done, due, owing \ {r}, g)
    BY <2>3, <2>4, AccountsOfEvents
  <2> QED BY <1>3, <2>1, <2>2, <2>5 DEF IsOwed
<1>4. CASE InvoicesGoOn(r, q)
  <2>1. invoices' = invoices /\ payments' = payments /\ announced' = announced
    BY <1>4 DEF InvoicesGoOn, invoiceVars
  <2>2. i \in DOMAIN invoices /\ About(type, i)' = About(type, i)
        /\ DueOf(type, i)' = DueOf(type, i)
    BY <2>1 DEF About, DueOf
  <2>3. faults' = faults + 1 \/ r \notin Announcing(type, i)
    BY <1>4 DEF InvoicesGoOn, OwesEvent, Announcing, At
  <2> QED BY <1>3, <1>4, <2>2, <2>3 DEF InvoicesGoOn
<1>5. ASSUME ~OwesEvent(r), NEW row, InvoiceAdded(q, row) PROVE IsOwed(type, i)'
  <2>1. PICK new : new = Len(invoices) + 1
    OBVIOUS
  <2>2. /\ DOMAIN invoices' = DOMAIN invoices \cup {new} /\ new \notin DOMAIN invoices
        /\ payments'[new] = 0 /\ \A k \in DOMAIN invoices : payments'[k] = payments[k]
    <3>1. row \in Invoice /\ 0 \in Nat /\ payments' = Append(payments, 0)
          /\ invoices' = Append(invoices, row)
      BY <1>5 DEF InvoiceAdded
    <3>2. DOMAIN invoices' = DOMAIN invoices \cup {new} /\ new \notin DOMAIN invoices
      BY <2>1, <3>1, InvoiceTable, LongerSequence
    <3>3. payments'[new] = 0 /\ \A k \in DOMAIN invoices : payments'[k] = payments[k]
      BY <2>1, <3>1, InvoiceTable, LongerSequence
    <3> QED BY <3>2, <3>3
  <2>3. /\ q.pc = "created" /\ q.id = new /\ r \notin Announcing(type, i)
        /\ About(type, i)' = About(type, i)
    BY <1>5, <2>1 DEF InvoiceAdded, OwesEvent, Announcing, About
  <2>4. CASE i # new
    <3>1. i \in DOMAIN invoices /\ DueOf(type, i)' = DueOf(type, i)
      BY <2>2, <2>4 DEF DueOf
    <3> QED BY <1>3, <2>3, <2>4, <3>1
  <2>5. CASE i = new
    <3>1. About(type, i) = {}
      BY <2>2, <2>5, EventsOfInvoices DEF About
    <3>2. Announcing(type, i) = {}
      <4>1. \A s \in Slots : At(s, type) => req[s].id \in DOMAIN invoices
        BY DEF InvoicesInv, KnowsItsInvoice, At
      <4> QED BY <2>2, <2>5, <4>1 DEF Announcing
    <3>3. CASE type = "created"
      <4>0. Announcing(type, i)' = Announcing(type, i) \cup {r}
        BY <1>0, <2>3, <2>5, <3>3, AnnouncingAfter
      <4>1. Announcing(type, i)' = {r} /\ DueOf(type, i)' = 1
        BY <3>2, <3>3, <4>0 DEF DueOf
      <4>2. Accounted(0, 1, {r}, faults')
        <5>1. IsFiniteSet({r}) /\ Cardinality({r}) = 1
          BY FS_Singleton
        <5> QED BY <1>0, <5>1 DEF Accounted
      <4>3. Cardinality(About(type, i)') = 0
        BY <2>3, <3>1, FS_EmptySet
      <4> QED BY <4>1, <4>2, <4>3 DEF IsOwed
    <3>4. CASE type = "paid"
      <4>0. Announcing(type, i)' = Announcing(type, i) \ {r}
        BY <1>0, <2>3, <3>4, AnnouncingAfter
      <4>1. Announcing(type, i)' = {} /\ DueOf(type, i)' = 0
        BY <2>2, <2>5, <3>2, <3>4, <4>0 DEF DueOf
      <4>2. Accounted(0, 0, {}, faults')
        <5>1. IsFiniteSet({}) /\ Cardinality({}) = 0
          BY FS_EmptySet
        <5> QED BY <1>0, <5>1 DEF Accounted
      <4>3. Cardinality(About(type, i)') = 0
        BY <2>3, <3>1, FS_EmptySet
      <4> QED BY <4>1, <4>2, <4>3 DEF IsOwed
    <3> QED BY <3>3, <3>4
  <2> QED BY <2>4, <2>5
<1>6. ASSUME ~OwesEvent(r), NEW k, NEW row, NEW want, InvoiceWritten(r, q, k, row, want)
      PROVE  IsOwed(type, i)'
  <2>1. DOMAIN invoices' = DOMAIN invoices /\ k \in DOMAIN invoices
    BY <1>6, InvoiceTable, RowOfASequence DEF InvoiceWritten, Invoice_Save, SameInvoice
  <2>2. r \notin Announcing(type, i) /\ About(type, i)' = About(type, i)
    BY <1>6 DEF InvoiceWritten, OwesEvent, Announcing, About
  <2>3. CASE q = Idle /\ payments' = payments
    <3>1. DueOf(type, i)' = DueOf(type, i) /\ q.pc # type
      BY <2>3 DEF DueOf, Idle
    <3> QED BY <1>3, <2>1, <2>2, <3>1
  <2>4. ASSUME q.pc = "paid", q.id = k, payments' = [payments EXCEPT ![k] = @ + 1]
        PROVE  IsOwed(type, i)'
    <3>1. CASE type = "created" \/ i # k
      <4>1. DueOf(type, i)' = DueOf(type, i) /\ (q.pc # type \/ q.id # i)
        BY <1>0, <2>1, <2>4, <3>1 DEF DueOf
      <4> QED BY <1>3, <2>1, <2>2, <4>1
    <3>2. CASE type = "paid" /\ i = k
      <4>1. Announcing(type, i)' = Announcing(type, i) \cup {r}
        BY <1>0, <2>4, <3>2, AnnouncingAfter
      <4>2. DueOf(type, i)' = DueOf(type, i) + 1
        BY <1>0, <2>1, <2>4, <3>2 DEF DueOf
      <4>3. PICK done, due, owing, f, g :
                /\ done = Cardinality(About(type, i)) /\ due = DueOf(type, i)
                /\ owing = Announcing(type, i) /\ f = faults /\ g = faults'
        OBVIOUS
      <4>4. /\ Accounted(done, due, owing, f) /\ done \in Nat /\ due \in Nat
            /\ f \in Nat /\ g \in {f, f + 1} /\ r \notin owing
        BY <1>0, <1>1, <2>1, <2>2, <4>3 DEF IsOwed
      <4>5. Accounted(done, due + 1, owing \cup {r}, g)
        BY <4>4, AccountsOfEvents
      <4> QED BY <2>2, <4>1, <4>2, <4>3, <4>5 DEF IsOwed
    <3> QED BY <3>1, <3>2
  <2> QED BY <1>6, <2>3, <2>4 DEF InvoiceWritten
<1>7. CASE InvoiceTold(r, q)
  <2>1. PICK p \in InvoiceRequest : p = req[r] /\ KnowsItsInvoice(p) /\ p.pc \in {"created", "paid"}
    BY <1>7, InvoiceInSlot DEF InvoiceTold, OwesEvent, At
  <2>2. PICK status : announced' = Append(announced, <<p.pc, p.id, status>>)
    BY <1>7, <2>1 DEF InvoiceTold, Publish
  <2>3. PICK new : new = Len(announced) + 1
    OBVIOUS
  <2>4. /\ DOMAIN announced' = DOMAIN announced \cup {new} /\ new \notin DOMAIN announced
        /\ announced'[new] = <<p.pc, p.id, status>>
        /\ \A m \in DOMAIN announced : announced'[m] = announced[m]
    <3>1. PICK s : s = announced
      OBVIOUS
    <3>2. s \in Seq(UNION {{"created", "paid"} \X (DOMAIN invoices) \X InvoiceStatus,
                           {<<p.pc, p.id, status>>}})
      <4>1. s \in Seq({"created", "paid"} \X (DOMAIN invoices) \X InvoiceStatus)
        BY <3>1 DEF InvoicesInv, InvoicesTypeOK
      <4> QED BY <4>1, SeqMonotonic
    <3>3. <<p.pc, p.id, status>> \in
              UNION {{"created", "paid"} \X (DOMAIN invoices) \X InvoiceStatus,
                     {<<p.pc, p.id, status>>}}
      OBVIOUS
    <3> QED BY <2>2, <2>3, <3>1, <3>2, <3>3, LongerSequence
  <2>5. DueOf(type, i)' = DueOf(type, i) /\ i \in DOMAIN invoices /\ q.pc # type
    BY <1>7 DEF InvoiceTold, DueOf, Idle
  <2>6. CASE type = p.pc /\ i = p.id
    <3>1. About(type, i)' = About(type, i) \cup {new} /\ new \notin About(type, i)
      BY <2>4, <2>6 DEF About
    <3>2. Cardinality(About(type, i)') = Cardinality(About(type, i)) + 1
      BY <3>1, EventsOfInvoices, FS_AddElement
    <3>3. r \in Announcing(type, i)
      BY <2>1, <2>6 DEF Announcing, At
    <3>4. Announcing(type, i)' = Announcing(type, i) \ {r}
      BY <1>0, <2>5, AnnouncingAfter
    <3>5. PICK done, due, owing, f, g :
              /\ done = Cardinality(About(type, i)) /\ due = DueOf(type, i)
              /\ owing = Announcing(type, i) /\ f = faults /\ g = faults'
      OBVIOUS
    <3>6. /\ Accounted(done, due, owing, f) /\ done \in Nat /\ due \in Nat
          /\ f \in Nat /\ g \in {f, f + 1} /\ r \in owing
      BY <1>0, <1>1, <2>5, <3>3, <3>5 DEF IsOwed
    <3>7. Accounted(done + 1, due, owing \ {r}, g)
      BY <3>6, AccountsOfEvents
    <3> QED BY <2>5, <3>2, <3>4, <3>5, <3>7 DEF IsOwed
  <2>7. CASE type # p.pc \/ i # p.id
    <3>1. About(type, i)' = About(type, i)
      BY <2>4, <2>7 DEF About
    <3>2. r \notin Announcing(type, i)
      BY <2>1, <2>7 DEF Announcing, At
    <3> QED BY <1>3, <2>5, <3>1, <3>2
  <2> QED BY <2>6, <2>7
<1> QED BY <1>4, <1>5, <1>6, <1>7 DEF InvoiceStep

\* Every step keeps the invariant.
LEMMA InvoiceInvSteps ==
    InvoicesInv /\ [InvoicesNext]_<<invoiceVars, requestVars>> => InvoicesInv'
<1>1. ASSUME InvoicesInv, InvoicesNext, ~Tick PROVE InvoicesInv'
  <2>1. PICK r, q : r \in Slots /\ InvoiceStep(r, q)
    BY <1>1, InvoiceSteps
  <2>2. /\ invoices' \in Seq(Invoice) /\ Len(invoices') <= MaxInvoices
        /\ settled' \in Seq(Invoice) /\ Len(settled') = Len(invoices')
        /\ payments' \in Seq(Nat) /\ Len(payments') = Len(invoices')
        /\ entangled' \subseteq DOMAIN invoices'
        /\ billed' \subseteq (DOMAIN invoices') \X Billers \X Amount /\ InvoicesAreSound'
    BY <1>1, <2>1, InvoicesAfter
  <2>3. /\ announced' \in Seq({"created", "paid"} \X (DOMAIN invoices') \X InvoiceStatus)
        /\ clock' \in 1..MaxClock /\ AnnouncementsAreOwed'
    BY <1>1, <2>1, InvoiceEventsAreTyped, AnnouncementsAfter, InvoiceTable
  <2>4. \A s \in Slots : req'[s] \in InvoiceRequest \cup {Idle} /\ KnowsItsInvoice(req[s])'
    BY <1>1, <2>1, InvoicesAreKnown
  <2>5. req' \in [Slots -> InvoiceRequest \cup {Idle}]
    <3>1. req \in [Slots -> InvoiceRequest \cup {Idle}]
      BY <1>1, InvoiceTable
    <3> QED BY <2>1, <3>1 DEF InvoiceStep
  <2>6. InvoicesTypeOK'
    BY <2>1, <2>2, <2>3, <2>5 DEF InvoicesTypeOK, RequestsAre, InvoiceStep
  <2> QED BY <2>2, <2>3, <2>4, <2>6 DEF InvoicesInv
<1>2. ASSUME InvoicesInv,
             UNCHANGED <<invoices, announced, settled, entangled, billed, payments, requestVars>>,
             clock' \in 1..MaxClock
      PROVE  InvoicesInv'
  <2>1. InvoicesTypeOK'
    BY <1>2 DEF InvoicesInv, InvoicesTypeOK, RequestsAre, requestVars
  <2>2. InvoicesAreSound'
    BY <1>2 DEF InvoicesInv, InvoicesAreSound, IsBilled
  <2>3. AnnouncementsAreOwed'
    BY <1>2 DEF InvoicesInv, AnnouncementsAreOwed, About, Announcing, At, requestVars
  <2>4. \A r \in Slots : KnowsItsInvoice(req[r])'
    BY <1>2 DEF InvoicesInv, KnowsItsInvoice, IsBilled, requestVars
  <2> QED BY <2>1, <2>2, <2>3, <2>4 DEF InvoicesInv
<1>3. ASSUME InvoicesInv, Tick PROVE InvoicesInv'
  <2>1. clock' \in 1..MaxClock
    BY <1>3, InvoiceTable, InvoicesAssumption DEF Tick
  <2> QED BY <1>2, <1>3, <2>1 DEF Tick
<1>4. ASSUME InvoicesInv, UNCHANGED <<invoiceVars, requestVars>> PROVE InvoicesInv'
  BY <1>2, <1>4, InvoiceTable DEF invoiceVars
<1> QED BY <1>1, <1>3, <1>4

\* The table is empty at first.
LEMMA InvoicesStart == InvoicesInit /\ RequestsInit => InvoicesInv
<1> SUFFICES ASSUME InvoicesInit, RequestsInit PROVE InvoicesInv
  OBVIOUS
<1>1. DOMAIN invoices = {} /\ invoices = <<>> /\ Len(<<>>) = 0 /\ \A S : <<>> \in Seq(S)
  BY DEF InvoicesInit
<1>2. InvoicesTypeOK
  BY <1>1, RequestBoundsAssumption, InvoicesAssumption
  DEF InvoicesInit, RequestsInit, InvoicesTypeOK, RequestsAre
<1>3. \A r \in Slots : KnowsItsInvoice(req[r])
  BY IdleKnowsNoInvoice DEF RequestsInit
<1> QED BY <1>1, <1>2, <1>3 DEF InvoicesInv, InvoicesAreSound, AnnouncementsAreOwed

\* What users and the bus are shown follows from the rows.
LEMMA InvoicesAreShown == InvoicesInv => InvoicesHold
<1> SUFFICES ASSUME InvoicesInv PROVE InvoicesHold
  OBVIOUS
<1>1. AmountsAreTheOwners
  BY DEF InvoicesInv, InvoicesAreSound, AmountsAreTheOwners, ListInvoices, GetInvoice, IsOwnedBy,
         Invoice_FindAll, Invoice_FindByUserID, Invoice_FindByID
<1>2. InvoicesStand
  BY DEF InvoicesInv, InvoicesAreSound, InvoicesStand
<1>3. ASSUME NEW i \in DOMAIN invoices
      PROVE  /\ Cardinality(About("created", i)) <= 1
             /\ Quiet /\ faults = 0 => /\ About("created", i) # {}
                                       /\ Cardinality(About("paid", i)) = payments[i]
  <2>1. /\ Accounted(Cardinality(About("created", i)), 1, Announcing("created", i), faults)
        /\ Accounted(Cardinality(About("paid", i)), payments[i], Announcing("paid", i), faults)
    BY DEF InvoicesInv, AnnouncementsAreOwed
  <2>2. /\ Cardinality(About("created", i)) \in Nat /\ Cardinality(About("paid", i)) \in Nat
        /\ payments[i] \in Nat
    BY EventsOfInvoices, InvoiceTable
  <2>3. \A label \in {"created", "paid"} :
            /\ Cardinality(Announcing(label, i)) \in Nat
            /\ Quiet => Cardinality(Announcing(label, i)) = 0
    <3>1. ASSUME NEW label \in {"created", "paid"}, Quiet PROVE Announcing(label, i) = {}
      BY <3>1, IdleKnowsNoInvoice DEF Quiet, Announcing, At
    <3>2. IsFiniteSet(Announcing("created", i)) /\ IsFiniteSet(Announcing("paid", i))
      BY <2>1 DEF Accounted
    <3> QED BY <3>1, <3>2, FS_EmptySet, FS_CardinalityType
  <2>4. Cardinality(About("created", i)) <= 1
    BY <2>1, <2>2, <2>3 DEF Accounted
  <2>5. ASSUME Quiet, faults = 0
        PROVE  /\ Cardinality(About("created", i)) = 1
               /\ Cardinality(About("paid", i)) = payments[i]
    BY <2>1, <2>2, <2>3, <2>5 DEF Accounted
  <2>6. About("created", i) = {} => Cardinality(About("created", i)) = 0
    BY FS_EmptySet
  <2> QED BY <2>4, <2>5, <2>6
<1>4. InvoicesAreAnnounced
  BY <1>3 DEF InvoicesAreAnnounced
<1> QED BY <1>1, <1>2, <1>4 DEF InvoicesHold

\* InvoicesHold: an amount was sent by the owner or a clerk, a number is given once, a change that
\* was acknowledged stands unless requests overlapped, and the bus hears once of an invoice and
\* of each payment: internal/module/invoice, for any users, invoices, requests and failures.
THEOREM InvoicesAlwaysHold == InvoicesSpec => []InvoicesHold
BY InvoicesStart, InvoiceInvSteps, InvoicesAreShown, PTL DEF InvoicesSpec

-----------------------------------------------------------------------------
(* Tags *)

\* Row x is row y with another counter, ...
SameTag(x, y) == x \in Tag /\ x.name = y.name /\ x.slug = y.slug /\ x.deleted = y.deleted

\* ... and request x is request y at another statement.
SameTagging(x, y) == x \in TagRequest /\ x.id = y.id /\ x.entity = y.entity /\ x.name = y.name

\* The fields of a row, and what is set of them.
LEMMA TagIsTyped ==
    ASSUME NEW row \in Tag
    PROVE  /\ row.name \in Names /\ row.slug \in 1..Candidates /\ row.usage \in Nat
           /\ row.deleted \in BOOLEAN
           /\ \A n \in Nat : /\ SameTag([row EXCEPT !.usage = n], row)
                             /\ [row EXCEPT !.usage = n].usage = n
           /\ [row EXCEPT !.deleted = TRUE] \in Tag /\ [row EXCEPT !.deleted = TRUE].deleted
           /\ \A n \in Names : \A s \in 1..Candidates : [row EXCEPT !.name = n, !.slug = s] \in Tag
           /\ \A s \in 1..Candidates : [row EXCEPT !.slug = s] \in Tag
BY DEF Tag, SameTag

\* What a request is made of.
LEMMA TagRequestIsTyped ==
    /\ Idle \notin TagRequest /\ Idle.pc = "idle"
    /\ \A q \in TagRequest :
        /\ q.id \in 0..MaxTags /\ q.entity \in Tagged \cup {"none"}
        /\ q.name \in Names \cup {"none"}
        /\ q.slug \in 1..Candidates /\ q.link \in Id /\ q.copy \in Seq(Tag)
BY DEF Idle, TagRequest

\* What it becomes: at another statement, ...
LEMMA TagGotoIsTyped ==
    ASSUME NEW q \in TagRequest, NEW x,
           NEW label \in {"slug", "inserttag", "savetag", "softuntag", "lookup", "link", "count",
                          "discount"},
           x = [q EXCEPT !.pc = label]
    PROVE  SameTagging(x, q) /\ x.pc = label /\ x.copy = q.copy /\ x.link = q.link
BY DEF TagRequest, SameTagging

\* ... with another slug, ...
LEMMA TagSlugIsTyped ==
    ASSUME NEW q \in TagRequest, NEW s \in 1..Candidates, NEW x, x = [q EXCEPT !.slug = s]
    PROVE  SameTagging(x, q) /\ x.pc = q.pc /\ x.copy = q.copy
BY DEF TagRequest, SameTagging

\* ... and with a copy of a tag.
LEMMA TagReadIsTyped ==
    ASSUME NEW q \in TagRequest, NEW label \in {"savetag", "newname", "newslug"},
           NEW row \in Tag, NEW x,
           x = [q EXCEPT !.pc = label, !.copy = <<row>>]
    PROVE  SameTagging(x, q) /\ x.pc = label /\ x.copy # <<>>
<1>1. <<row>> \in Seq(Tag) /\ <<row>> # <<>>
  OBVIOUS
<1> QED BY <1>1 DEF TagRequest, SameTagging

\* A handler begins with such a request.
LEMMA TagCallIsTyped ==
    ASSUME begun + 1 \in Id, 1 \in 1..Candidates,
           NEW label \in {"name", "rename", "untag", "attach", "detach"}, NEW t \in 0..MaxTags,
           NEW e \in Tagged \cup {"none"}, NEW n \in Names \cup {"none"}
    PROVE  LET x == TagCall(label, t, e, n)
           IN  /\ x \in TagRequest /\ x.pc = label /\ x.id = t /\ x.entity = e /\ x.name = n
               /\ x.link = begun + 1
<1>1. <<>> \in Seq(Tag)
  OBVIOUS
<1> QED BY <1>1 DEF TagRequest, TagCall

\* The request in slot r counts, or discounts, a use.
Counting(r) == At(r, "count") \/ At(r, "discount")

\* Request r becomes q and changes nothing, ...
TagsGoOn(r, q) ==
    /\ q.pc \notin {"count", "discount"} /\ UNCHANGED tagVars
    /\ Counting(r) => faults' = faults + 1

\* ... or it ends with a new row, ...
TagAdded(row) ==
    /\ row \in Tag /\ row.usage = 0 /\ ~row.deleted /\ Fits(0, row) /\ Len(tags) < MaxTags
    /\ tags' = Append(tags, row) /\ links' = links /\ raced' = raced

\* ... or with one it has written, ...
TagWritten(t, row) ==
    /\ t \in DOMAIN tags /\ row \in Tag /\ (row.deleted \/ Fits(t, row))
    /\ tags' = [tags EXCEPT ![t] = row] /\ links' = links
    /\ raced \subseteq raced' /\ raced' \subseteq raced \cup {t}
    /\ \/ row.deleted \/ t \in raced'
       \/ tags[t].usage = row.usage /\ ~tags[t].deleted

\* ... or it has tagged entity e with t and is to count that, ...
TagLinked(q, e, t) ==
    /\ q.pc = "count" /\ q.id = t /\ e \in Tagged /\ t \in DOMAIN tags
    /\ links[<<e, t>>] = 0
    /\ \E n \in Id \ {0} : links' = [links EXCEPT ![<<e, t>>] = n]
    /\ tags' = tags /\ raced' = raced /\ faults' = faults

\* ... or has taken the tag away and is to discount that, ...
TagUnlinked(q, e, t) ==
    /\ q.pc = "discount" /\ q.id = t /\ e \in Tagged /\ t \in DOMAIN tags
    /\ \/ links[<<e, t>>] # 0 /\ links' = [links EXCEPT ![<<e, t>>] = 0] /\ raced' = raced
       \/ links' = links /\ raced' = raced \cup {t}
    /\ tags' = tags /\ faults' = faults

\* ... or it ends as it counts a use or discounts one.
TagCounted(r, t) ==
    /\ At(r, "count") /\ req[r].id = t /\ IncrementUsageCount(t)
    /\ links' = links /\ raced' = raced /\ faults' = faults

TagDiscounted(r, t) ==
    /\ At(r, "discount") /\ req[r].id = t /\ DecrementUsageCount(t) /\ Overtaken(t)
    /\ links' = links /\ faults' = faults

TagStep(r, q) ==
    /\ q \in TagRequest \cup {Idle} /\ KnowsItsTag(q) /\ req' = [req EXCEPT ![r] = q]
    /\ begun' \in 0..MaxRequests /\ faults' \in 0..MaxFaults /\ faults' \in {faults, faults + 1}
    /\ \/ TagsGoOn(r, q)
       \/ q = Idle /\ ~Counting(r) /\ \E row : TagAdded(row)
       \/ q = Idle /\ ~Counting(r) /\ \E t, row : TagWritten(t, row)
       \/ ~Counting(r) /\ \E e, t : TagLinked(q, e, t) \/ TagUnlinked(q, e, t)
       \/ q = Idle /\ \E t : TagCounted(r, t) \/ TagDiscounted(r, t)

\* What the invariant says of the table, ...
LEMMA TagTable ==
    ASSUME TagsInv
    PROVE  /\ begun \in 0..MaxRequests /\ faults \in 0..MaxFaults
           /\ MaxRequests \in Nat /\ MaxFaults \in Nat /\ MaxTags \in Nat
           /\ Candidates \in Nat /\ 1 \in 1..Candidates
           /\ req \in [Slots -> TagRequest \cup {Idle}] /\ DOMAIN req = Slots
           /\ tags \in Seq(Tag) /\ Len(tags) \in Nat /\ Len(tags) <= MaxTags
           /\ DOMAIN tags = 1..Len(tags) /\ DOMAIN tags \subseteq TagIds
           /\ \A t \in DOMAIN tags : tags[t] \in Tag
           /\ links \in [Tagged \X TagIds -> Id] /\ raced \subseteq TagIds
<1>1. /\ begun \in 0..MaxRequests /\ faults \in 0..MaxFaults
      /\ MaxRequests \in Nat /\ MaxFaults \in Nat /\ MaxTags \in Nat
      /\ Candidates \in Nat /\ 1 \in 1..Candidates
      /\ req \in [Slots -> TagRequest \cup {Idle}]
      /\ tags \in Seq(Tag) /\ Len(tags) <= MaxTags
      /\ links \in [Tagged \X TagIds -> Id] /\ raced \subseteq TagIds
  BY RequestBoundsAssumption, MaxTagsAssumption, CandidatesAssumption
  DEF TagsInv, TagsTypeOK, RequestsAre
<1>2. Len(tags) \in Nat /\ DOMAIN tags = 1..Len(tags)
  BY <1>1
<1>3. DOMAIN tags \subseteq TagIds
  BY <1>1, <1>2 DEF TagIds
<1>4. \A t \in DOMAIN tags : tags[t] \in Tag
  BY <1>1, <1>2
<1> QED BY <1>1, <1>2, <1>3, <1>4

\* ... and of the request in a slot.
LEMMA TagInSlot ==
    ASSUME TagsInv, NEW r \in Slots, ~At(r, "idle")
    PROVE  \E q \in TagRequest : q = req[r] /\ KnowsItsTag(q)
<1>1. req[r] \in TagRequest \cup {Idle} /\ KnowsItsTag(req[r])
  BY DEF TagsInv, TagsTypeOK, RequestsAre
<1> QED BY <1>1 DEF At, Idle

\* A request that ends knows nothing, ...
LEMMA IdleKnowsNoTag == KnowsItsTag(Idle) /\ Idle.pc = "idle"
BY DEF KnowsItsTag, Idle

\* ... one that goes on knows as much as before, ...
LEMMA TagGoesOn ==
    ASSUME TagsInv, NEW r \in Slots, ~Counting(r), NEW q \in TagRequest \cup {Idle}, Become(r, q),
           q.pc \notin {"count", "discount"}, KnowsItsTag(q), UNCHANGED tagVars
    PROVE  \E x : TagStep(r, x)
BY TagTable DEF TagStep, TagsGoOn, Become

\* ... and so does one that fails.
LEMMA TagEnds ==
    ASSUME TagsInv, NEW r \in Slots, UNCHANGED tagVars,
           (Finish(r) /\ ~Counting(r)) \/ Stumble(r, Idle)
    PROVE  \E q : TagStep(r, q)
<1>1. CASE Finish(r) /\ ~Counting(r)
  BY <1>1, TagGoesOn, IdleKnowsNoTag DEF Finish
<1>2. CASE Stumble(r, Idle)
  <2>1. /\ req' = [req EXCEPT ![r] = Idle] /\ begun' \in 0..MaxRequests
        /\ faults' = faults + 1 /\ faults' \in 0..MaxFaults
    BY <1>2, TagTable DEF Stumble
  <2>2. TagsGoOn(r, Idle)
    BY <2>1, IdleKnowsNoTag DEF TagsGoOn
  <2> QED BY <2>1, <2>2, IdleKnowsNoTag DEF TagStep
<1> QED BY <1>1, <1>2

\* The handlers.
LEMMA HandlersBeginTags ==
    ASSUME TagsInv, NEW r \in Slots, TagHandlers(r)
    PROVE  \E q : TagStep(r, q)
<1>1. ASSUME NEW label \in {"name", "rename", "untag", "attach", "detach"}, NEW t \in 0..MaxTags,
             NEW e \in Tagged \cup {"none"}, NEW n \in Names \cup {"none"},
             label \in {"name", "rename"} => n \in Names,
             label \in {"attach", "detach"} => e \in Tagged,
             label = "name" \/ t \in DOMAIN tags,
             Begin(r, TagCall(label, t, e, n)), UNCHANGED tagVars
      PROVE  \E x : TagStep(r, x)
  <2>1. PICK q : q = TagCall(label, t, e, n)
    OBVIOUS
  <2>2. /\ begun + 1 \in Id /\ begun' \in 0..MaxRequests /\ faults' = faults
        /\ req' = [req EXCEPT ![r] = q] /\ ~Counting(r)
        /\ 1 \in 1..Candidates /\ begun + 1 # 0
    BY <1>1, <2>1, TagTable DEF Begin, Id, Counting, At
  <2>3. /\ q \in TagRequest /\ q.pc = label /\ q.id = t /\ q.entity = e /\ q.name = n
        /\ q.link = begun + 1
    BY <2>1, <2>2, TagCallIsTyped
  <2>4. KnowsItsTag(q)
    BY <1>1, <2>2, <2>3 DEF KnowsItsTag
  <2>5. TagsGoOn(r, q)
    BY <1>1, <2>2, <2>3 DEF TagsGoOn
  <2> QED BY <2>2, <2>3, <2>4, <2>5, TagTable DEF TagStep
<1>2. DOMAIN tags \subseteq 0..MaxTags /\ 0 \in 0..MaxTags
  BY TagTable DEF TagIds
<1>3. ASSUME NEW n \in Names, HandleCreateTag(r, n) PROVE \E x : TagStep(r, x)
  BY <1>1, <1>2, <1>3 DEF HandleCreateTag
<1>4. ASSUME NEW t \in DOMAIN tags, HandleDeleteTag(r, t) PROVE \E x : TagStep(r, x)
  BY <1>1, <1>2, <1>4 DEF HandleDeleteTag
<1>5. ASSUME NEW t \in DOMAIN tags, NEW n \in Names, HandleUpdateTag(r, t, n)
      PROVE  \E x : TagStep(r, x)
  BY <1>1, <1>2, <1>5 DEF HandleUpdateTag
<1>6. ASSUME NEW t \in DOMAIN tags, NEW e \in Tagged,
             HandleAttachTags(r, e, t) \/ HandleDetachTags(r, e, t)
      PROVE  \E x : TagStep(r, x)
  BY <1>1, <1>2, <1>6 DEF HandleAttachTags, HandleDetachTags
<1> QED BY <1>3, <1>4, <1>5, <1>6 DEF TagHandlers

\* A request goes to another statement that needs no more than it knows.
LEMMA TagGoesTo ==
    ASSUME TagsInv, NEW r \in Slots, NEW p \in TagRequest, p = req[r], KnowsItsTag(p),
           UNCHANGED tagVars, p.pc \notin {"idle", "count", "discount"},
           NEW q, SameTagging(q, p), Become(r, q),
           \/ /\ q.pc \in {"slug", "inserttag"} /\ p.pc \in {"name", "slug"}
           \/ /\ q.pc \in {"newname", "newslug", "savetag"}
              /\ p.pc \in {"rename", "newname", "newslug"} /\ q.copy # <<>>
           \/ q.pc = "softuntag" /\ p.pc = "untag"
           \/ q.pc = "lookup" /\ p.pc = "attach" /\ q.link # 0
           \/ q.pc = "link" /\ p.pc = "lookup" /\ q.link # 0
           \/ q.pc = "unlink" /\ p.pc = "detach" /\ q.link # 0
    PROVE  \E x : TagStep(r, x)
<1>1. ~Counting(r) /\ q \in TagRequest /\ q.pc \notin {"count", "discount"}
  BY DEF Counting, At, SameTagging
<1>2. KnowsItsTag(q)
  BY DEF KnowsItsTag, SameTagging
<1> QED BY <1>1, <1>2, TagGoesOn

\* A tag is created: a name and a slug are looked up ...
LEMMA LooksNameUp ==
    ASSUME TagsInv, NEW r \in Slots, CreateTag(r) \/ CreateTagSlug(r)
    PROVE  \E q : TagStep(r, q)
<1>1. PICK p \in TagRequest : p = req[r] /\ KnowsItsTag(p) /\ p.pc \in {"name", "slug"}
  BY TagInSlot DEF CreateTag, CreateTagSlug, At
<1>2. UNCHANGED tagVars /\ ~Counting(r)
  BY <1>1 DEF CreateTag, CreateTagSlug, Counting, At
<1>3. CASE Finish(r)
  BY <1>2, <1>3, TagEnds
<1>4. ASSUME NEW label \in {"slug", "inserttag"}, Goto(r, label) PROVE \E q : TagStep(r, q)
  <2>1. PICK q : q = [p EXCEPT !.pc = label]
    OBVIOUS
  <2>2. SameTagging(q, p) /\ q.pc = label
    BY <2>1, TagGotoIsTyped
  <2> QED BY <1>1, <1>2, <1>4, <2>1, <2>2, TagGoesTo DEF Goto
<1>5. ASSUME p.pc = "slug", p.slug < Candidates, Become(r, [p EXCEPT !.slug = @ + 1])
      PROVE  \E q : TagStep(r, q)
  <2>1. PICK q : q = [p EXCEPT !.slug = p.slug + 1]
    OBVIOUS
  <2>2. SameTagging(q, p) /\ q.pc = "slug"
    <3>1. p.slug + 1 \in 1..Candidates
      BY <1>5, TagTable, TagRequestIsTyped
    <3> QED BY <1>5, <2>1, <3>1, TagSlugIsTyped
  <2> QED BY <1>1, <1>2, <1>5, <2>1, <2>2, TagGoesTo
<1> QED BY <1>1, <1>3, <1>4, <1>5 DEF CreateTag, CreateTagSlug, At

\* ... and the row is inserted, if the indexes let it in.
LEMMA InsertsTag ==
    ASSUME TagsInv, NEW r \in Slots, InsertTag(r)
    PROVE  \E q : TagStep(r, q)
<1>1. PICK p \in TagRequest : p = req[r] /\ KnowsItsTag(p) /\ p.pc = "inserttag"
  BY TagInSlot DEF InsertTag, At
<1>2. PICK row : row = [name |-> p.name, slug |-> p.slug, usage |-> 0, deleted |-> FALSE]
  OBVIOUS
<1>3. row \in Tag /\ row.usage = 0 /\ ~row.deleted
  <2>1. p.name \in Names /\ p.slug \in 1..Candidates
    BY <1>1, TagRequestIsTyped DEF KnowsItsTag
  <2> QED BY <1>2, <2>1 DEF Tag
<1>4. /\ Finish(r) /\ ~Counting(r) /\ Len(tags) < MaxTags /\ links' = links /\ raced' = raced
      /\ tags' = IF Fits(0, row) THEN Append(tags, row) ELSE tags
  BY <1>1, <1>2 DEF InsertTag, Counting, At
<1>5. CASE Fits(0, row)
  <2>1. TagAdded(row)
    BY <1>3, <1>4, <1>5 DEF TagAdded
  <2> QED BY <1>4, <2>1, TagTable, IdleKnowsNoTag DEF TagStep, Finish, Become
<1>6. CASE ~Fits(0, row)
  BY <1>4, <1>6, TagEnds DEF tagVars
<1> QED BY <1>5, <1>6

\* A tag is updated: it is read, a new name and slug are looked up ...
LEMMA RenamesTag ==
    ASSUME TagsInv, NEW r \in Slots, UpdateTag(r) \/ RenameTag(r) \/ RenameTagSlug(r)
    PROVE  \E q : TagStep(r, q)
<1>1. PICK p \in TagRequest :
            p = req[r] /\ KnowsItsTag(p) /\ p.pc \in {"rename", "newname", "newslug"}
  BY TagInSlot DEF UpdateTag, RenameTag, RenameTagSlug, At
<1>2. UNCHANGED tagVars /\ ~Counting(r)
  BY <1>1 DEF UpdateTag, RenameTag, RenameTagSlug, Counting, At
<1>3. CASE Finish(r)
  BY <1>2, <1>3, TagEnds
<1>4. ASSUME NEW label \in {"savetag", "newname", "newslug"}, NEW row \in Tag,
             Become(r, [p EXCEPT !.pc = label, !.copy = <<row>>])
      PROVE  \E q : TagStep(r, q)
  <2>1. PICK q : q = [p EXCEPT !.pc = label, !.copy = <<row>>]
    OBVIOUS
  <2>2. SameTagging(q, p) /\ q.pc = label /\ q.copy # <<>>
    BY <2>1, TagReadIsTyped
  <2> QED BY <1>1, <1>2, <1>4, <2>1, <2>2, TagGoesTo
<1>5. ASSUME p.pc # "rename" PROVE p.copy # <<>> /\ p.copy[1] \in Tag /\ p.name \in Names
  <2>1. p.copy \in Seq(Tag) /\ p.copy # <<>>
    BY <1>1, <1>5, TagRequestIsTyped DEF KnowsItsTag
  <2>2. p.copy[1] \in Tag
    BY <2>1
  <2> QED BY <1>1, <2>1, <2>2 DEF KnowsItsTag
<1>6. CASE UpdateTag(r) /\ ~Finish(r)
  <2>1. PICK label \in {"savetag", "newname"} :
            /\ Tag_FindByID(p.id)
            /\ Become(r, [p EXCEPT !.pc = label, !.copy = <<tags[p.id]>>])
    BY <1>1, <1>6 DEF UpdateTag
  <2>2. tags[p.id] \in Tag
    BY <2>1, TagTable DEF Tag_FindByID
  <2> QED BY <1>4, <2>1, <2>2
<1>7. CASE RenameTag(r) /\ ~Finish(r)
  <2>1. p.pc = "newname"
    BY <1>1, <1>7 DEF RenameTag, At
  <2>2. PICK row : row = [p.copy[1] EXCEPT !.name = p.name, !.slug = 1]
    OBVIOUS
  <2>3. Become(r, [p EXCEPT !.pc = "newslug", !.copy = <<row>>])
    BY <1>1, <1>7, <2>2 DEF RenameTag
  <2>4. row \in Tag
    BY <1>5, <2>1, <2>2, TagTable, TagIsTyped
  <2> QED BY <1>4, <2>3, <2>4
<1>8. CASE RenameTagSlug(r)
  <2>1. p.pc = "newslug"
    BY <1>1, <1>8 DEF RenameTagSlug, At
  <2>2. ASSUME NEW row, row = [p.copy[1] EXCEPT !.slug = p.slug],
               Become(r, [p EXCEPT !.pc = "savetag", !.copy = <<row>>])
        PROVE  \E q : TagStep(r, q)
    <3>1. row \in Tag
      BY <1>5, <2>1, <2>2, TagRequestIsTyped, TagIsTyped
    <3> QED BY <1>4, <2>2, <3>1
  <2>3. ASSUME p.slug < Candidates, Become(r, [p EXCEPT !.slug = @ + 1])
        PROVE  \E q : TagStep(r, q)
    <3>1. PICK q : q = [p EXCEPT !.slug = p.slug + 1]
      OBVIOUS
    <3>2. SameTagging(q, p) /\ q.pc = "newslug" /\ q.copy # <<>>
      <4>1. p.slug + 1 \in 1..Candidates
        BY <2>3, TagTable, TagRequestIsTyped
      <4> QED BY <1>5, <2>1, <3>1, <4>1, TagSlugIsTyped
    <3> QED BY <1>1, <1>2, <2>1, <2>3, <3>1, <3>2, TagGoesTo
  <2>4. CASE Goto(r, "savetag")
    <3>1. PICK q : q = [p EXCEPT !.pc = "savetag"]
      OBVIOUS
    <3>2. SameTagging(q, p) /\ q.pc = "savetag" /\ q.copy # <<>>
      BY <1>5, <2>1, <3>1, TagGotoIsTyped
    <3> QED BY <1>1, <1>2, <2>1, <2>4, <3>1, <3>2, TagGoesTo DEF Goto
  <2> QED BY <1>1, <1>8, <2>2, <2>3, <2>4 DEF RenameTagSlug
<1> QED BY <1>3, <1>6, <1>7, <1>8

\* ... and the copy is saved.
LEMMA SavesTag ==
    ASSUME TagsInv, NEW r \in Slots, SaveTag(r)
    PROVE  \E q : TagStep(r, q)
<1>1. PICK p \in TagRequest : p = req[r] /\ KnowsItsTag(p) /\ p.pc = "savetag"
  BY TagInSlot DEF SaveTag, At
<1>2. PICK t, row : t = p.id /\ row = p.copy[1]
  OBVIOUS
<1>3. t \in DOMAIN tags /\ row \in Tag
  <2>1. p.copy \in Seq(Tag) /\ p.copy # <<>> /\ t \in DOMAIN tags
    BY <1>1, <1>2, TagRequestIsTyped DEF KnowsItsTag
  <2> QED BY <1>2, <2>1
<1>4. Finish(r) /\ ~Counting(r) /\ links' = links
  BY <1>1 DEF SaveTag, Counting, At
<1>5. CASE Fits(t, row)
  <2>1. Tag_Save(t, row)
    BY <1>1, <1>2, <1>5 DEF SaveTag
  <2>2. TagWritten(t, row)
    BY <1>3, <1>4, <1>5, <2>1 DEF TagWritten, Tag_Save
  <2> QED BY <1>4, <2>2, TagTable, IdleKnowsNoTag DEF TagStep, Finish, Become
<1>6. CASE ~Fits(t, row)
  <2>1. UNCHANGED tagVars
    BY <1>1, <1>2, <1>6 DEF SaveTag, tagVars
  <2> QED BY <1>4, <2>1, TagEnds
<1> QED BY <1>5, <1>6

\* A tag is deleted.
LEMMA DropsTag ==
    ASSUME TagsInv, NEW r \in Slots, SoftDeleteTag(r)
    PROVE  \E q : TagStep(r, q)
<1>1. PICK p \in TagRequest : p = req[r] /\ KnowsItsTag(p) /\ p.pc = "softuntag"
  BY TagInSlot DEF SoftDeleteTag, At
<1>2. PICK t \in DOMAIN tags : t = p.id
  BY <1>1 DEF KnowsItsTag
<1>3. PICK row : row = [tags[t] EXCEPT !.deleted = TRUE]
  OBVIOUS
<1>4. row \in Tag /\ row.deleted
  BY <1>3, TagTable, TagIsTyped
<1>5. /\ Finish(r) /\ ~Counting(r) /\ links' = links /\ raced' = raced
      /\ tags' = [tags EXCEPT ![t] = row]
  BY <1>1, <1>2, <1>3 DEF SoftDeleteTag, Counting, At
<1>6. TagWritten(t, row)
  BY <1>4, <1>5 DEF TagWritten
<1> QED BY <1>5, <1>6, TagTable, IdleKnowsNoTag DEF TagStep, Finish, Become

\* An entity is tagged: the tag and the row are looked up ...
LEMMA LooksTagUp ==
    ASSUME TagsInv, NEW r \in Slots,
           DeleteTag(r) \/ AttachTags(r) \/ SkipAttached(r) \/ DetachTags(r)
    PROVE  \E q : TagStep(r, q)
<1>1. PICK p \in TagRequest :
            /\ p = req[r] /\ KnowsItsTag(p) /\ p.pc \in {"untag", "attach", "lookup", "detach"}
  BY TagInSlot DEF DeleteTag, AttachTags, SkipAttached, DetachTags, At
<1>2. UNCHANGED tagVars /\ ~Counting(r)
  BY <1>1 DEF DeleteTag, AttachTags, SkipAttached, DetachTags, Counting, At
<1>3. CASE Finish(r)
  BY <1>2, <1>3, TagEnds
<1>4. ASSUME NEW label \in {"softuntag", "lookup", "link"}, Goto(r, label),
             \/ label = "softuntag" /\ p.pc = "untag"
             \/ label = "lookup" /\ p.pc = "attach"
             \/ label = "link" /\ p.pc = "lookup"
      PROVE  \E q : TagStep(r, q)
  <2>1. PICK q : q = [p EXCEPT !.pc = label]
    OBVIOUS
  <2>2. SameTagging(q, p) /\ q.pc = label /\ q.link = p.link
    BY <2>1, TagGotoIsTyped
  <2>3. p.pc \in {"attach", "lookup"} => p.link # 0
    BY <1>1 DEF KnowsItsTag
  <2> QED BY <1>1, <1>2, <1>4, <2>1, <2>2, <2>3, TagGoesTo DEF Goto
<1>5. CASE DetachTags(r) /\ ~Finish(r)
  <2>1. PICK n : n = links[<<p.entity, p.id>>]
    OBVIOUS
  <2>2. p.pc = "detach" /\ n # 0 /\ Become(r, [p EXCEPT !.pc = "unlink", !.link = n])
    BY <1>1, <1>5, <2>1 DEF DetachTags, FindByEntityAndTag, At
  <2>3. n \in Id
    <3>1. p.entity \in Tagged /\ p.id \in TagIds
      BY <1>1, <2>2, TagTable DEF KnowsItsTag
    <3> QED BY <2>1, <3>1, TagTable
  <2>4. PICK q : q = [p EXCEPT !.pc = "unlink", !.link = n]
    OBVIOUS
  <2>5. SameTagging(q, p) /\ q.pc = "unlink" /\ q.link = n
    BY <2>3, <2>4 DEF TagRequest, SameTagging
  <2> QED BY <1>1, <1>2, <2>2, <2>4, <2>5, TagGoesTo
<1>6. CASE DeleteTag(r) /\ ~Finish(r)
  BY <1>1, <1>4, <1>6 DEF DeleteTag, At
<1>7. CASE AttachTags(r) /\ ~Finish(r)
  BY <1>1, <1>4, <1>7 DEF AttachTags, At
<1>8. CASE SkipAttached(r) /\ ~Finish(r)
  BY <1>1, <1>4, <1>8 DEF SkipAttached, At
<1> QED BY <1>3, <1>5, <1>6, <1>7, <1>8

\* ... the row is inserted or deleted ...
LEMMA LinksTag ==
    ASSUME TagsInv, NEW r \in Slots, InsertEntityTag(r) \/ DeleteEntityTag(r)
    PROVE  \E q : TagStep(r, q)
<1>1. PICK p \in TagRequest : p = req[r] /\ KnowsItsTag(p) /\ p.pc \in {"link", "unlink"}
  BY TagInSlot DEF InsertEntityTag, DeleteEntityTag, At
<1>2. PICK e, t : e = p.entity /\ t = p.id
  OBVIOUS
<1>3. /\ e \in Tagged /\ t \in DOMAIN tags /\ p.link # 0 /\ p.link \in Id
      /\ ~Counting(r) /\ tags' = tags
  BY <1>1, <1>2, TagRequestIsTyped
  DEF KnowsItsTag, Counting, At, InsertEntityTag, DeleteEntityTag
<1>4. ASSUME NEW label \in {"count", "discount"}, Goto(r, label),
             \A q : q.pc = label /\ q.id = t => TagLinked(q, e, t) \/ TagUnlinked(q, e, t)
      PROVE  \E q : TagStep(r, q)
  <2>1. PICK q : q = [p EXCEPT !.pc = label]
    OBVIOUS
  <2>2. SameTagging(q, p) /\ q.pc = label
    BY <2>1, TagGotoIsTyped
  <2>3. KnowsItsTag(q) /\ q \in TagRequest
    BY <1>2, <1>3, <2>2 DEF KnowsItsTag, SameTagging
  <2>4. TagLinked(q, e, t) \/ TagUnlinked(q, e, t)
    BY <1>2, <1>4, <2>2 DEF SameTagging
  <2>5. /\ req' = [req EXCEPT ![r] = q] /\ begun' = begun /\ faults' = faults
    BY <1>1, <1>4, <2>1 DEF Goto, Become
  <2> QED BY <1>3, <2>3, <2>4, <2>5, TagTable DEF TagStep
<1>5. CASE InsertEntityTag(r) /\ links[<<e, t>>] = 0
  <2>1. /\ links' = [links EXCEPT ![<<e, t>>] = p.link] /\ Goto(r, "count") /\ raced' = raced
        /\ faults' = faults
    BY <1>1, <1>2, <1>5 DEF InsertEntityTag, Goto, Become
  <2>2. \A q : q.pc = "count" /\ q.id = t => TagLinked(q, e, t)
    BY <1>3, <1>5, <2>1 DEF TagLinked
  <2> QED BY <1>4, <2>1, <2>2
<1>6. CASE InsertEntityTag(r) /\ links[<<e, t>>] # 0
  <2>1. Finish(r) /\ UNCHANGED tagVars
    BY <1>1, <1>2, <1>3, <1>6 DEF InsertEntityTag, tagVars
  <2> QED BY <1>3, <2>1, TagEnds
<1>7. CASE DeleteEntityTag(r)
  <2>1. /\ Goto(r, "discount") /\ faults' = faults
        /\ \/ /\ links[<<e, t>>] # 0 /\ links' = [links EXCEPT ![<<e, t>>] = 0]
              /\ raced' = raced
           \/ links' = links /\ raced' = raced \cup {t}
    BY <1>1, <1>2, <1>3, <1>7 DEF DeleteEntityTag, Goto, Become
  <2>2. \A q : q.pc = "discount" /\ q.id = t => TagUnlinked(q, e, t)
    BY <1>3, <2>1 DEF TagUnlinked
  <2> QED BY <1>4, <2>1, <2>2
<1> QED BY <1>5, <1>6, <1>7

\* ... and the use is counted, or not.
LEMMA CountsUse ==
    ASSUME TagsInv, NEW r \in Slots, CountUse(r) \/ DiscountUse(r)
    PROVE  \E q : TagStep(r, q)
<1>1. CASE Stumble(r, Idle) /\ UNCHANGED tagVars
  BY <1>1, TagEnds
<1>2. CASE CountUse(r) /\ Finish(r) /\ ~(Stumble(r, Idle) /\ UNCHANGED tagVars)
  <2>1. TagCounted(r, req[r].id)
    BY <1>2 DEF CountUse, TagCounted, Finish, Become, tagVars
  <2> QED BY <1>2, <2>1, TagTable, IdleKnowsNoTag DEF TagStep, Finish, Become
<1>3. CASE DiscountUse(r) /\ Finish(r) /\ ~(Stumble(r, Idle) /\ UNCHANGED tagVars)
  <2>1. TagDiscounted(r, req[r].id)
    BY <1>3 DEF DiscountUse, TagDiscounted, Finish, Become, tagVars
  <2> QED BY <1>3, <2>1, TagTable, IdleKnowsNoTag DEF TagStep, Finish, Become
<1> QED BY <1>1, <1>2, <1>3 DEF CountUse, DiscountUse, tagVars

\* All steps are of this form.
LEMMA TagSteps ==
    ASSUME TagsInv, TagsNext
    PROVE  \E r \in Slots : \E q : TagStep(r, q)
<1>1. ASSUME NEW r \in Slots, Abort(r), UNCHANGED tagVars PROVE \E q : TagStep(r, q)
  BY <1>1, TagEnds DEF Abort
<1> QED BY <1>1, HandlersBeginTags, LooksNameUp, InsertsTag, RenamesTag, SavesTag, DropsTag,
           LooksTagUp, LinksTag, CountsUse
    DEF TagsNext

\* Such a step keeps the rows: no name is taken twice, no tag goes away, ...
LEMMA TagRowsAfter ==
    ASSUME TagsInv, NEW r \in Slots, NEW q, TagStep(r, q)
    PROVE  /\ tags' \in Seq(Tag) /\ Len(tags') <= MaxTags /\ DOMAIN tags \subseteq DOMAIN tags'
           /\ links' \in [Tagged \X TagIds -> Id] /\ raced' \subseteq TagIds
           /\ NamesDiffer'
<1>0. /\ tags \in Seq(Tag) /\ Len(tags) \in Nat /\ Len(tags) <= MaxTags /\ MaxTags \in Nat
      /\ DOMAIN tags = 1..Len(tags) /\ DOMAIN tags \subseteq TagIds
      /\ \A t \in DOMAIN tags : tags[t] \in Tag
      /\ links \in [Tagged \X TagIds -> Id] /\ raced \subseteq TagIds /\ NamesDiffer
  BY TagTable DEF TagsInv
<1>1. CASE TagsGoOn(r, q)
  BY <1>0, <1>1 DEF TagsGoOn, tagVars, NamesDiffer, LiveTags, Tag_FindByID
<1>2. ASSUME NEW row, TagAdded(row)
      PROVE  /\ tags' \in Seq(Tag) /\ Len(tags') <= MaxTags /\ DOMAIN tags \subseteq DOMAIN tags'
             /\ NamesDiffer'
  <2>1. PICK new : new = Len(tags) + 1
    OBVIOUS
  <2>2. /\ tags' \in Seq(Tag) /\ Len(tags') = new /\ DOMAIN tags' = DOMAIN tags \cup {new}
        /\ new \notin DOMAIN tags /\ tags'[new] = row
        /\ \A m \in DOMAIN tags : tags'[m] = tags[m]
    BY <1>0, <1>2, <2>1, LongerSequence DEF TagAdded
  <2>3. \A u \in LiveTags : tags[u].name # row.name /\ tags[u].slug # row.slug
    BY <1>0, <1>2 DEF TagAdded, Fits, LiveTags
  <2>4. NamesDiffer'
    BY <1>0, <2>2, <2>3 DEF NamesDiffer, LiveTags, Tag_FindByID
  <2>5. Len(tags') <= MaxTags
    BY <1>0, <1>2, <2>1, <2>2 DEF TagAdded
  <2> QED BY <2>2, <2>4, <2>5
<1>3. ASSUME NEW t \in DOMAIN tags, NEW row \in Tag, tags' = [tags EXCEPT ![t] = row]
      PROVE  /\ tags' \in Seq(Tag) /\ Len(tags') = Len(tags) /\ DOMAIN tags' = DOMAIN tags
             /\ tags'[t] = row /\ \A m \in DOMAIN tags : m # t => tags'[m] = tags[m]
  BY <1>0, <1>3, RowOfASequence
<1>4. ASSUME NEW t, NEW row, TagWritten(t, row)
      PROVE  /\ tags' \in Seq(Tag) /\ Len(tags') <= MaxTags /\ DOMAIN tags \subseteq DOMAIN tags'
             /\ NamesDiffer'
  <2>1. t \in DOMAIN tags /\ row \in Tag /\ tags' = [tags EXCEPT ![t] = row]
    BY <1>4 DEF TagWritten
  <2>2. /\ tags' \in Seq(Tag) /\ Len(tags') = Len(tags) /\ DOMAIN tags' = DOMAIN tags
        /\ tags'[t] = row /\ \A m \in DOMAIN tags : m # t => tags'[m] = tags[m]
    BY <1>3, <2>1
  <2>3. \/ row.deleted
        \/ \A u \in LiveTags \ {t} : tags[u].name # row.name /\ tags[u].slug # row.slug
    BY <1>4 DEF TagWritten, Fits
  <2>4. NamesDiffer'
    BY <1>0, <2>2, <2>3 DEF NamesDiffer, LiveTags, Tag_FindByID
  <2> QED BY <1>0, <2>2, <2>4
<1>5. ASSUME NEW t, TagCounted(r, t) \/ TagDiscounted(r, t)
      PROVE  /\ tags' \in Seq(Tag) /\ Len(tags') <= MaxTags /\ DOMAIN tags \subseteq DOMAIN tags'
             /\ NamesDiffer'
  <2>1. CASE tags' = tags
    BY <1>0, <2>1 DEF NamesDiffer, LiveTags, Tag_FindByID
  <2>2. CASE tags' # tags
    <3>1. PICK n \in Nat : t \in DOMAIN tags /\ tags' = [tags EXCEPT ![t].usage = n]
      <4>1. CASE TagCounted(r, t)
        <5>1. t \in DOMAIN tags /\ tags' = [tags EXCEPT ![t].usage = @ + 1]
          BY <2>2, <4>1 DEF TagCounted, IncrementUsageCount, Tag_FindByID
        <5>2. tags[t].usage \in Nat
          BY <1>0, <5>1 DEF Tag
        <5>3. tags[t].usage + 1 \in Nat
          BY <5>1, <5>2
        <5> QED BY <5>1, <5>3
      <4>2. CASE TagDiscounted(r, t)
        <5>1. /\ t \in DOMAIN tags /\ tags' = [tags EXCEPT ![t].usage = @ - 1]
              /\ tags[t].usage > 0
          BY <2>2, <4>2 DEF TagDiscounted, DecrementUsageCount, Tag_FindByID
        <5>2. tags[t].usage \in Nat
          BY <1>0, <5>1 DEF Tag
        <5>3. tags[t].usage - 1 \in Nat
          BY <5>1, <5>2
        <5> QED BY <5>1, <5>3
      <4> QED BY <1>5, <4>1, <4>2
    <3>2. PICK row : row = [tags[t] EXCEPT !.usage = n]
      OBVIOUS
    <3>3. SameTag(row, tags[t]) /\ row \in Tag
      BY <1>0, <3>1, <3>2 DEF Tag, SameTag
    <3>4. tags' = [tags EXCEPT ![t] = row]
      BY <3>1, <3>2
    <3>5. /\ tags' \in Seq(Tag) /\ Len(tags') = Len(tags) /\ DOMAIN tags' = DOMAIN tags
          /\ tags'[t] = row /\ \A m \in DOMAIN tags : m # t => tags'[m] = tags[m]
      BY <1>3, <3>1, <3>3, <3>4
    <3>6. \A m \in DOMAIN tags : SameTag(tags'[m], tags[m])
      BY <1>0, <3>3, <3>5 DEF SameTag
    <3>7. NamesDiffer'
      BY <1>0, <3>5, <3>6 DEF NamesDiffer, LiveTags, Tag_FindByID, SameTag
    <3> QED BY <1>0, <3>5, <3>7
  <2> QED BY <2>1, <2>2
<1>6. ASSUME NEW e, NEW t, TagLinked(q, e, t) \/ TagUnlinked(q, e, t)
      PROVE  /\ tags' \in Seq(Tag) /\ Len(tags') <= MaxTags /\ DOMAIN tags \subseteq DOMAIN tags'
             /\ NamesDiffer'
  <2>1. tags' = tags
    BY <1>6 DEF TagLinked, TagUnlinked
  <2> QED BY <1>0, <2>1 DEF NamesDiffer, LiveTags, Tag_FindByID
<1>7. links' \in [Tagged \X TagIds -> Id] /\ raced' \subseteq TagIds
  <2>1. CASE links' = links
    BY <1>0, <2>1 DEF TagStep, TagsGoOn, tagVars, TagAdded, TagWritten, TagLinked, TagUnlinked,
                      TagCounted, TagDiscounted, Overtaken, Tag_FindByID
  <2>2. CASE links' # links
    <3>1. PICK e, t : TagLinked(q, e, t) \/ TagUnlinked(q, e, t)
      BY <2>2 DEF TagStep, TagsGoOn, tagVars, TagAdded, TagWritten, TagCounted, TagDiscounted
    <3>2. PICK n \in Id : links' = [links EXCEPT ![<<e, t>>] = n]
      <4>1. 0 \in Id
        BY TagTable DEF Id
      <4> QED BY <2>2, <3>1, <4>1 DEF TagLinked, TagUnlinked
    <3>3. raced' \subseteq raced \cup {t} /\ t \in TagIds
      BY <1>0, <3>1 DEF TagLinked, TagUnlinked
    <3> QED BY <1>0, <3>2, <3>3
  <2> QED BY <2>1, <2>2
<1> QED BY <1>1, <1>2, <1>4, <1>5, <1>6, <1>7 DEF TagStep

\* ... and what is left to be counted.
LEMMA TagQueuesAfter ==
    ASSUME TagsInv, NEW r \in Slots, NEW q, TagStep(r, q), NEW t
    PROVE  /\ Uncounted(t)' = IF q.pc = "count" /\ q.id = t THEN Uncounted(t) \cup {r}
                              ELSE Uncounted(t) \ {r}
           /\ Undiscounted(t)' = IF q.pc = "discount" /\ q.id = t THEN Undiscounted(t) \cup {r}
                                 ELSE Undiscounted(t) \ {r}
           /\ r \in Uncounted(t) <=> At(r, "count") /\ req[r].id = t
           /\ r \in Undiscounted(t) <=> At(r, "discount") /\ req[r].id = t
<1>1. /\ req'[r] = q /\ \A s \in Slots : s # r => req'[s] = req[s]
  BY TagTable DEF TagStep
<1> QED BY <1>1 DEF Uncounted, Undiscounted, At

\* The uses of tag t that were counted, and those that are to be.
Balanced(t) ==
    faults = 0 /\ Tag_FindByID(t) /\ t \notin raced =>
        tags[t].usage + Cardinality(Uncounted(t))
            = Cardinality(Tagging(t)) + Cardinality(Undiscounted(t))

\* The sets stay finite, ...
LEMMA TagSetsAfter ==
    ASSUME TagsInv, NEW r \in Slots, NEW q, TagStep(r, q), NEW t \in TagIds
    PROVE  /\ IsFiniteSet(Uncounted(t)) /\ IsFiniteSet(Undiscounted(t)) /\ IsFiniteSet(Tagging(t))
           /\ IsFiniteSet(Uncounted(t)') /\ IsFiniteSet(Undiscounted(t)')
           /\ IsFiniteSet(Tagging(t)')
           /\ t \in DOMAIN tags' \/ Tagging(t)' = {}
<1>1. /\ IsFiniteSet(Uncounted(t)) /\ IsFiniteSet(Undiscounted(t)) /\ IsFiniteSet(Tagging(t))
      /\ t \in DOMAIN tags \/ Tagging(t) = {}
  BY DEF TagsInv, UsesAddUp
<1>2. IsFiniteSet(Uncounted(t)') /\ IsFiniteSet(Undiscounted(t)')
  <2>1. \A S : IsFiniteSet(S) => IsFiniteSet(S \cup {r}) /\ IsFiniteSet(S \ {r})
    BY OneMoreOrLess
  <2>2. /\ Uncounted(t)' = Uncounted(t) \cup {r} \/ Uncounted(t)' = Uncounted(t) \ {r}
        /\ Undiscounted(t)' = Undiscounted(t) \cup {r}
           \/ Undiscounted(t)' = Undiscounted(t) \ {r}
    BY TagQueuesAfter
  <2> QED BY <1>1, <2>1, <2>2
<1>3. DOMAIN tags \subseteq DOMAIN tags'
  BY TagRowsAfter
<1>4. CASE links' = links
  <2>1. Tagging(t)' = Tagging(t)
    BY <1>4 DEF Tagging
  <2> QED BY <1>1, <1>2, <1>3, <2>1
<1>5. CASE links' # links
  <2>1. PICK e, u : TagLinked(q, e, u) \/ TagUnlinked(q, e, u)
    BY <1>5 DEF TagStep, TagsGoOn, tagVars, TagAdded, TagWritten, TagCounted, TagDiscounted
  <2>2. PICK n : links' = [links EXCEPT ![<<e, u>>] = n]
    BY <1>5, <2>1 DEF TagLinked, TagUnlinked
  <2>3. u \in DOMAIN tags /\ DOMAIN links = Tagged \X TagIds
    BY <2>1, TagTable DEF TagLinked, TagUnlinked
  <2>4. \A d \in Tagged : d # e \/ t # u => links'[<<d, t>>] = links[<<d, t>>]
    BY <2>2, <2>3
  <2>5. Tagging(t)' \in {Tagging(t), Tagging(t) \cup {e}, Tagging(t) \ {e}}
        /\ (t # u => Tagging(t)' = Tagging(t))
    BY <2>4 DEF Tagging
  <2>6. IsFiniteSet(Tagging(t)')
    <3>1. IsFiniteSet(Tagging(t) \cup {e}) /\ IsFiniteSet(Tagging(t) \ {e})
      BY <1>1, OneMoreOrLess
    <3> QED BY <1>1, <2>5, <3>1
  <2> QED BY <1>1, <1>2, <1>3, <2>3, <2>5, <2>6
<1> QED BY <1>4, <1>5

\* ... and add up: where nothing happened to the tag, ...
LEMMA StillBalanced ==
    ASSUME TagsInv, NEW r \in Slots, NEW q, TagStep(r, q), NEW t \in TagIds,
           links' = links, q.pc \notin {"count", "discount"} \/ q.id # t,
           faults' = faults + 1 \/ (r \notin Uncounted(t) /\ r \notin Undiscounted(t)),
           t \in raced => t \in raced',
           Tag_FindByID(t)' /\ t \notin raced' =>
                Tag_FindByID(t) /\ tags'[t].usage = tags[t].usage
    PROVE  Balanced(t)'
<1>1. CASE faults' = faults + 1
  <2>1. faults' # 0
    BY <1>1, TagTable
  <2> QED BY <2>1 DEF Balanced
<1>2. CASE r \notin Uncounted(t) /\ r \notin Undiscounted(t)
  <2>1. Uncounted(t)' = Uncounted(t) /\ Undiscounted(t)' = Undiscounted(t)
    BY <1>2, TagQueuesAfter
  <2>2. Tagging(t)' = Tagging(t)
    BY DEF Tagging
  <2>3. faults' = 0 => faults = 0
    BY TagTable DEF TagStep
  <2>4. Balanced(t)
    BY DEF TagsInv, UsesAddUp, Balanced
  <2> QED BY <2>1, <2>2, <2>3, <2>4 DEF Balanced
<1> QED BY <1>1, <1>2

\* ... where its row is new or was written, ...
LEMMA BalancedRows ==
    ASSUME TagsInv, NEW r \in Slots, NEW q, TagStep(r, q), NEW t \in TagIds, ~Counting(r),
           q = Idle, (\E row : TagAdded(row)) \/ (\E u, row : TagWritten(u, row))
    PROVE  Balanced(t)'
<1>0. /\ tags \in Seq(Tag) /\ DOMAIN tags = 1..Len(tags)
      /\ r \notin Uncounted(t) /\ r \notin Undiscounted(t)
      /\ q.pc \notin {"count", "discount"}
  BY TagTable, IdleKnowsNoTag DEF Counting, Uncounted, Undiscounted
<1>1. ASSUME NEW row, TagAdded(row) PROVE Balanced(t)'
  <2>1. PICK new : new = Len(tags) + 1
    OBVIOUS
  <2>2. /\ DOMAIN tags' = DOMAIN tags \cup {new}
        /\ new \notin DOMAIN tags /\ tags'[new] = row
        /\ \A m \in DOMAIN tags : tags'[m] = tags[m]
    BY <1>0, <1>1, <2>1, LongerSequence DEF TagAdded
  <2>3. links' = links /\ raced' = raced
    BY <1>1 DEF TagAdded
  <2>4. CASE t # new
    <3>1. Tag_FindByID(t)' => Tag_FindByID(t) /\ tags'[t].usage = tags[t].usage
      BY <2>2, <2>4 DEF Tag_FindByID
    <3> QED BY <1>0, <2>3, <3>1, StillBalanced
  <2>5. CASE t = new
    <3>1. Tagging(t)' = {}
      BY <2>2, <2>3, <2>5 DEF TagsInv, UsesAddUp, Tagging
    <3>2. Uncounted(t) = {} /\ Undiscounted(t) = {}
      <4>1. \A s \in Slots : At(s, "count") \/ At(s, "discount") => req[s].id \in DOMAIN tags
        BY DEF TagsInv, KnowsItsTag, At
      <4> QED BY <2>2, <2>5, <4>1 DEF Uncounted, Undiscounted
    <3>3. Uncounted(t)' = {} /\ Undiscounted(t)' = {}
      BY <1>0, <3>2, TagQueuesAfter
    <3>4. tags'[t].usage = 0 /\ Cardinality({}) = 0
      BY <1>1, <2>2, <2>5, FS_EmptySet DEF TagAdded
    <3> QED BY <3>1, <3>3, <3>4 DEF Balanced
  <2> QED BY <2>4, <2>5
<1>2. ASSUME NEW u, NEW row, TagWritten(u, row) PROVE Balanced(t)'
  <2>1. /\ DOMAIN tags' = DOMAIN tags /\ tags'[u] = row /\ u \in DOMAIN tags
        /\ \A m \in DOMAIN tags : m # u => tags'[m] = tags[m]
    BY <1>0, <1>2, RowOfASequence DEF TagWritten
  <2>2. links' = links /\ (t \in raced => t \in raced')
    BY <1>2 DEF TagWritten
  <2>3. \/ row.deleted \/ u \in raced'
        \/ tags[u].usage = row.usage /\ ~tags[u].deleted
    BY <1>2 DEF TagWritten
  <2>4. Tag_FindByID(t)' /\ t \notin raced' => Tag_FindByID(t) /\ tags'[t].usage = tags[t].usage
    BY <2>1, <2>3 DEF Tag_FindByID
  <2> QED BY <1>0, <2>2, <2>4, StillBalanced
<1> QED BY <1>1, <1>2

\* ... where a row of entity_tags came or went, ...
LEMMA BalancedLinks ==
    ASSUME TagsInv, NEW r \in Slots, NEW q, TagStep(r, q), NEW t \in TagIds, ~Counting(r),
           NEW e, NEW u, TagLinked(q, e, u) \/ TagUnlinked(q, e, u)
    PROVE  Balanced(t)'
<1>1. /\ tags' = tags /\ faults' = faults /\ (t \in raced => t \in raced')
      /\ q.id = u /\ q.pc \in {"count", "discount"} /\ e \in Tagged
  BY DEF TagLinked, TagUnlinked
<1>2. /\ r \notin Uncounted(t) /\ r \notin Undiscounted(t)
      /\ IsFiniteSet(Uncounted(t)) /\ IsFiniteSet(Undiscounted(t)) /\ IsFiniteSet(Tagging(t))
  BY TagSetsAfter DEF Counting, Uncounted, Undiscounted
<1>3. /\ DOMAIN links = Tagged \X TagIds
      /\ \A n \in DOMAIN tags : tags[n].usage \in Nat
  BY TagTable, TagIsTyped
<1>4. \A d \in Tagged : \A n : links' = [links EXCEPT ![<<e, u>>] = n] =>
        /\ d # e \/ t # u => links'[<<d, t>>] = links[<<d, t>>]
        /\ d = e /\ t = u => links'[<<d, t>>] = n
  BY <1>3
<1>5. Balanced(t)
  BY DEF TagsInv, UsesAddUp, Balanced
<1>6. Tag_FindByID(t)' = Tag_FindByID(t) /\ (Tag_FindByID(t) => tags[t].usage \in Nat)
  BY <1>1, <1>3 DEF Tag_FindByID
<1>7. CASE t # u
  <2>1. Uncounted(t)' = Uncounted(t) /\ Undiscounted(t)' = Undiscounted(t)
    <3>1. Uncounted(t)' = Uncounted(t) \ {r} /\ Undiscounted(t)' = Undiscounted(t) \ {r}
      BY <1>1, <1>7, TagQueuesAfter
    <3> QED BY <1>2, <3>1
  <2>2. \A d \in Tagged : links'[<<d, t>>] = links[<<d, t>>]
    BY <1>4, <1>7 DEF TagLinked, TagUnlinked
  <2>3. Tagging(t)' = Tagging(t)
    BY <2>2 DEF Tagging
  <2> QED BY <1>1, <1>5, <1>6, <2>1, <2>3 DEF Balanced
<1>8. CASE t = u /\ TagLinked(q, e, u)
  <2>1. Uncounted(t)' = Uncounted(t) \cup {r} /\ Undiscounted(t)' = Undiscounted(t)
    <3>1. q.pc = "count"
      BY <1>8 DEF TagLinked
    <3> QED BY <1>1, <1>2, <1>8, <3>1, TagQueuesAfter
  <2>2. Tagging(t)' = Tagging(t) \cup {e} /\ e \notin Tagging(t)
    <3>1. PICK n : n # 0 /\ links' = [links EXCEPT ![<<e, u>>] = n]
      BY <1>8 DEF TagLinked
    <3>2. links[<<e, t>>] = 0
      BY <1>8 DEF TagLinked
    <3> QED BY <1>1, <1>4, <1>8, <3>1, <3>2 DEF Tagging
  <2>3. /\ Cardinality(Uncounted(t)') = Cardinality(Uncounted(t)) + 1
        /\ Cardinality(Tagging(t)') = Cardinality(Tagging(t)) + 1
        /\ Cardinality(Uncounted(t)) \in Nat /\ Cardinality(Tagging(t)) \in Nat
        /\ Cardinality(Undiscounted(t)) \in Nat
    BY <1>2, <2>1, <2>2, FS_AddElement, FS_CardinalityType
  <2>4. raced' = raced
    BY <1>8 DEF TagLinked
  <2> QED BY <1>1, <1>5, <1>6, <2>1, <2>3, <2>4 DEF Balanced
<1>9. CASE t = u /\ TagUnlinked(q, e, u)
  <2>1. Undiscounted(t)' = Undiscounted(t) \cup {r} /\ Uncounted(t)' = Uncounted(t)
    <3>1. q.pc = "discount"
      BY <1>9 DEF TagUnlinked
    <3>2. Undiscounted(t)' = Undiscounted(t) \cup {r} /\ Uncounted(t)' = Uncounted(t) \ {r}
      BY <1>1, <1>9, <3>1, TagQueuesAfter
    <3> QED BY <1>2, <3>2
  <2>2. CASE raced' = raced \cup {u}
    BY <1>9, <2>2 DEF Balanced
  <2>3. CASE /\ links[<<e, u>>] # 0 /\ links' = [links EXCEPT ![<<e, u>>] = 0]
             /\ raced' = raced
    <3>1. Tagging(t)' = Tagging(t) \ {e} /\ e \in Tagging(t)
      BY <1>1, <1>4, <1>9, <2>3 DEF Tagging
    <3>2. /\ Cardinality(Undiscounted(t)') = Cardinality(Undiscounted(t)) + 1
          /\ Cardinality(Tagging(t)') = Cardinality(Tagging(t)) - 1
          /\ Cardinality(Uncounted(t)) \in Nat /\ Cardinality(Tagging(t)) \in Nat
          /\ Cardinality(Undiscounted(t)) \in Nat
      <4>1. Cardinality(Undiscounted(t)') = Cardinality(Undiscounted(t)) + 1
        BY <1>2, <2>1, FS_AddElement
      <4>2. Cardinality(Tagging(t)') = Cardinality(Tagging(t)) - 1
        BY <1>2, <3>1, FS_RemoveElement
      <4> QED BY <1>2, <4>1, <4>2, FS_CardinalityType
    <3> QED BY <1>1, <1>5, <1>6, <2>1, <2>3, <3>2 DEF Balanced
  <2> QED BY <1>9, <2>2, <2>3 DEF TagUnlinked
<1> QED BY <1>7, <1>8, <1>9

\* ... and where a use was counted or discounted.
LEMMA BalancedCounts ==
    ASSUME TagsInv, NEW r \in Slots, NEW q, TagStep(r, q), NEW t \in TagIds, q = Idle,
           NEW u, TagCounted(r, u) \/ TagDiscounted(r, u)
    PROVE  Balanced(t)'
<1>1. /\ links' = links /\ faults' = faults /\ (t \in raced => t \in raced') /\ req[r].id = u
      /\ q.pc \notin {"count", "discount"}
  BY IdleKnowsNoTag DEF TagCounted, TagDiscounted, Overtaken
<1>2. /\ IsFiniteSet(Uncounted(t)) /\ IsFiniteSet(Undiscounted(t)) /\ IsFiniteSet(Tagging(t))
      /\ Tagging(t)' = Tagging(t)
  BY <1>1, TagSetsAfter DEF Tagging
<1>3. /\ tags \in Seq(Tag) /\ DOMAIN tags = 1..Len(tags)
      /\ \A n \in DOMAIN tags : tags[n] \in Tag /\ tags[n].usage \in Nat
  BY TagTable, TagIsTyped
<1>4. Balanced(t)
  BY DEF TagsInv, UsesAddUp, Balanced
<1>5. CASE t # u
  <2>1. r \notin Uncounted(t) /\ r \notin Undiscounted(t)
    BY <1>1, <1>5 DEF Uncounted, Undiscounted
  <2>2. Tag_FindByID(t)' => Tag_FindByID(t) /\ tags'[t].usage = tags[t].usage
    BY <1>5 DEF TagCounted, TagDiscounted, IncrementUsageCount, DecrementUsageCount, Tag_FindByID
  <2> QED BY <1>1, <2>1, <2>2, StillBalanced
<1>6. CASE t = u /\ TagCounted(r, u)
  <2>1. /\ Uncounted(t)' = Uncounted(t) \ {r} /\ r \in Uncounted(t)
        /\ Undiscounted(t)' = Undiscounted(t) \ {r} /\ r \notin Undiscounted(t)
    BY <1>1, <1>6, TagQueuesAfter DEF TagCounted, At, Undiscounted
  <2>2. Undiscounted(t)' = Undiscounted(t) /\ raced' = raced
    BY <1>6, <2>1 DEF TagCounted
  <2>3. /\ Cardinality(Uncounted(t)') = Cardinality(Uncounted(t)) - 1
        /\ Cardinality(Uncounted(t)) \in Nat /\ Cardinality(Tagging(t)) \in Nat
        /\ Cardinality(Undiscounted(t)) \in Nat
    BY <1>2, <2>1, FS_RemoveElement, FS_CardinalityType
  <2>4. /\ Tag_FindByID(t)' => Tag_FindByID(t)
        /\ Tag_FindByID(t) => tags'[t].usage = tags[t].usage + 1 /\ tags[t].usage \in Nat
    BY <1>3, <1>6 DEF TagCounted, IncrementUsageCount, Tag_FindByID, Tag
  <2> QED BY <1>1, <1>2, <1>4, <2>2, <2>3, <2>4 DEF Balanced
<1>7. CASE t = u /\ TagDiscounted(r, u)
  <2>1. /\ Undiscounted(t)' = Undiscounted(t) \ {r} /\ r \in Undiscounted(t)
        /\ Uncounted(t)' = Uncounted(t) \ {r} /\ r \notin Uncounted(t)
    BY <1>1, <1>7, TagQueuesAfter DEF TagDiscounted, At, Uncounted
  <2>2. Uncounted(t)' = Uncounted(t)
    BY <2>1
  <2>3. /\ Cardinality(Undiscounted(t)') = Cardinality(Undiscounted(t)) - 1
        /\ Cardinality(Uncounted(t)) \in Nat /\ Cardinality(Tagging(t)) \in Nat
        /\ Cardinality(Undiscounted(t)) \in Nat
    BY <1>2, <2>1, FS_RemoveElement, FS_CardinalityType
  <2>4. CASE Tag_FindByID(t) /\ tags[t].usage > 0
    <3>1. tags'[t].usage = tags[t].usage - 1 /\ tags[t].usage \in Nat /\ raced' = raced
      BY <1>3, <1>7, <2>4 DEF TagDiscounted, DecrementUsageCount, Overtaken, Tag_FindByID, Tag
    <3> QED BY <1>1, <1>2, <1>4, <2>2, <2>3, <2>4, <3>1 DEF Balanced
  <2>5. CASE Tag_FindByID(t) /\ ~(tags[t].usage > 0)
    <3>1. t \in raced'
      BY <1>3, <1>7, <2>5 DEF TagDiscounted, Overtaken, Tag_FindByID
    <3> QED BY <3>1 DEF Balanced
  <2>6. CASE ~Tag_FindByID(t)
    <3>1. ~Tag_FindByID(t)'
      BY <1>7, <2>6 DEF TagDiscounted, DecrementUsageCount, Tag_FindByID
    <3> QED BY <3>1 DEF Balanced
  <2> QED BY <2>4, <2>5, <2>6
<1> QED BY <1>5, <1>6, <1>7

\* So they add up after every step.
LEMMA UsesAfter ==
    ASSUME TagsInv, NEW r \in Slots, NEW q, TagStep(r, q)
    PROVE  UsesAddUp'
<1>1. SUFFICES ASSUME NEW t \in TagIds PROVE Balanced(t)'
  <2>1. \A t \in TagIds :
            /\ IsFiniteSet(Uncounted(t)') /\ IsFiniteSet(Undiscounted(t)')
            /\ IsFiniteSet(Tagging(t)') /\ (t \in DOMAIN tags' \/ Tagging(t)' = {})
    BY TagSetsAfter
  <2> QED BY <1>1, <2>1 DEF UsesAddUp, Balanced
<1>2. CASE TagsGoOn(r, q)
  <2>1. UNCHANGED <<tags, links, raced>> /\ (Counting(r) => faults' = faults + 1)
        /\ q.pc \notin {"count", "discount"}
    BY <1>2 DEF TagsGoOn, tagVars
  <2>2. faults' = faults + 1 \/ (r \notin Uncounted(t) /\ r \notin Undiscounted(t))
    BY <2>1 DEF Counting, Uncounted, Undiscounted
  <2>3. Tag_FindByID(t)' => Tag_FindByID(t) /\ tags'[t].usage = tags[t].usage
    BY <2>1 DEF Tag_FindByID
  <2> QED BY <2>1, <2>2, <2>3, StillBalanced
<1>3. CASE q = Idle /\ ~Counting(r) /\ \E row : TagAdded(row)
  BY <1>3, BalancedRows
<1>4. CASE q = Idle /\ ~Counting(r) /\ \E u, row : TagWritten(u, row)
  BY <1>4, BalancedRows
<1>5. CASE ~Counting(r) /\ \E e, u : TagLinked(q, e, u) \/ TagUnlinked(q, e, u)
  BY <1>5, BalancedLinks
<1>6. CASE q = Idle /\ \E u : TagCounted(r, u) \/ TagDiscounted(r, u)
  BY <1>6, BalancedCounts
<1> QED BY <1>2, <1>3, <1>4, <1>5, <1>6 DEF TagStep

\* Every step keeps the invariant.
LEMMA TagInvSteps ==
    TagsInv /\ [TagsNext]_<<tagVars, requestVars>> => TagsInv'
<1>1. ASSUME TagsInv, TagsNext PROVE TagsInv'
  <2>1. PICK r, q : r \in Slots /\ TagStep(r, q)
    BY <1>1, TagSteps
  <2>2. /\ tags' \in Seq(Tag) /\ Len(tags') <= MaxTags /\ DOMAIN tags \subseteq DOMAIN tags'
        /\ links' \in [Tagged \X TagIds -> Id] /\ raced' \subseteq TagIds
        /\ NamesDiffer' /\ UsesAddUp'
    BY <1>1, <2>1, TagRowsAfter, UsesAfter
  <2>3. /\ req \in [Slots -> TagRequest \cup {Idle}] /\ req' = [req EXCEPT ![r] = q]
        /\ q \in TagRequest \cup {Idle} /\ KnowsItsTag(q)
        /\ begun' \in 0..MaxRequests /\ faults' \in 0..MaxFaults
    BY <1>1, <2>1, TagTable DEF TagStep
  <2>4. ASSUME NEW s \in Slots PROVE KnowsItsTag(req[s])'
    <3>1. PICK x : x = req'[s]
      OBVIOUS
    <3>2. KnowsItsTag(x)
      BY <1>1, <2>3, <3>1 DEF TagsInv
    <3>3. KnowsItsTag(x)'
      BY <2>2, <3>2 DEF KnowsItsTag
    <3> QED BY <3>1, <3>3
  <2>5. req' \in [Slots -> TagRequest \cup {Idle}]
    BY <2>3
  <2>6. TagsTypeOK'
    BY <2>2, <2>3, <2>5 DEF TagsTypeOK, RequestsAre
  <2> QED BY <2>2, <2>4, <2>6 DEF TagsInv
<1>2. ASSUME TagsInv, UNCHANGED <<tagVars, requestVars>> PROVE TagsInv'
  <2>1. UNCHANGED <<tags, links, raced, req, begun, faults>>
    BY <1>2 DEF tagVars, requestVars
  <2>2. TagsTypeOK' /\ NamesDiffer'
    BY <1>2, <2>1
    DEF TagsInv, TagsTypeOK, RequestsAre, NamesDiffer, LiveTags, Tag_FindByID
  <2>3. UsesAddUp'
    BY <1>2, <2>1 DEF TagsInv, UsesAddUp, Uncounted, Undiscounted, Tagging, Tag_FindByID, At
  <2>4. \A s \in Slots : KnowsItsTag(req[s])'
    BY <1>2, <2>1 DEF TagsInv, KnowsItsTag
  <2> QED BY <2>2, <2>3, <2>4 DEF TagsInv
<1> QED BY <1>1, <1>2

\* The tables are empty at first.
LEMMA TagsStart == TagsInit /\ RequestsInit => TagsInv
<1> SUFFICES ASSUME TagsInit, RequestsInit PROVE TagsInv
  OBVIOUS
<1>1. DOMAIN tags = {} /\ tags = <<>> /\ Len(<<>>) = 0 /\ \A S : <<>> \in Seq(S)
  BY DEF TagsInit
<1>2. TagsTypeOK
  <2>1. 0 \in Id
    BY RequestBoundsAssumption DEF Id
  <2> QED BY <1>1, <2>1, RequestBoundsAssumption, MaxTagsAssumption
          DEF TagsInit, RequestsInit, TagsTypeOK, RequestsAre
<1>3. \A r \in Slots : KnowsItsTag(req[r])
  BY IdleKnowsNoTag DEF RequestsInit
<1>4. UsesAddUp
  <2>1. ASSUME NEW t \in TagIds
        PROVE  Uncounted(t) = {} /\ Undiscounted(t) = {} /\ Tagging(t) = {}
    BY IdleKnowsNoTag DEF RequestsInit, TagsInit, Uncounted, Undiscounted, Tagging, At
  <2>2. \A t : ~Tag_FindByID(t)
    BY <1>1 DEF Tag_FindByID
  <2> QED BY <2>1, <2>2, FS_EmptySet DEF UsesAddUp
<1>5. NamesDiffer
  BY <1>1 DEF NamesDiffer, LiveTags
<1> QED BY <1>2, <1>3, <1>4, <1>5 DEF TagsInv

\* What readers are shown follows from the rows.
LEMMA TagsAreShown == TagsInv => TagsHold
<1> SUFFICES ASSUME TagsInv PROVE TagsHold
  OBVIOUS
<1>1. UsageIsCounted
  <2> SUFFICES ASSUME faults = 0, NEW t \in LiveTags \ raced
               PROVE  tags[t].usage + Cardinality(Uncounted(t)) - Cardinality(Undiscounted(t))
                        = Cardinality({e \in Tagged : t \in ListEntityTags(e)})
    BY DEF UsageIsCounted
  <2>1. t \in TagIds /\ Tag_FindByID(t) /\ tags[t].usage \in Nat
    BY TagTable, TagIsTyped DEF LiveTags
  <2>2. {e \in Tagged : t \in ListEntityTags(e)} = Tagging(t)
    BY DEF ListEntityTags, Tagging
  <2>3. /\ Cardinality(Uncounted(t)) \in Nat /\ Cardinality(Undiscounted(t)) \in Nat
        /\ Cardinality(Tagging(t)) \in Nat
        /\ tags[t].usage + Cardinality(Uncounted(t))
                = Cardinality(Tagging(t)) + Cardinality(Undiscounted(t))
    BY <2>1, FS_CardinalityType DEF TagsInv, UsesAddUp
  <2>4. Cardinality({e \in Tagged : t \in ListEntityTags(e)}) = Cardinality(Tagging(t))
    BY <2>2
  <2>5. tags[t].usage + Cardinality(Uncounted(t)) - Cardinality(Undiscounted(t))
            = Cardinality(Tagging(t))
    BY <2>1, <2>3
  <2> QED BY <2>4, <2>5
<1>2. NamesDiffer
  BY DEF TagsInv
<1>3. ASSUME NEW S, \A x, y \in S : x = y PROVE Cardinality(S) <= 1
  BY <1>3, OneAtMost
<1>4. ASSUME NEW n \in Names PROVE Cardinality(Autocomplete(LAMBDA m : m = n)) <= 1
  <2>1. PICK S : S = {t \in ListTags : tags[t].name = n}
    OBVIOUS
  <2>2. \A x, y \in S : x = y
    BY <1>2, <2>1 DEF ListTags, NamesDiffer
  <2>3. Autocomplete(LAMBDA m : m = n) = S
    BY <2>1 DEF Autocomplete
  <2> QED BY <1>3, <2>2, <2>3
<1>5. ASSUME NEW s \in 1..Candidates PROVE Cardinality(GetTagBySlug(s)) <= 1
  <2>1. PICK S : S = GetTagBySlug(s)
    OBVIOUS
  <2>2. \A x, y \in S : x = y
    BY <1>2, <2>1 DEF GetTagBySlug, Tag_FindBySlug, NamesDiffer
  <2> QED BY <1>3, <2>1, <2>2
<1>6. \A t \in ListTags : GetTag(t) = {t}
  BY DEF ListTags, LiveTags, GetTag
<1>7. NamesLeadToOneTag
  BY <1>4, <1>5, <1>6 DEF NamesLeadToOneTag
<1> QED BY <1>1, <1>7 DEF TagsHold

\* TagsHold: the counter of a tag says how many entities show it, but for the requests that have
\* yet to count and what is named as raced or failed, and a name or slug leads to one tag:
\* service/tag.go, for any names, entities, tags, requests and failures.
THEOREM TagsAlwaysHold == TagsSpec => []TagsHold
BY TagsStart, TagInvSteps, TagsAreShown, PTL DEF TagsSpec

-----------------------------------------------------------------------------
(* Searches *)

\* The rows of table s that a search finds, ...
MatchIn(s, text) == {d \in DOMAIN s : ~s[d].deleted /\ (text => s[d].match)}

\* ... which of two comes first, ...
Earlier(s, order, d, e) ==
    LET up(x, y) == IF order.asc THEN x < y ELSE y < x
        x == s[d]
        y == s[e]
    IN  \/ order.by = "rank" /\ y.key < x.key
        \/ order.by = "title" /\ (up(x.key, y.key) \/ (x.key = y.key /\ e < d))
        \/ order.by = "created" /\ up(d, e)
        \/ order.by = "updated" /\ up(x.updated, y.updated)

\* ... and how many come before row d for client b.
Ahead(s, b, d) == {e \in MatchIn(s, b.text) : Earlier(s, b.order, e, d)}
RankIn(s, b, d) == Cardinality(Ahead(s, b, d))

\* Of a page are the rows whose rank is in range.
PageIn(s, b, first, size) ==
    {e \in MatchIn(s, b.text) : RankIn(s, b, e) \in first..(first + size - 1)}

\* The order is one for all pages.
Apart(s, b) ==
    \A d, e \in MatchIn(s, b.text) :
        d = e \/ Earlier(s, b.order, d, e) \/ Earlier(s, b.order, e, d)

\* It is as the module says, now and after a step.
LEMMA RowsInOrder ==
    ASSUME NEW b, NEW d
    PROVE  /\ Matching(b.text) = MatchIn(docs, b.text)
           /\ Rank(b, d) = RankIn(docs, b, d) /\ (ToldApart(b) <=> Apart(docs, b))
           /\ \A e, f : Before(b.order, e, f) <=> Earlier(docs, b.order, e, f)
<1>1. Matching(b.text) = MatchIn(docs, b.text)
  BY DEF Matching, MatchIn, BuildTSQuery
<1>2. \A e, f : Before(b.order, e, f) <=> Earlier(docs, b.order, e, f)
  BY DEF Before, Earlier
<1> QED BY <1>1, <1>2 DEF Rank, RankIn, Ahead, ToldApart, Apart

\* The rows that are found are few, ...
LEMMA MatchingOf ==
    ASSUME NEW s \in Seq(Doc), NEW text
    PROVE  /\ MatchIn(s, text) \subseteq DOMAIN s /\ DOMAIN s = 1..Len(s) /\ Len(s) \in Nat
           /\ IsFiniteSet(MatchIn(s, text)) /\ Cardinality(MatchIn(s, text)) \in Nat
           /\ Cardinality(MatchIn(s, text)) <= Len(s)
<1>1. DOMAIN s = 1..Len(s) /\ Len(s) \in Nat /\ MatchIn(s, text) \subseteq DOMAIN s
  BY DEF MatchIn
<1>2. IsFiniteSet(1..Len(s)) /\ Cardinality(1..Len(s)) = Len(s)
  <2>1. Cardinality(1..Len(s)) = IF 1 > Len(s) THEN 0 ELSE Len(s) - 1 + 1
    BY <1>1, FS_Interval
  <2> QED BY <1>1, <2>1, FS_Interval
<1>3. /\ IsFiniteSet(MatchIn(s, text))
      /\ Cardinality(MatchIn(s, text)) <= Cardinality(1..Len(s))
  BY <1>1, <1>2, FS_Subset
<1> QED BY <1>1, <1>2, <1>3, FS_CardinalityType

\* ... and each way of sorting them is an order.
LEMMA EarlierIsAnOrder ==
    ASSUME NEW s \in Seq(Doc), NEW order \in SortOrder
    PROVE  \A d, e, f \in DOMAIN s :
                /\ ~Earlier(s, order, d, d)
                /\ Earlier(s, order, d, e) /\ Earlier(s, order, e, f) => Earlier(s, order, d, f)
<1>1. DOMAIN s = 1..Len(s) /\ Len(s) \in Nat
  OBVIOUS
<1>2. \A d \in DOMAIN s : d \in Int /\ s[d].key \in Int /\ s[d].updated \in Int
  <2>1. \A d \in DOMAIN s : s[d] \in Doc
    BY <1>1
  <2>2. MaxRequests \in Nat
    BY RequestBoundsAssumption
  <2> QED BY <1>1, <2>1, <2>2 DEF Doc, SortKeys
<1>3. order.by \in {"rank", "title", "created", "updated"} /\ order.asc \in BOOLEAN
  BY DEF SortOrder
<1> SUFFICES ASSUME NEW d \in DOMAIN s, NEW e \in DOMAIN s, NEW f \in DOMAIN s
             PROVE  /\ ~Earlier(s, order, d, d)
                    /\ Earlier(s, order, d, e) /\ Earlier(s, order, e, f) => Earlier(s, order, d, f)
  OBVIOUS
<1>4. CASE order.by = "rank"
  BY <1>2, <1>4 DEF Earlier
<1>5. CASE order.by = "title"
  BY <1>2, <1>3, <1>5 DEF Earlier
<1>6. CASE order.by = "created"
  BY <1>2, <1>3, <1>6 DEF Earlier
<1>7. CASE order.by = "updated"
  BY <1>2, <1>3, <1>7 DEF Earlier
<1> QED BY <1>3, <1>4, <1>5, <1>6, <1>7

\* The earlier a row the lower its rank.
LEMMA RanksFall ==
    ASSUME NEW s \in Seq(Doc), NEW b \in Browsing, NEW d \in MatchIn(s, b.text)
    PROVE  /\ RankIn(s, b, d) \in Nat /\ IsFiniteSet(Ahead(s, b, d))
           /\ RankIn(s, b, d) < Cardinality(MatchIn(s, b.text))
           /\ \A e \in MatchIn(s, b.text) :
                Earlier(s, b.order, e, d) => RankIn(s, b, e) < RankIn(s, b, d)
<1>1. PICK S : S = MatchIn(s, b.text)
  OBVIOUS
<1>2. /\ S \subseteq DOMAIN s /\ IsFiniteSet(S) /\ Cardinality(S) \in Nat
      /\ b.order \in SortOrder /\ b.text \in BOOLEAN
  BY <1>1, MatchingOf DEF Browsing
<1>3. \A c : /\ IsFiniteSet(Ahead(s, b, c)) /\ Cardinality(Ahead(s, b, c)) \in Nat
             /\ Ahead(s, b, c) \subseteq S
  BY <1>1, <1>2, FS_Subset, FS_CardinalityType DEF Ahead
<1>4. /\ d \in S /\ d \notin Ahead(s, b, d)
      /\ \A e \in S : e \notin Ahead(s, b, e)
  BY <1>1, <1>2, EarlierIsAnOrder DEF Ahead
<1>5. ASSUME NEW e \in S, NEW B, e \notin Ahead(s, b, e), Ahead(s, b, e) \cup {e} \subseteq B,
             IsFiniteSet(B), Cardinality(B) \in Nat
      PROVE  RankIn(s, b, e) < Cardinality(B)
  <2>1. Cardinality(Ahead(s, b, e) \cup {e}) = Cardinality(Ahead(s, b, e)) + 1
    BY <1>3, <1>5, FS_AddElement
  <2>2. Cardinality(Ahead(s, b, e) \cup {e}) <= Cardinality(B)
    BY <1>5, FS_Subset
  <2> QED BY <1>3, <1>5, <2>1, <2>2 DEF RankIn
<1>6. RankIn(s, b, d) < Cardinality(S)
  <2>1. Ahead(s, b, d) \cup {d} \subseteq S
    BY <1>3, <1>4
  <2> QED BY <1>2, <1>4, <1>5, <2>1
<1>7. ASSUME NEW e \in S, Earlier(s, b.order, e, d) PROVE RankIn(s, b, e) < RankIn(s, b, d)
  <2>1. Ahead(s, b, e) \cup {e} \subseteq Ahead(s, b, d)
    BY <1>1, <1>2, <1>4, <1>7, EarlierIsAnOrder DEF Ahead
  <2>2. RankIn(s, b, e) < Cardinality(Ahead(s, b, d))
    BY <1>3, <1>4, <1>5, <2>1
  <2> QED BY <2>2 DEF RankIn
<1> QED BY <1>1, <1>3, <1>6, <1>7 DEF RankIn

\* In one order no rank is skipped, ...
LEMMA RanksAreTaken ==
    ASSUME NEW s \in Seq(Doc), NEW b \in Browsing, Apart(s, b)
    PROVE  LET S == MatchIn(s, b.text)
           IN  /\ \A d, e \in S : RankIn(s, b, d) = RankIn(s, b, e) => d = e
               /\ \A k \in 0..(Cardinality(S) - 1) : \E e \in S : RankIn(s, b, e) = k
<1>1. PICK S, ranks, f : /\ S = MatchIn(s, b.text) /\ ranks = 0..(Cardinality(S) - 1)
                         /\ f = [e \in S |-> RankIn(s, b, e)]
  OBVIOUS
<1>2. /\ \A d \in S : RankIn(s, b, d) \in Nat /\ RankIn(s, b, d) < Cardinality(S)
      /\ \A d, e \in S : Earlier(s, b.order, e, d) => RankIn(s, b, e) < RankIn(s, b, d)
      /\ Cardinality(S) \in Nat /\ IsFiniteSet(S)
  BY <1>1, RanksFall, MatchingOf
<1>3. ASSUME NEW d \in S, NEW e \in S, RankIn(s, b, d) = RankIn(s, b, e) PROVE d = e
  <2>1. ~Earlier(s, b.order, e, d) /\ ~Earlier(s, b.order, d, e)
    BY <1>2, <1>3
  <2> QED BY <1>1, <2>1 DEF Apart
<1>4. f \in Injection(S, ranks)
  <2>1. f \in [S -> ranks]
    BY <1>1, <1>2
  <2>2. \A d, e \in S : f[d] = f[e] => d = e
    BY <1>1, <1>3
  <2> QED BY <2>1, <2>2 DEF Injection, IsInjective
<1>5. IsFiniteSet(ranks) /\ Cardinality(ranks) = Cardinality(S)
  <2>1. PICK n \in Nat : n = Cardinality(S)
    BY <1>2
  <2>2. IsFiniteSet(0..(n - 1)) /\ Cardinality(0..(n - 1)) = IF 0 > n - 1 THEN 0 ELSE n - 1 - 0 + 1
    BY FS_Interval
  <2> QED BY <1>1, <2>1, <2>2
<1>6. f \in Surjection(S, ranks)
  BY <1>4, <1>5, FS_Injection
<1>7. ASSUME NEW k \in ranks PROVE \E e \in S : RankIn(s, b, e) = k
  BY <1>1, <1>6, <1>7 DEF Surjection
<1> QED BY <1>1, <1>3, <1>7

\* ... so a page that is followed by another row is full.
LEMMA PageIsFull ==
    ASSUME NEW s \in Seq(Doc), NEW b \in Browsing, Apart(s, b), NEW first \in Nat,
           NEW size \in Nat, NEW d \in MatchIn(s, b.text), RankIn(s, b, d) >= first + size
    PROVE  Cardinality(PageIn(s, b, first, size)) = size
<1>1. PICK S, page, ranks : /\ S = MatchIn(s, b.text) /\ page = PageIn(s, b, first, size)
                            /\ ranks = first..(first + size - 1)
  OBVIOUS
<1>2. PICK f : f = [e \in page |-> RankIn(s, b, e)]
  OBVIOUS
<1>3. /\ page = {e \in S : RankIn(s, b, e) \in ranks}
      /\ IsFiniteSet(S) /\ Cardinality(S) \in Nat
      /\ RankIn(s, b, d) \in Nat /\ RankIn(s, b, d) < Cardinality(S)
      /\ \A e, g \in S : RankIn(s, b, e) = RankIn(s, b, g) => e = g
      /\ \A k \in 0..(Cardinality(S) - 1) : \E e \in S : RankIn(s, b, e) = k
  BY <1>1, RanksAreTaken, RanksFall, MatchingOf DEF PageIn
<1>4. f \in [page -> ranks] /\ \A e, g \in page : f[e] = f[g] => e = g
  BY <1>2, <1>3
<1>5. \A k \in ranks : \E e \in page : f[e] = k
  <2> SUFFICES ASSUME NEW k \in ranks PROVE \E e \in page : f[e] = k
    OBVIOUS
  <2>1. k \in 0..(Cardinality(S) - 1)
    BY <1>1, <1>3
  <2>2. PICK e \in S : RankIn(s, b, e) = k
    BY <1>3, <2>1
  <2> QED BY <1>2, <1>3, <2>2
<1>6. f \in Bijection(page, ranks)
  BY <1>4, <1>5 DEF Bijection, Injection, Surjection, IsInjective
<1>7. IsFiniteSet(page)
  BY <1>3, FS_Subset
<1>8. Cardinality(page) = Cardinality(ranks)
  BY <1>6, <1>7, FS_Bijection DEF ExistsBijection
<1>9. Cardinality(ranks) = size
  <2>1. Cardinality(first..(first + size - 1)) = IF first > first + size - 1 THEN 0
            ELSE (first + size - 1) - first + 1
    BY FS_Interval
  <2> QED BY <1>1, <2>1
<1> QED BY <1>1, <1>8, <1>9

\* The rows that were found keep their order when the table becomes t, ...
Undisturbed(s, t, b) ==
    \A m \in MatchIn(s, b.text) :
        /\ m \in MatchIn(t, b.text)
        /\ b.order.by \in {"rank", "title"} => t[m].key = s[m].key
        /\ b.order.by = "updated" => t[m].updated = s[m].updated

\* ... and what comes to them only moves them on.
LEMMA RanksOnlyRise ==
    ASSUME NEW s \in Seq(Doc), NEW t \in Seq(Doc), NEW b \in Browsing, Undisturbed(s, t, b),
           NEW d \in MatchIn(s, b.text)
    PROVE  d \in MatchIn(t, b.text) /\ RankIn(t, b, d) >= RankIn(s, b, d)
<1>1. d \in MatchIn(t, b.text)
  BY DEF Undisturbed
<1>2. Ahead(s, b, d) \subseteq Ahead(t, b, d)
  <2> SUFFICES ASSUME NEW e \in Ahead(s, b, d) PROVE e \in Ahead(t, b, d)
    OBVIOUS
  <2>1. e \in MatchIn(s, b.text) /\ Earlier(s, b.order, e, d)
    BY DEF Ahead
  <2>2. e \in MatchIn(t, b.text)
    BY <2>1 DEF Undisturbed
  <2>3. Earlier(t, b.order, e, d)
    BY <2>1 DEF Undisturbed, Earlier
  <2> QED BY <2>2, <2>3 DEF Ahead
<1>3. IsFiniteSet(Ahead(t, b, d))
  BY <1>1, RanksFall
<1>4. Cardinality(Ahead(s, b, d)) <= Cardinality(Ahead(t, b, d))
  BY <1>2, <1>3, FS_Subset
<1>5. RankIn(s, b, d) \in Nat /\ RankIn(t, b, d) \in Nat
  BY <1>1, RanksFall
<1> QED BY <1>1, <1>4, <1>5 DEF RankIn

\* The offsets of the pages.
LEMMA OffsetsAdvance ==
    ASSUME NEW page \in Nat \ {0}, NEW size \in Nat \ {0}
    PROVE  /\ Offset(1, size) = 0 /\ Offset(page, size) \in Nat
           /\ Offset(page, size) >= page - 1
           /\ Offset(page + 1, size) = Offset(page, size) + size
<1>1. Offset(1, size) = 0
  BY DEF Offset
<1>2. PICK p \in Nat : p = page - 1
  OBVIOUS
<1>3. Offset(page, size) = p * size /\ p * size \in Nat
  BY <1>2 DEF Offset
<1>4. p * size >= p
  OBVIOUS
<1>5. Offset(page + 1, size) = p * size + size
  BY <1>2 DEF Offset
<1> QED BY <1>1, <1>2, <1>3, <1>4, <1>5

\* What the invariant says of the news and the client.
LEMMA DocsTable ==
    ASSUME SearchesInv
    PROVE  /\ docs \in Seq(Doc) /\ Len(docs) \in Nat /\ Len(docs) <= MaxDocs /\ MaxDocs \in Nat
           /\ shaken \in BOOLEAN /\ browsing \in Browsing /\ browsing.order \in SortOrder
           /\ browsing.on \in BOOLEAN /\ browsing.text \in BOOLEAN
           /\ browsing.size \in 0..MaxPage + 1 /\ browsing.page \in 1..MaxDocs + 2
           /\ browsing.seen \subseteq 1..MaxDocs /\ browsing.due \subseteq 1..MaxDocs
           /\ \A n \in 0..MaxPage + 1 : PageSize(n) \in Nat \ {0}
           /\ \A b : Matching(b.text) \subseteq 1..MaxDocs
<1>1. /\ docs \in Seq(Doc) /\ Len(docs) <= MaxDocs /\ MaxDocs \in Nat /\ MaxPage \in Nat
      /\ DefaultPage \in 1..MaxPage /\ shaken \in BOOLEAN /\ browsing \in Browsing
  BY PagesAssumption, RowsAssumption DEF SearchesInv, SearchesTypeOK
<1>2. Len(docs) \in Nat
  BY <1>1
<1>3. \A n \in 0..MaxPage + 1 : PageSize(n) \in Nat \ {0}
  BY <1>1 DEF PageSize
<1>4. /\ browsing.on \in BOOLEAN /\ browsing.text \in BOOLEAN /\ browsing.order \in SortOrder
      /\ browsing.size \in 0..MaxPage + 1 /\ browsing.page \in 1..MaxDocs + 2
      /\ browsing.seen \subseteq 1..MaxDocs /\ browsing.due \subseteq 1..MaxDocs
  BY <1>1 DEF Browsing
<1>5. ASSUME NEW b PROVE Matching(b.text) \subseteq 1..MaxDocs
  <2>1. Matching(b.text) \subseteq 1..Len(docs)
    BY <1>1, RowsInOrder, MatchingOf
  <2> QED BY <1>1, <1>2, <2>1
<1> QED BY <1>1, <1>2, <1>3, <1>4, <1>5

\* What client b is due of table s was seen or is on a page to come.
Coming(s, b) ==
    \A d \in b.due :
        \/ d \in b.seen
        \/ /\ b.on /\ d \in MatchIn(s, b.text)
           /\ RankIn(s, b, d) >= Offset(b.page, PageSize(b.size))

\* This is what the invariant says of the client, now and after a step.
LEMMA DueIsComing ==
    /\ DueIsToCome <=> (~shaken => Coming(docs, browsing))
    /\ DueIsToCome' <=> (~shaken' => Coming(docs', browsing'))
BY DEF DueIsToCome, Coming, Rank, RankIn, Ahead, Before, Earlier, Matching, MatchIn, BuildTSQuery

\* A client starts; ...
LEMMA BrowsingStarts ==
    ASSUME SearchesInv, NEW text \in BOOLEAN, NEW asc \in BOOLEAN, NEW n \in 0..MaxPage + 1,
           NEW sort \in {"relevance", "title", "created", "updated"},
           StartBrowsing(text, sort, asc, n)
    PROVE  browsing' \in Browsing /\ DueIsToCome'
<1>1. PICK b : b = browsing'
  OBVIOUS
<1>2. /\ b = [on |-> TRUE, text |-> text, order |-> OrderClause(text, sort, asc), size |-> n,
              page |-> 1, seen |-> {}, due |-> Matching(text)]
      /\ docs' = docs
  BY <1>1 DEF StartBrowsing
<1>3. b.on /\ b.text = text /\ b.size = n /\ b.page = 1 /\ b.due = Matching(b.text)
  BY <1>2
<1>4. b \in Browsing
  <2>1. 1 \in 1..MaxDocs + 2
    BY DocsTable
  <2>2. OrderClause(text, sort, asc) \in SortOrder
    BY DEF OrderClause, SortOrder
  <2>3. Matching(text) \subseteq 1..MaxDocs
    BY <1>3, DocsTable
  <2> QED BY <1>2, <2>1, <2>2, <2>3 DEF Browsing
<1>5. Coming(docs, b)
  <2> SUFFICES ASSUME NEW d \in Matching(b.text)
               PROVE  d \in MatchIn(docs, b.text)
                      /\ RankIn(docs, b, d) >= Offset(b.page, PageSize(b.size))
    BY <1>3 DEF Coming
  <2>1. Offset(b.page, PageSize(b.size)) = 0
    <3>1. PageSize(b.size) \in Nat \ {0} /\ 1 \in Nat \ {0}
      BY <1>3, DocsTable
    <3> QED BY <1>3, <3>1, OffsetsAdvance
  <2>2. d \in MatchIn(docs, b.text)
    BY RowsInOrder
  <2>3. RankIn(docs, b, d) \in Nat
    BY <1>4, <2>2, DocsTable, RanksFall
  <2> QED BY <2>1, <2>2, <2>3
<1> QED BY <1>1, <1>2, <1>4, <1>5, DueIsComing

\* ... asks for a page, which holds the rows whose rank is in range if no two are as good
\* as each other, ...
LEMMA PagesFollowTheOrder ==
    ASSUME SearchesInv, NEW ties \in Ties, NEW first, NEW size,
           first = Offset(browsing.page, size), size = PageSize(browsing.size)
    PROVE  /\ \A d \in Search(browsing, ties) :
                d \in Matching(browsing.text) /\ first <= MaxDocs - 1
           /\ ToldApart(browsing) => Search(browsing, ties) = PageIn(docs, browsing, first, size)
<1>1. PICK b, S, T, found : /\ b = browsing /\ S = MatchIn(docs, b.text)
                            /\ found = Search(b, ties)
                            /\ T = [d \in S |-> {e \in S :
                                    \/ Earlier(docs, b.order, e, d)
                                    \/ ~Earlier(docs, b.order, d, e) /\ ties[e] < ties[d]}]
  OBVIOUS
<1>2. /\ b \in Browsing /\ docs \in Seq(Doc) /\ Len(docs) <= MaxDocs /\ MaxDocs \in Nat
      /\ b.order \in SortOrder
      /\ S = Matching(b.text) /\ S \subseteq DOMAIN docs /\ IsFiniteSet(S)
      /\ Cardinality(S) \in Nat /\ Cardinality(S) <= Len(docs) /\ Len(docs) \in Nat
      /\ DOMAIN docs = 1..Len(docs)
  BY <1>1, DocsTable, RowsInOrder, MatchingOf
<1>3. \A d \in S : Place(b, ties, d) = Cardinality(T[d])
  BY <1>1, <1>2, RowsInOrder DEF Place
<1>4. found = {d \in S : Cardinality(T[d]) \in first..(first + size - 1)}
  BY <1>1, <1>2, <1>3 DEF Search
<1>5. \A d \in DOMAIN docs : ties[d] \in DOMAIN docs /\ ~(ties[d] < ties[d])
  BY <1>2 DEF Ties
<1>6. ASSUME NEW d \in S PROVE Cardinality(T[d]) \in Nat /\ Cardinality(T[d]) <= MaxDocs - 1
  <2>1. T[d] \subseteq S /\ d \notin T[d]
    BY <1>1, <1>2, <1>5, EarlierIsAnOrder
  <2>2. IsFiniteSet(T[d]) /\ Cardinality(T[d]) \in Nat
    BY <1>2, <2>1, FS_Subset, FS_CardinalityType
  <2>3. Cardinality(T[d] \cup {d}) = Cardinality(T[d]) + 1
    BY <2>1, <2>2, FS_AddElement
  <2>4. Cardinality(T[d] \cup {d}) <= Cardinality(S)
    BY <1>2, <2>1, FS_Subset
  <2> QED BY <1>2, <2>2, <2>3, <2>4
<1>7. ASSUME NEW d \in found PROVE d \in S /\ first <= MaxDocs - 1
  <2>1. first \in Nat
    <3>1. browsing.page \in Nat \ {0} /\ size \in Nat \ {0}
      BY DocsTable
    <3> QED BY <3>1, OffsetsAdvance
  <2>2. size \in Nat
    BY DocsTable
  <2> QED BY <1>2, <1>4, <1>6, <1>7, <2>1, <2>2
<1>8. ASSUME ToldApart(b) PROVE found = PageIn(docs, b, first, size)
  <2>1. \A d \in S : T[d] = Ahead(docs, b, d)
    <3> SUFFICES ASSUME NEW d \in S, NEW e \in S
                 PROVE  (~Earlier(docs, b.order, d, e) /\ ties[e] < ties[d])
                            => Earlier(docs, b.order, e, d)
      BY <1>1 DEF Ahead
    <3>1. d = e \/ Earlier(docs, b.order, d, e) \/ Earlier(docs, b.order, e, d)
      BY <1>1, <1>8, RowsInOrder DEF Apart
    <3>2. ~(ties[d] < ties[d])
      BY <1>2, <1>5
    <3> QED BY <3>1, <3>2
  <2>2. \A d \in S : Cardinality(T[d]) = RankIn(docs, b, d)
    BY <2>1 DEF RankIn
  <2> QED BY <1>1, <1>4, <2>2 DEF PageIn
<1> QED BY <1>1, <1>2, <1>7, <1>8

\* ... and has seen what was due of it; ...
LEMMA BrowsingAdvances ==
    ASSUME SearchesInv, HandleSearch
    PROVE  browsing' \in Browsing /\ DueIsToCome'
<1>1. PICK ties \in Ties :
        browsing' = [browsing EXCEPT
            !.seen = @ \cup Search(browsing, ties),
            !.page = IF Cardinality(Search(browsing, ties)) = PageSize(browsing.size)
                     THEN @ + 1 ELSE @,
            !.on = (Cardinality(Search(browsing, ties)) = PageSize(browsing.size))]
  BY Zenon DEF HandleSearch
<1>2. PICK b, c, size, first, found, full :
            /\ b = browsing /\ c = browsing' /\ found = Search(b, ties)
            /\ size = PageSize(b.size) /\ first = Offset(b.page, size)
            /\ full = (Cardinality(found) = size)
  OBVIOUS
<1>3. b.on /\ docs' = docs /\ shaken' = (shaken \/ ~ToldApart(b))
      /\ c = [b EXCEPT !.seen = @ \cup found, !.page = IF full THEN @ + 1 ELSE @, !.on = full]
  BY <1>1, <1>2 DEF HandleSearch
<1>4. /\ b \in Browsing /\ b.on \in BOOLEAN /\ b.page \in 1..MaxDocs + 2 /\ MaxDocs \in Nat
      /\ b.seen \subseteq 1..MaxDocs /\ size \in Nat \ {0} /\ full \in BOOLEAN
      /\ docs \in Seq(Doc) /\ Matching(b.text) \subseteq 1..MaxDocs
  BY <1>2, DocsTable
<1>5. /\ first \in Nat /\ first >= b.page - 1 /\ Offset(b.page + 1, size) = first + size
  <2>1. b.page \in Nat \ {0}
    BY <1>4
  <2> QED BY <1>2, <1>4, <2>1, OffsetsAdvance
<1>6. /\ \A d \in found : d \in Matching(b.text) /\ first <= MaxDocs - 1
      /\ ToldApart(b) => found = PageIn(docs, b, first, size)
  BY <1>2, PagesFollowTheOrder
<1>7. full => b.page + 1 \in 1..MaxDocs + 2
  <2>1. full => found # {}
    BY <1>2, <1>4, FS_EmptySet
  <2> QED BY <1>4, <1>5, <1>6, <2>1
<1>8. c \in Browsing /\ c.text = b.text /\ c.order = b.order /\ c.size = b.size /\ c.due = b.due
      /\ c.seen = b.seen \cup found /\ c.page = (IF full THEN b.page + 1 ELSE b.page)
      /\ c.on = full
  <2>1. PICK seen, page : seen = b.seen \cup found /\ page = IF full THEN b.page + 1 ELSE b.page
    OBVIOUS
  <2>2. c = [b EXCEPT !.seen = seen, !.page = page, !.on = full]
    BY <1>3, <2>1
  <2>3. seen \subseteq 1..MaxDocs
    BY <1>4, <1>6, <2>1
  <2>4. page \in 1..MaxDocs + 2
    BY <1>4, <1>7, <2>1
  <2>5. /\ c \in Browsing /\ c.text = b.text /\ c.order = b.order /\ c.size = b.size
        /\ c.due = b.due /\ c.seen = seen /\ c.page = page /\ c.on = full
    BY <1>4, <2>2, <2>3, <2>4 DEF Browsing
  <2> QED BY <2>1, <2>5
<1>9. ASSUME Coming(docs, b), ToldApart(b) PROVE Coming(docs, c)
  <2>1. SUFFICES ASSUME NEW d \in b.due, d \notin c.seen
                 PROVE  /\ c.on /\ d \in MatchIn(docs, b.text)
                        /\ RankIn(docs, b, d) >= Offset(c.page, size)
    BY <1>2, <1>8 DEF Coming, RankIn, Ahead
  <2>2. d \in MatchIn(docs, b.text) /\ RankIn(docs, b, d) >= first /\ d \notin found
    BY <1>2, <1>8, <1>9, <2>1 DEF Coming
  <2>3. RankIn(docs, b, d) >= first + size
    <3>1. RankIn(docs, b, d) \in Nat
      BY <1>4, <2>2, RanksFall
    <3>2. RankIn(docs, b, d) \notin first..(first + size - 1)
      BY <1>6, <1>9, <2>2 DEF PageIn
    <3> QED BY <1>4, <1>5, <2>2, <3>1, <3>2
  <2>4. full
    <3>1. Apart(docs, b)
      BY <1>9, RowsInOrder
    <3>2. Cardinality(PageIn(docs, b, first, size)) = size
      BY <1>4, <1>5, <2>2, <2>3, <3>1, PageIsFull
    <3> QED BY <1>2, <1>6, <1>9, <3>2
  <2> QED BY <1>5, <1>8, <2>2, <2>3, <2>4
<1>10. DueIsToCome'
  <2>1. ~shaken => Coming(docs, b)
    BY <1>2, DueIsComing DEF SearchesInv
  <2> QED BY <1>2, <1>3, <1>9, <2>1, DueIsComing
<1> QED BY <1>2, <1>8, <1>10

\* ... and what the news become is no matter to him as long as his rows stay in order.
LEMMA DueStaysToCome ==
    ASSUME SearchesInv, docs' \in Seq(Doc), browsing' = browsing, ~shaken' => ~shaken,
           ~shaken' /\ browsing.on => Undisturbed(docs, docs', browsing)
    PROVE  DueIsToCome'
<1>1. PICK b, s, t : b = browsing /\ s = docs /\ t = docs'
  OBVIOUS
<1>2. /\ b \in Browsing /\ s \in Seq(Doc) /\ t \in Seq(Doc)
      /\ b.page \in Nat \ {0} /\ PageSize(b.size) \in Nat \ {0}
      /\ ~shaken => Coming(s, b)
  BY <1>1, DocsTable, DueIsComing DEF SearchesInv
<1>3. ASSUME ~shaken' PROVE Coming(t, b)
  <2> SUFFICES ASSUME NEW d \in b.due, d \notin b.seen
               PROVE  /\ b.on /\ d \in MatchIn(t, b.text)
                      /\ RankIn(t, b, d) >= Offset(b.page, PageSize(b.size))
    BY DEF Coming
  <2>1. b.on /\ d \in MatchIn(s, b.text) /\ RankIn(s, b, d) >= Offset(b.page, PageSize(b.size))
    BY <1>2, <1>3 DEF Coming
  <2>2. d \in MatchIn(t, b.text) /\ RankIn(t, b, d) >= RankIn(s, b, d)
    BY <1>1, <1>2, <1>3, <2>1, RanksOnlyRise
  <2>3. /\ RankIn(s, b, d) \in Nat /\ RankIn(t, b, d) \in Nat
        /\ Offset(b.page, PageSize(b.size)) \in Nat
    BY <1>2, <2>1, <2>2, RanksFall, OffsetsAdvance
  <2> QED BY <2>1, <2>2, <2>3
<1> QED BY <1>1, <1>3, DueIsComing

\* A row is inserted; ...
LEMMA DocIsNew ==
    ASSUME SearchesInv, begun + 1 \in 0..MaxRequests, NEW match \in BOOLEAN,
           NEW key \in SortKeys, NewDoc(match, key)
    PROVE  /\ docs' \in Seq(Doc) /\ Len(docs') <= MaxDocs /\ shaken' \in BOOLEAN
           /\ browsing' = browsing /\ DueIsToCome'
<1>1. PICK s, doc : /\ s = docs
                    /\ doc = [match |-> match, key |-> key, updated |-> begun + 1,
                              deleted |-> FALSE]
  OBVIOUS
<1>2. /\ s \in Seq(Doc) /\ Len(s) \in Nat /\ Len(s) < MaxDocs /\ MaxDocs \in Nat
      /\ docs' = Append(s, doc) /\ shaken' = shaken /\ shaken \in BOOLEAN
      /\ browsing' = browsing
  BY <1>1, DocsTable DEF NewDoc
<1>3. doc \in Doc
  BY <1>1 DEF Doc
<1>4. /\ docs' \in Seq(Doc) /\ Len(docs') = Len(s) + 1 /\ DOMAIN s \subseteq DOMAIN docs'
      /\ \A m \in DOMAIN s : docs'[m] = s[m]
  BY <1>2, <1>3, LongerSequence
<1>5. Undisturbed(s, docs', browsing)
  BY <1>4 DEF Undisturbed, MatchIn
<1> QED BY <1>1, <1>2, <1>4, <1>5, DueStaysToCome

\* ... or one is changed, and it is known if that is felt.
LEMMA DocIsChanged ==
    ASSUME SearchesInv, NEW i \in DOMAIN docs, NEW new \in Doc, ChangeDoc(i, new)
    PROVE  /\ docs' \in Seq(Doc) /\ Len(docs') <= MaxDocs /\ shaken' \in BOOLEAN
           /\ browsing' = browsing /\ DueIsToCome'
<1>1. PICK s, b : s = docs /\ b = browsing
  OBVIOUS
<1>2. /\ s \in Seq(Doc) /\ Len(s) <= MaxDocs /\ i \in DOMAIN s
      /\ docs' = [s EXCEPT ![i] = new] /\ shaken' = (shaken \/ Displaced(b, i, new))
      /\ browsing' = b /\ shaken \in BOOLEAN
  BY <1>1, DocsTable DEF ChangeDoc
<1>3. /\ docs' \in Seq(Doc) /\ Len(docs') = Len(s) /\ DOMAIN docs' = DOMAIN s
      /\ docs'[i] = new /\ \A m \in DOMAIN s : m # i => docs'[m] = s[m]
  BY <1>2, RowOfASequence
<1>4. ASSUME ~Displaced(b, i, new), b.on PROVE Undisturbed(s, docs', b)
  <2>1. i \in MatchIn(s, b.text) =>
            /\ ~new.deleted /\ (b.text => new.match)
            /\ b.order.by \in {"rank", "title"} => new.key = s[i].key
            /\ b.order.by # "updated"
    BY <1>1, <1>4, RowsInOrder DEF Displaced, BuildTSQuery
  <2> QED BY <1>3, <2>1 DEF Undisturbed, MatchIn
<1>5. shaken' \in BOOLEAN
  BY <1>2 DEF Displaced
<1> QED BY <1>1, <1>2, <1>3, <1>4, <1>5, DueStaysToCome

\* So it is whatever becomes of the news.
LEMMA DocsChange ==
    ASSUME SearchesInv,
           \/ \E match \in BOOLEAN, key \in SortKeys :
                NewDoc(match, key) \/ \E i \in DOMAIN docs : EditDoc(i, match, key)
           \/ \E i \in DOMAIN docs : DropDoc(i)
    PROVE  /\ docs' \in Seq(Doc) /\ Len(docs') <= MaxDocs /\ shaken' \in BOOLEAN
           /\ browsing' = browsing /\ DueIsToCome'
<1>1. begun \in 0..MaxRequests /\ MaxRequests \in Nat
  BY RequestBoundsAssumption DEF SearchesInv, SearchesTypeOK, RequestsAre
<1>2. Serve => begun + 1 \in 0..MaxRequests
  BY <1>1 DEF Serve
<1>3. ASSUME NEW match \in BOOLEAN, NEW key \in SortKeys, NewDoc(match, key)
      PROVE  /\ docs' \in Seq(Doc) /\ Len(docs') <= MaxDocs /\ shaken' \in BOOLEAN
             /\ browsing' = browsing /\ DueIsToCome'
  <2>1. begun + 1 \in 0..MaxRequests
    BY <1>2, <1>3 DEF NewDoc
  <2> QED BY <1>3, <2>1, DocIsNew
<1>4. ASSUME NEW match \in BOOLEAN, NEW key \in SortKeys, NEW i \in DOMAIN docs,
             EditDoc(i, match, key)
      PROVE  /\ docs' \in Seq(Doc) /\ Len(docs') <= MaxDocs /\ shaken' \in BOOLEAN
             /\ browsing' = browsing /\ DueIsToCome'
  <2>1. PICK new : new = [match |-> match, key |-> key, updated |-> begun + 1, deleted |-> FALSE]
    OBVIOUS
  <2>2. ChangeDoc(i, new)
    BY <1>4, <2>1 DEF EditDoc
  <2>3. begun + 1 \in 0..MaxRequests
    BY <1>2, <2>2 DEF ChangeDoc
  <2>4. new \in Doc
    BY <2>1, <2>3 DEF Doc
  <2> QED BY <2>2, <2>4, DocIsChanged
<1>5. ASSUME NEW i \in DOMAIN docs, DropDoc(i)
      PROVE  /\ docs' \in Seq(Doc) /\ Len(docs') <= MaxDocs /\ shaken' \in BOOLEAN
             /\ browsing' = browsing /\ DueIsToCome'
  <2>1. PICK row, new : row = docs[i] /\ new = [row EXCEPT !.deleted = TRUE]
    OBVIOUS
  <2>2. ChangeDoc(i, new)
    BY <1>5, <2>1 DEF DropDoc
  <2>3. row \in Doc
    BY <2>1, DocsTable
  <2>4. new \in Doc
    BY <2>1, <2>3 DEF Doc
  <2> QED BY <2>2, <2>4, DocIsChanged
<1> QED BY <1>3, <1>4, <1>5

\* A saved search of the same user, and a request of the same user about the same one.
SameSaved(x, y) == x \in SavedSearch /\ x.user = y.user
SameSaving(x, y) ==
    x \in SavedSearchRequest /\ x.user = y.user /\ x.id = y.id /\ x.query = y.query

\* The fields of a row, and what is set of them.
LEMMA SavedIsTyped ==
    ASSUME NEW row \in SavedSearch
    PROVE  /\ row.user \in Searchers /\ row.query \in 0..MaxRequests /\ row.deleted \in BOOLEAN
           /\ \A n \in 0..MaxRequests : /\ SameSaved([row EXCEPT !.query = n], row)
                                        /\ [row EXCEPT !.query = n].deleted = row.deleted
           /\ SameSaved([row EXCEPT !.deleted = TRUE], row)
           /\ [row EXCEPT !.deleted = TRUE].deleted
BY DEF SavedSearch, SameSaved

\* What a request is made of, ...
LEMMA SavingIsTyped ==
    /\ Idle \notin SavedSearchRequest /\ Idle.pc = "idle"
    /\ \A q \in SavedSearchRequest :
        /\ q.pc \in {"limit", "insert", "change", "save", "own", "drop"} /\ q.user \in Searchers
        /\ q.id \in 0..MaxRows /\ q.query \in 1..MaxRequests /\ q.copy \in Seq(SavedSearch)
BY DEF Idle, SavedSearchRequest

\* ... and becomes.
LEMMA SavingGoesTo ==
    ASSUME NEW q \in SavedSearchRequest, NEW label \in {"insert", "drop"}
    PROVE  LET x == [q EXCEPT !.pc = label]
           IN  SameSaving(x, q) /\ x.pc = label
BY DEF SavedSearchRequest, SameSaving

\* A handler begins with such a request.
LEMMA SavedCallIsTyped ==
    ASSUME begun + 1 \in 1..MaxRequests, NEW label \in {"limit", "change", "own"},
           NEW u \in Searchers, NEW s \in 0..MaxRows
    PROVE  LET x == SavedCall(label, u, s)
           IN  x \in SavedSearchRequest /\ x.pc = label /\ x.user = u /\ x.id = s
<1>1. <<>> \in Seq(SavedSearch)
  OBVIOUS
<1> QED BY <1>1 DEF SavedSearchRequest, SavedCall

\* Request r begins as q, ...
SavedBegun(r, q) ==
    /\ At(r, "idle") /\ q \in SavedSearchRequest /\ q.pc \in {"limit", "change", "own"}
    /\ Share(r, q.user) /\ saved' = saved /\ remembered' = remembered

\* ... or it goes on, or ends, and changes no row, ...
SavedGoOn(r, q) ==
    /\ q = Idle \/ (~At(r, "idle") /\ q.user = req[r].user)
    /\ saved' = saved /\ remembered' = remembered /\ shared' = shared

\* ... or it ends with a new row, ...
SavedAdded(r, row) ==
    /\ At(r, "insert") /\ row \in SavedSearch /\ row.user = req[r].user
    /\ Len(saved) < MaxRows
    /\ saved' = Append(saved, row) /\ remembered' = Append(remembered, row)
    /\ shared' = shared

\* ... or with one it has written.
SavedWritten(r, s, row, want) ==
    /\ ~At(r, "idle") /\ s \in DOMAIN saved /\ saved[s].user = req[r].user
    /\ SameSaved(row, saved[s]) /\ want \in SavedSearch
    /\ req[r].user \in shared \/ (row = want /\ (row.deleted \/ ~saved[s].deleted))
    /\ saved' = [saved EXCEPT ![s] = row] /\ remembered' = [remembered EXCEPT ![s] = want]
    /\ shared' = shared

SavedStep(r, q) ==
    /\ q \in SavedSearchRequest \cup {Idle} /\ KnowsItsSearch(q)
    /\ req' = [req EXCEPT ![r] = q]
    /\ begun' \in 0..MaxRequests /\ faults' \in 0..MaxFaults
    /\ UNCHANGED <<docs, shaken, browsing>>
    /\ \/ SavedBegun(r, q) \/ SavedGoOn(r, q)
       \/ q = Idle /\ \E row : SavedAdded(r, row)
       \/ q = Idle /\ \E s, row, want : SavedWritten(r, s, row, want)

\* What the invariant says of the table, ...
LEMMA SavedTable ==
    ASSUME SearchesInv
    PROVE  /\ begun \in 0..MaxRequests /\ faults \in 0..MaxFaults
           /\ MaxRequests \in Nat /\ MaxFaults \in Nat /\ MaxRows \in Nat /\ MaxSaved \in Nat
           /\ req \in [Slots -> SavedSearchRequest \cup {Idle}]
           /\ saved \in Seq(SavedSearch) /\ remembered \in Seq(SavedSearch)
           /\ Len(remembered) = Len(saved) /\ Len(saved) \in Nat /\ Len(saved) <= MaxRows
           /\ DOMAIN saved = 1..Len(saved) /\ DOMAIN remembered = DOMAIN saved
           /\ DOMAIN saved \subseteq 0..MaxRows
           /\ \A s \in DOMAIN saved : saved[s] \in SavedSearch /\ remembered[s] \in SavedSearch
           /\ shared \subseteq Searchers
           /\ \A u : /\ IsFiniteSet(SavedSearch_FindByUserID(u))
                     /\ Cardinality(SavedSearch_FindByUserID(u)) \in Nat
<1>1. /\ begun \in 0..MaxRequests /\ faults \in 0..MaxFaults
      /\ MaxRequests \in Nat /\ MaxFaults \in Nat /\ MaxRows \in Nat /\ MaxSaved \in Nat
      /\ req \in [Slots -> SavedSearchRequest \cup {Idle}]
      /\ saved \in Seq(SavedSearch) /\ remembered \in Seq(SavedSearch)
      /\ Len(remembered) = Len(saved) /\ Len(saved) <= MaxRows /\ shared \subseteq Searchers
  BY RequestBoundsAssumption, RowsAssumption DEF SearchesInv, SearchesTypeOK, RequestsAre
<1>2. /\ Len(saved) \in Nat /\ DOMAIN saved = 1..Len(saved) /\ DOMAIN remembered = DOMAIN saved
  BY <1>1
<1>3. DOMAIN saved \subseteq 0..MaxRows
  BY <1>1, <1>2
<1>4. \A s \in DOMAIN saved : saved[s] \in SavedSearch /\ remembered[s] \in SavedSearch
  BY <1>1, <1>2
<1>5. ASSUME NEW u
      PROVE  /\ IsFiniteSet(SavedSearch_FindByUserID(u))
             /\ Cardinality(SavedSearch_FindByUserID(u)) \in Nat
  <2>1. IsFiniteSet(DOMAIN saved)
    BY <1>2, FS_Interval
  <2>2. SavedSearch_FindByUserID(u) \subseteq DOMAIN saved
    BY DEF SavedSearch_FindByUserID
  <2> QED BY <2>1, <2>2, FS_Subset, FS_CardinalityType
<1> QED BY <1>1, <1>2, <1>3, <1>4, <1>5

\* ... and of the request in a slot.
LEMMA SavedInSlot ==
    ASSUME SearchesInv, NEW r \in Slots, ~At(r, "idle")
    PROVE  \E q \in SavedSearchRequest : q = req[r] /\ KnowsItsSearch(q)
<1>1. req[r] \in SavedSearchRequest \cup {Idle} /\ KnowsItsSearch(req[r])
  BY DEF SearchesInv, SearchesTypeOK, RequestsAre
<1> QED BY <1>1 DEF At, Idle

\* A request that ends knows nothing.
LEMMA IdleKnowsNoSearch == KnowsItsSearch(Idle) /\ Idle.pc = "idle"
BY DEF KnowsItsSearch, Idle

\* A request goes on, ...
LEMMA SavedGoesOn ==
    ASSUME SearchesInv, NEW r \in Slots, ~At(r, "idle"), UNCHANGED searchVars,
           NEW q \in SavedSearchRequest, q.user = req[r].user, KnowsItsSearch(q), Become(r, q)
    PROVE  \E x : SavedStep(r, x)
BY SavedTable DEF SavedStep, SavedGoOn, Become, searchVars

\* ... or it ends.
LEMMA SavedEnds ==
    ASSUME SearchesInv, NEW r \in Slots, UNCHANGED searchVars, Finish(r) \/ Abort(r)
    PROVE  \E x : SavedStep(r, x)
<1>1. /\ req' = [req EXCEPT ![r] = Idle] /\ begun' \in 0..MaxRequests
      /\ faults' \in 0..MaxFaults
  BY SavedTable DEF Finish, Become, Abort, Stumble
<1> QED BY <1>1, IdleKnowsNoSearch DEF SavedStep, SavedGoOn, searchVars

\* The handlers.
LEMMA HandlersBeginSearches ==
    ASSUME SearchesInv, NEW r \in Slots, SearchHandlers(r)
    PROVE  \E q : SavedStep(r, q)
<1>1. ASSUME NEW label \in {"limit", "change", "own"}, NEW u \in Searchers, NEW s \in 0..MaxRows,
             label = "limit" \/ s \in DOMAIN saved, Begin(r, SavedCall(label, u, s)),
             Share(r, u), UNCHANGED <<docs, shaken, browsing, saved, remembered>>
      PROVE  \E x : SavedStep(r, x)
  <2>1. PICK q : q = SavedCall(label, u, s)
    OBVIOUS
  <2>2. /\ begun + 1 \in 1..MaxRequests /\ begun' \in 0..MaxRequests /\ faults' \in 0..MaxFaults
        /\ req' = [req EXCEPT ![r] = q] /\ At(r, "idle")
    BY <1>1, <2>1, SavedTable DEF Begin
  <2>3. q \in SavedSearchRequest /\ q.pc = label /\ q.user = u /\ q.id = s
    BY <2>1, <2>2, SavedCallIsTyped
  <2>4. KnowsItsSearch(q)
    BY <1>1, <2>3 DEF KnowsItsSearch
  <2>5. SavedBegun(r, q)
    BY <1>1, <2>2, <2>3 DEF SavedBegun
  <2> QED BY <1>1, <2>2, <2>3, <2>4, <2>5 DEF SavedStep
<1>2. DOMAIN saved \subseteq 0..MaxRows /\ 0 \in 0..MaxRows
  BY SavedTable
<1>3. ASSUME NEW u \in Searchers, HandleCreateSavedSearch(r, u) PROVE \E x : SavedStep(r, x)
  BY <1>1, <1>2, <1>3 DEF HandleCreateSavedSearch
<1>4. ASSUME NEW u \in Searchers, NEW s \in DOMAIN saved, HandleUpdateSavedSearch(r, u, s)
      PROVE  \E x : SavedStep(r, x)
  BY <1>1, <1>2, <1>4 DEF HandleUpdateSavedSearch
<1>5. ASSUME NEW u \in Searchers, NEW s \in DOMAIN saved, HandleDeleteSavedSearch(r, u, s)
      PROVE  \E x : SavedStep(r, x)
  BY <1>1, <1>2, <1>5 DEF HandleDeleteSavedSearch
<1> QED BY <1>3, <1>4, <1>5 DEF SearchHandlers

\* A search is counted and inserted, ...
LEMMA CreatesSearch ==
    ASSUME SearchesInv, NEW r \in Slots, CreateSavedSearch(r) \/ InsertSavedSearch(r)
    PROVE  \E q : SavedStep(r, q)
<1>1. PICK p \in SavedSearchRequest :
            p = req[r] /\ KnowsItsSearch(p) /\ p.pc \in {"limit", "insert"} /\ ~At(r, "idle")
  BY SavedInSlot DEF CreateSavedSearch, InsertSavedSearch, At
<1>2. CASE CreateSavedSearch(r)
  <2>1. UNCHANGED searchVars
    BY <1>2 DEF CreateSavedSearch
  <2>2. CASE Finish(r)
    BY <2>1, <2>2, SavedEnds
  <2>3. CASE ~SavedFull(p.user) /\ Goto(r, "insert")
    <3>1. PICK q : q = [p EXCEPT !.pc = "insert"]
      OBVIOUS
    <3>2. SameSaving(q, p) /\ q.pc = "insert"
      BY <3>1, SavingGoesTo
    <3>3. Cardinality(SavedSearch_FindByUserID(p.user)) < MaxSaved
      BY <2>3, SavedTable DEF SavedFull
    <3>4. KnowsItsSearch(q)
      BY <3>2, <3>3 DEF KnowsItsSearch, SameSaving
    <3> QED BY <1>1, <2>1, <2>3, <3>1, <3>2, <3>4, SavedGoesOn DEF Goto, SameSaving
  <2> QED BY <1>1, <1>2, <2>2, <2>3 DEF CreateSavedSearch
<1>3. CASE InsertSavedSearch(r)
  <2>1. PICK row : row = [user |-> p.user, query |-> p.query, deleted |-> FALSE]
    OBVIOUS
  <2>2. row \in SavedSearch /\ row.user = p.user
    <3>1. p.user \in Searchers /\ p.query \in 0..MaxRequests
      BY SavingIsTyped
    <3> QED BY <2>1, <3>1 DEF SavedSearch
  <2>3. /\ At(r, "insert") /\ Len(saved) < MaxRows /\ Finish(r) /\ shared' = shared
        /\ saved' = Append(saved, row) /\ remembered' = Append(remembered, row)
        /\ UNCHANGED <<docs, shaken, browsing>>
    BY <1>1, <1>3, <2>1 DEF InsertSavedSearch
  <2>4. SavedAdded(r, row)
    BY <1>1, <2>2, <2>3 DEF SavedAdded
  <2> QED BY <2>3, <2>4, SavedTable, IdleKnowsNoSearch DEF SavedStep, Finish, Become
<1> QED BY <1>2, <1>3

\* ... looked up by its owner, ...
LEMMA LooksSearchUp ==
    ASSUME SearchesInv, NEW r \in Slots, UpdateSavedSearch(r) \/ DeleteSavedSearch(r)
    PROVE  \E q : SavedStep(r, q)
<1>1. PICK p \in SavedSearchRequest :
            p = req[r] /\ KnowsItsSearch(p) /\ p.pc \in {"change", "own"} /\ ~At(r, "idle")
  BY SavedInSlot DEF UpdateSavedSearch, DeleteSavedSearch, At
<1>2. UNCHANGED searchVars
  BY DEF UpdateSavedSearch, DeleteSavedSearch
<1>3. CASE Finish(r)
  BY <1>2, <1>3, SavedEnds
<1>4. ASSUME NEW q, SameSaving(q, p), Become(r, q), KnowsItsSearch(q) PROVE \E x : SavedStep(r, x)
  BY <1>1, <1>2, <1>4, SavedGoesOn DEF SameSaving
<1>5. CASE OwnSaved(p.user, p.id) /\ Become(r, [p EXCEPT !.pc = "save", !.copy = <<saved[p.id]>>])
  <2>1. PICK row : row = saved[p.id]
    OBVIOUS
  <2>2. PICK q : q = [p EXCEPT !.pc = "save", !.copy = <<row>>]
    OBVIOUS
  <2>3. p.id \in DOMAIN saved /\ row.user = p.user /\ row \in SavedSearch
    BY <1>5, <2>1, SavedTable DEF OwnSaved, SavedSearch_FindByID
  <2>4. SameSaving(q, p) /\ q.pc = "save" /\ q.copy # <<>> /\ q.copy[1] = row
    <3>1. <<row>> \in Seq(SavedSearch) /\ <<row>> # <<>> /\ <<row>>[1] = row
      BY <2>3
    <3> QED BY <2>2, <3>1 DEF SavedSearchRequest, SameSaving
  <2>5. KnowsItsSearch(q)
    BY <2>1, <2>3, <2>4 DEF KnowsItsSearch, SameSaving
  <2> QED BY <1>4, <1>5, <2>1, <2>2, <2>4, <2>5
<1>6. CASE OwnSaved(p.user, p.id) /\ Goto(r, "drop")
  <2>1. PICK q : q = [p EXCEPT !.pc = "drop"]
    OBVIOUS
  <2>2. SameSaving(q, p) /\ q.pc = "drop"
    BY <2>1, SavingGoesTo
  <2>3. KnowsItsSearch(q)
    BY <1>6, <2>2 DEF KnowsItsSearch, SameSaving, OwnSaved, SavedSearch_FindByID
  <2> QED BY <1>1, <1>4, <1>6, <2>1, <2>2, <2>3 DEF Goto
<1> QED BY <1>1, <1>3, <1>5, <1>6 DEF UpdateSavedSearch, DeleteSavedSearch

\* ... and saved or deleted.
LEMMA SavesSearch ==
    ASSUME SearchesInv, NEW r \in Slots, SaveSavedSearch(r) \/ SoftDeleteSavedSearch(r)
    PROVE  \E q : SavedStep(r, q)
<1>1. PICK p \in SavedSearchRequest :
            p = req[r] /\ KnowsItsSearch(p) /\ p.pc \in {"save", "drop"} /\ ~At(r, "idle")
  BY SavedInSlot DEF SaveSavedSearch, SoftDeleteSavedSearch, At
<1>2. PICK s, old, expected : s = p.id /\ old = saved[s] /\ expected = remembered[s]
  OBVIOUS
<1>3. /\ s \in DOMAIN saved /\ old \in SavedSearch /\ expected \in SavedSearch
      /\ old.user = p.user /\ p.query \in 0..MaxRequests
      /\ p.user \in shared \/ old = expected
  <2>1. s \in DOMAIN saved /\ old.user = p.user
    BY <1>1, <1>2 DEF KnowsItsSearch
  <2>2. p.user \in Searchers /\ p.query \in 0..MaxRequests
    BY SavingIsTyped
  <2>3. p.user \in shared \/ old = expected
    BY <1>2, <2>1, <2>2 DEF SearchesInv, SavedAreKept
  <2> QED BY <1>2, <2>1, <2>2, <2>3, SavedTable
<1>4. ASSUME NEW row, NEW want, SavedWritten(r, s, row, want), Finish(r),
             UNCHANGED <<docs, shaken, browsing>>
      PROVE  \E q : SavedStep(r, q)
  BY <1>4, SavedTable, IdleKnowsNoSearch DEF SavedStep, Finish, Become
<1>5. CASE SaveSavedSearch(r)
  <2>1. PICK copy : copy = p.copy[1]
    OBVIOUS
  <2>2. /\ p.pc = "save" /\ Finish(r) /\ shared' = shared /\ UNCHANGED <<docs, shaken, browsing>>
    BY <1>1, <1>5 DEF SaveSavedSearch, At
  <2>3. copy \in SavedSearch /\ copy.user = p.user /\ (p.user \in shared \/ copy = old)
    <3>1. p.copy \in Seq(SavedSearch) /\ p.copy # <<>>
      BY <1>1, <2>2, SavingIsTyped DEF KnowsItsSearch
    <3>2. copy \in SavedSearch
      BY <2>1, <3>1
    <3> QED BY <1>1, <1>2, <2>1, <2>2, <3>2 DEF KnowsItsSearch
  <2>4. PICK row, want : /\ row = [copy EXCEPT !.query = p.query]
                         /\ want = [expected EXCEPT !.query = p.query]
    OBVIOUS
  <2>5. /\ SameSaved(row, copy) /\ row.deleted = copy.deleted /\ want \in SavedSearch
    <3>1. SameSaved(row, copy) /\ row.deleted = copy.deleted
      BY <1>3, <2>3, <2>4 DEF SavedSearch, SameSaved
    <3>2. want \in SavedSearch
      BY <1>3, <2>4 DEF SavedSearch
    <3> QED BY <3>1, <3>2
  <2>6. /\ saved' = [saved EXCEPT ![s] = row] /\ remembered' = [remembered EXCEPT ![s] = want]
    BY <1>1, <1>2, <1>5, <2>1, <2>4 DEF SaveSavedSearch, SavedSearch_Update
  <2>7. p.user \in shared \/ (row = want /\ (row.deleted \/ ~old.deleted))
    BY <1>3, <2>3, <2>4, <2>5
  <2>8. SavedWritten(r, s, row, want)
    BY <1>1, <1>2, <1>3, <2>2, <2>3, <2>5, <2>6, <2>7 DEF SavedWritten, SameSaved
  <2> QED BY <1>4, <2>2, <2>8
<1>6. CASE SoftDeleteSavedSearch(r)
  <2>1. /\ Finish(r) /\ shared' = shared /\ UNCHANGED <<docs, shaken, browsing>>
    BY <1>6 DEF SoftDeleteSavedSearch
  <2>2. CASE ~SavedSearch_FindByID(s)
    <3>1. UNCHANGED searchVars
      BY <1>1, <1>2, <1>6, <2>1, <2>2 DEF SoftDeleteSavedSearch, searchVars
    <3> QED BY <2>1, <3>1, SavedEnds
  <2>3. CASE SavedSearch_FindByID(s)
    <3>1. PICK row, want : /\ row = [old EXCEPT !.deleted = TRUE]
                           /\ want = [expected EXCEPT !.deleted = TRUE]
      OBVIOUS
    <3>2. SameSaved(row, old) /\ row.deleted /\ want \in SavedSearch
      BY <1>3, <3>1, SavedIsTyped DEF SameSaved
    <3>3. saved' = [saved EXCEPT ![s] = row] /\ remembered' = [remembered EXCEPT ![s] = want]
      BY <1>1, <1>2, <1>6, <2>3, <3>1 DEF SoftDeleteSavedSearch, SavedSearch_Update
    <3>4. SavedWritten(r, s, row, want)
      BY <1>1, <1>2, <1>3, <2>1, <3>1, <3>2, <3>3 DEF SavedWritten
    <3> QED BY <1>4, <2>1, <3>4
  <2> QED BY <2>2, <2>3
<1> QED BY <1>5, <1>6

\* Every statement of a request is a step of these.
LEMMA SavedSteps ==
    ASSUME SearchesInv, NEW r \in Slots,
           \/ SearchHandlers(r)
           \/ CreateSavedSearch(r) \/ InsertSavedSearch(r)
           \/ UpdateSavedSearch(r) \/ SaveSavedSearch(r)
           \/ DeleteSavedSearch(r) \/ SoftDeleteSavedSearch(r)
           \/ Abort(r) /\ UNCHANGED searchVars
    PROVE  \E q : SavedStep(r, q)
BY HandlersBeginSearches, CreatesSearch, LooksSearchUp, SavesSearch, SavedEnds

\* Who overlaps with a request of his own is known.
LEMMA SharesAfter ==
    ASSUME SearchesInv, NEW r \in Slots, NEW q, SavedStep(r, q)
    PROVE  shared \subseteq shared' /\ shared' \subseteq Searchers /\ SharingIsKnown'
<1>1. /\ shared \subseteq shared' /\ shared' \subseteq Searchers
      /\ q # Idle =>
            \A s \in Others(r) : ~At(s, "idle") /\ req[s].user = q.user => q.user \in shared'
  <2>1. CASE SavedBegun(r, q)
    <3>1. q.user \in Searchers
      BY <2>1, SavingIsTyped DEF SavedBegun
    <3> QED BY <2>1, <3>1, SavedTable DEF SavedBegun, Share
  <2>2. CASE SavedGoOn(r, q)
    BY <2>2, SavedTable DEF SavedGoOn, SearchesInv, SharingIsKnown, Others
  <2>3. CASE q = Idle
    <3>1. ~SavedBegun(r, q)
      BY <2>3, SavingIsTyped DEF SavedBegun
    <3> QED BY <2>3, <3>1, SavedTable DEF SavedStep, SavedGoOn, SavedAdded, SavedWritten
  <2> QED BY <2>1, <2>2, <2>3 DEF SavedStep
<1>2. req' = [req EXCEPT ![r] = q] /\ req \in [Slots -> SavedSearchRequest \cup {Idle}]
  BY SavedTable DEF SavedStep
<1>3. SharingIsKnown'
  <2> SUFFICES ASSUME NEW x \in Slots, NEW y \in Slots, x # y, ~At(x, "idle")', ~At(y, "idle")',
                      req'[x].user = req'[y].user
               PROVE  req'[x].user \in shared'
    BY DEF SharingIsKnown
  <2>1. CASE x = r
    <3>1. req'[x] = q /\ q # Idle /\ req'[y] = req[y] /\ ~At(y, "idle") /\ y \in Others(r)
      BY <1>2, <2>1, SavingIsTyped DEF At, Others
    <3> QED BY <1>1, <3>1
  <2>2. CASE y = r
    <3>1. req'[y] = q /\ q # Idle /\ req'[x] = req[x] /\ ~At(x, "idle") /\ x \in Others(r)
      BY <1>2, <2>2, SavingIsTyped DEF At, Others
    <3> QED BY <1>1, <3>1
  <2>3. CASE x # r /\ y # r
    <3>1. req'[x] = req[x] /\ req'[y] = req[y] /\ ~At(x, "idle") /\ ~At(y, "idle")
      BY <1>2, <2>3 DEF At
    <3> QED BY <1>1, <3>1 DEF SearchesInv, SharingIsKnown
  <2> QED BY <2>1, <2>2, <2>3
<1> QED BY <1>1, <1>3

\* The tables keep their types, rows their owners, and what the user was told.
LEMMA SavedRowsAfter ==
    ASSUME SearchesInv, NEW r \in Slots, NEW q, SavedStep(r, q)
    PROVE  /\ saved' \in Seq(SavedSearch) /\ remembered' \in Seq(SavedSearch)
           /\ Len(saved') <= MaxRows /\ Len(remembered') = Len(saved')
           /\ \A s \in DOMAIN saved : s \in DOMAIN saved' /\ saved'[s].user = saved[s].user
           /\ \A u \in Searchers \ shared' : \A s \in DOMAIN saved' :
                saved'[s].user = u => saved'[s] = remembered'[s]
<1>0. \A u \in Searchers \ shared' : \A s \in DOMAIN saved :
        saved[s].user = u => saved[s] = remembered[s]
  BY SharesAfter DEF SearchesInv, SavedAreKept
<1>1. CASE saved' = saved /\ remembered' = remembered
  <2>1. \A u \in Searchers \ shared' : \A s \in DOMAIN saved' :
            saved'[s].user = u => saved'[s] = remembered'[s]
    BY <1>0, <1>1
  <2> QED BY <1>1, <2>1, SavedTable
<1>2. ASSUME NEW row, SavedAdded(r, row)
      PROVE  /\ saved' \in Seq(SavedSearch) /\ remembered' \in Seq(SavedSearch)
             /\ Len(saved') <= MaxRows /\ Len(remembered') = Len(saved')
             /\ \A s \in DOMAIN saved : s \in DOMAIN saved' /\ saved'[s].user = saved[s].user
             /\ \A u \in Searchers \ shared' : \A s \in DOMAIN saved' :
                    saved'[s].user = u => saved'[s] = remembered'[s]
  <2>1. PICK new : new = Len(saved) + 1
    OBVIOUS
  <2>2. /\ saved' \in Seq(SavedSearch) /\ Len(saved') = new
        /\ DOMAIN saved' = DOMAIN saved \cup {new} /\ new \notin DOMAIN saved
        /\ saved'[new] = row /\ \A m \in DOMAIN saved : saved'[m] = saved[m]
    BY <1>2, <2>1, SavedTable, LongerSequence DEF SavedAdded
  <2>3. /\ remembered' \in Seq(SavedSearch) /\ Len(remembered') = new
        /\ remembered'[new] = row /\ \A m \in DOMAIN saved : remembered'[m] = remembered[m]
    BY <1>2, <2>1, SavedTable, LongerSequence DEF SavedAdded
  <2>4. new <= MaxRows
    BY <1>2, <2>1, SavedTable DEF SavedAdded
  <2>5. \A s \in DOMAIN saved : s \in DOMAIN saved' /\ saved'[s].user = saved[s].user
    BY <2>2
  <2>6. \A u \in Searchers \ shared' : \A s \in DOMAIN saved' :
            saved'[s].user = u => saved'[s] = remembered'[s]
    BY <1>0, <2>2, <2>3
  <2> QED BY <2>2, <2>3, <2>4, <2>5, <2>6
<1>3. ASSUME NEW n, NEW row, NEW want, SavedWritten(r, n, row, want)
      PROVE  /\ saved' \in Seq(SavedSearch) /\ remembered' \in Seq(SavedSearch)
             /\ Len(saved') <= MaxRows /\ Len(remembered') = Len(saved')
             /\ \A s \in DOMAIN saved : s \in DOMAIN saved' /\ saved'[s].user = saved[s].user
             /\ \A u \in Searchers \ shared' : \A s \in DOMAIN saved' :
                    saved'[s].user = u => saved'[s] = remembered'[s]
  <2>1. /\ n \in DOMAIN saved /\ row \in SavedSearch /\ want \in SavedSearch
        /\ row.user = saved[n].user /\ shared' = shared /\ saved[n].user = req[r].user
        /\ req[r].user \in shared \/ row = want
    BY <1>3 DEF SavedWritten, SameSaved
  <2>2. /\ saved' \in Seq(SavedSearch) /\ Len(saved') = Len(saved)
        /\ DOMAIN saved' = DOMAIN saved /\ saved'[n] = row
        /\ \A m \in DOMAIN saved : m # n => saved'[m] = saved[m]
    BY <1>3, <2>1, SavedTable, RowOfASequence DEF SavedWritten
  <2>3. /\ remembered' \in Seq(SavedSearch) /\ Len(remembered') = Len(saved)
        /\ remembered'[n] = want
        /\ \A m \in DOMAIN saved : m # n => remembered'[m] = remembered[m]
    BY <1>3, <2>1, SavedTable, RowOfASequence DEF SavedWritten
  <2>4. \A s \in DOMAIN saved : s \in DOMAIN saved' /\ saved'[s].user = saved[s].user
    BY <2>1, <2>2
  <2>5. \A u \in Searchers \ shared' : \A s \in DOMAIN saved' :
            saved'[s].user = u => saved'[s] = remembered'[s]
    BY <1>0, <2>1, <2>2, <2>3
  <2> QED BY <2>2, <2>3, <2>4, <2>5, SavedTable
<1> QED BY <1>1, <1>2, <1>3 DEF SavedStep, SavedBegun, SavedGoOn

\* Of a user who is served once at a time a list grows only by the row he had room for, and
\* only his own request touches his rows.
LEMMA ListsAfter ==
    ASSUME SearchesInv, NEW r \in Slots, NEW q, SavedStep(r, q), NEW u \in Searchers \ shared'
    PROVE  \/ /\ SavedSearch_FindByUserID(u)' \subseteq SavedSearch_FindByUserID(u)
              /\ \A s \in DOMAIN saved : saved[s].user = u => saved'[s] = saved[s]
           \/ /\ ~At(r, "idle") /\ req[r].user = u /\ q = Idle
              /\ \/ SavedSearch_FindByUserID(u)' \subseteq SavedSearch_FindByUserID(u)
                 \/ /\ Cardinality(SavedSearch_FindByUserID(u)) < MaxSaved
                    /\ \E new : SavedSearch_FindByUserID(u)'
                                    = SavedSearch_FindByUserID(u) \cup {new}
<1>0. u \notin shared
  BY SharesAfter
<1>1. PICK F, G : F = SavedSearch_FindByUserID(u) /\ G = SavedSearch_FindByUserID(u)'
  OBVIOUS
<1>2. /\ F = {s \in DOMAIN saved : saved[s].user = u /\ ~saved[s].deleted}
      /\ G = {s \in DOMAIN saved' : saved'[s].user = u /\ ~saved'[s].deleted}
  BY <1>1 DEF SavedSearch_FindByUserID
<1>3. CASE saved' = saved
  BY <1>1, <1>2, <1>3
<1>4. ASSUME NEW row, SavedAdded(r, row), q = Idle
      PROVE  \/ G \subseteq F /\ \A s \in DOMAIN saved : saved[s].user = u => saved'[s] = saved[s]
             \/ /\ ~At(r, "idle") /\ req[r].user = u
                /\ Cardinality(F) < MaxSaved /\ \E new : G = F \cup {new}
  <2>1. PICK new : new = Len(saved) + 1
    OBVIOUS
  <2>2. /\ DOMAIN saved' = DOMAIN saved \cup {new} /\ new \notin DOMAIN saved
        /\ saved'[new] = row /\ \A m \in DOMAIN saved : saved'[m] = saved[m]
    BY <1>4, <2>1, SavedTable, LongerSequence DEF SavedAdded
  <2>3. At(r, "insert") /\ ~At(r, "idle") /\ row.user = req[r].user
    BY <1>4 DEF SavedAdded, At
  <2>4. G = F \/ G = F \cup {new}
    BY <1>2, <2>2
  <2>5. CASE req[r].user # u
    BY <1>2, <2>2, <2>3, <2>5
  <2>6. CASE req[r].user = u
    <3>1. Cardinality(F) < MaxSaved
      <4>1. KnowsItsSearch(req[r])
        BY DEF SearchesInv
      <4> QED BY <1>0, <1>1, <2>3, <2>6, <4>1 DEF KnowsItsSearch, At
    <3> QED BY <2>2, <2>3, <2>4, <2>6, <3>1
  <2> QED BY <2>5, <2>6
<1>5. ASSUME NEW n, NEW row, NEW want, SavedWritten(r, n, row, want), q = Idle
      PROVE  \/ G \subseteq F /\ \A s \in DOMAIN saved : saved[s].user = u => saved'[s] = saved[s]
             \/ ~At(r, "idle") /\ req[r].user = u /\ G \subseteq F
  <2>1. /\ n \in DOMAIN saved /\ row.user = saved[n].user /\ saved[n].user = req[r].user
        /\ row \in SavedSearch /\ ~At(r, "idle")
        /\ req[r].user \in shared \/ row.deleted \/ ~saved[n].deleted
    BY <1>5 DEF SavedWritten, SameSaved
  <2>2. /\ DOMAIN saved' = DOMAIN saved /\ saved'[n] = row
        /\ \A m \in DOMAIN saved : m # n => saved'[m] = saved[m]
    BY <1>5, <2>1, SavedTable, RowOfASequence DEF SavedWritten
  <2>3. CASE req[r].user = u
    BY <1>0, <1>2, <2>1, <2>2, <2>3
  <2>4. CASE req[r].user # u
    BY <1>2, <2>1, <2>2, <2>4
  <2> QED BY <2>3, <2>4
<1> QED BY <1>1, <1>3, <1>4, <1>5 DEF SavedStep, SavedBegun, SavedGoOn

\* So the promise on saved searches is kept, ...
LEMMA SavedAreKeptAfter ==
    ASSUME SearchesInv, NEW r \in Slots, NEW q, SavedStep(r, q)
    PROVE  SavedAreKept'
<1>1. ASSUME NEW u \in Searchers \ shared'
      PROVE  Cardinality(SavedSearch_FindByUserID(u)') <= MaxSaved
  <2>1. PICK F, G : F = SavedSearch_FindByUserID(u) /\ G = SavedSearch_FindByUserID(u)'
    OBVIOUS
  <2>2. /\ IsFiniteSet(F) /\ Cardinality(F) \in Nat /\ Cardinality(F) <= MaxSaved
        /\ MaxSaved \in Nat
    BY <2>1, SavedTable, SharesAfter DEF SearchesInv, SavedAreKept
  <2>3. CASE G \subseteq F
    <3>1. Cardinality(G) <= Cardinality(F) /\ Cardinality(G) \in Nat
      BY <2>2, <2>3, FS_Subset, FS_CardinalityType
    <3> QED BY <2>1, <2>2, <3>1
  <2>4. ASSUME NEW new, G = F \cup {new}, Cardinality(F) < MaxSaved
        PROVE  Cardinality(G) <= MaxSaved
    <3>1. Cardinality(F \cup {new}) \in {Cardinality(F), Cardinality(F) + 1}
      BY <2>2, OneMoreOrLess
    <3> QED BY <2>2, <2>4, <3>1
  <2> QED BY <2>1, <2>3, <2>4, ListsAfter
<1> QED BY <1>1, SavedRowsAfter DEF SavedAreKept

\* ... and each request still knows what it has learnt.
LEMMA KnowingSearchesAfter ==
    ASSUME SearchesInv, NEW r \in Slots, NEW q, SavedStep(r, q), NEW p \in Slots
    PROVE  KnowsItsSearch(req[p])'
<1>1. PICK x : x = req'[p]
  OBVIOUS
<1>2. /\ req' = [req EXCEPT ![r] = q] /\ req \in [Slots -> SavedSearchRequest \cup {Idle}]
      /\ q \in SavedSearchRequest \cup {Idle}
      /\ x = (IF p = r THEN q ELSE req[p]) /\ x \in SavedSearchRequest \cup {Idle}
      /\ KnowsItsSearch(x)
  <2>1. req' = [req EXCEPT ![r] = q] /\ req \in [Slots -> SavedSearchRequest \cup {Idle}]
        /\ q \in SavedSearchRequest \cup {Idle} /\ KnowsItsSearch(q)
    BY SavedTable DEF SavedStep
  <2>2. x = IF p = r THEN q ELSE req[p]
    BY <1>1, <2>1
  <2>3. KnowsItsSearch(req[p])
    BY DEF SearchesInv
  <2> QED BY <2>1, <2>2, <2>3
<1>3. shared \subseteq shared'
  BY SharesAfter
<1>4. \A s \in DOMAIN saved : s \in DOMAIN saved' /\ saved'[s].user = saved[s].user
  BY SavedRowsAfter
<1>5. ASSUME x # Idle, x.user \notin shared'
      PROVE  /\ SavedSearch_FindByUserID(x.user)' \subseteq SavedSearch_FindByUserID(x.user)
             /\ \A s \in DOMAIN saved : saved[s].user = x.user => saved'[s] = saved[s]
  <2>1. x.user \in Searchers \ shared'
    BY <1>2, <1>5, SavingIsTyped
  <2>2. ~(~At(r, "idle") /\ req[r].user = x.user /\ q = Idle)
    <3> SUFFICES ASSUME ~At(r, "idle"), req[r].user = x.user, q = Idle PROVE FALSE
      OBVIOUS
    <3>1. p # r /\ x = req[p] /\ ~At(p, "idle")
      BY <1>2, <1>5, SavingIsTyped DEF At
    <3>2. x.user \in shared
      BY <3>1 DEF SearchesInv, SharingIsKnown
    <3> QED BY <1>3, <1>5, <3>2
  <2> QED BY <2>1, <2>2, ListsAfter
<1>6. CASE x = Idle
  BY <1>1, <1>6, IdleKnowsNoSearch DEF KnowsItsSearch
<1>7. CASE x # Idle
  <2>1. /\ x.pc \in {"change", "save", "own", "drop"} => x.id \in DOMAIN saved'
        /\ x.pc \in {"save", "drop"} => saved'[x.id].user = x.user
    BY <1>2, <1>4 DEF KnowsItsSearch
  <2>2. ASSUME x.pc = "insert", x.user \notin shared'
        PROVE  Cardinality(SavedSearch_FindByUserID(x.user)') < MaxSaved
    <3>1. PICK F, G : /\ F = SavedSearch_FindByUserID(x.user)
                      /\ G = SavedSearch_FindByUserID(x.user)'
      OBVIOUS
    <3>2. /\ IsFiniteSet(F) /\ Cardinality(F) \in Nat /\ Cardinality(F) < MaxSaved
          /\ MaxSaved \in Nat
      BY <1>2, <1>3, <2>2, <3>1, SavedTable DEF KnowsItsSearch
    <3>3. G \subseteq F
      BY <1>5, <1>7, <2>2, <3>1
    <3>4. Cardinality(G) <= Cardinality(F) /\ Cardinality(G) \in Nat
      BY <3>2, <3>3, FS_Subset, FS_CardinalityType
    <3> QED BY <3>1, <3>2, <3>4
  <2>3. ASSUME x.pc = "save"
        PROVE  /\ x.copy # <<>> /\ x.copy[1].user = x.user
               /\ x.user \in shared' \/ x.copy[1] = saved'[x.id]
    <3>1. /\ x.copy # <<>> /\ x.copy[1].user = x.user
          /\ x.user \in shared \/ x.copy[1] = saved[x.id]
          /\ x.id \in DOMAIN saved /\ saved[x.id].user = x.user
      BY <1>2, <2>3 DEF KnowsItsSearch
    <3> QED BY <1>3, <1>5, <1>7, <3>1
  <2> QED BY <1>1, <2>1, <2>2, <2>3 DEF KnowsItsSearch
<1> QED BY <1>6, <1>7

\* A step of a request keeps the invariant; ...
LEMMA SavedStepKeeps ==
    ASSUME SearchesInv, NEW r \in Slots, NEW q, SavedStep(r, q)
    PROVE  SearchesInv'
<1>1. /\ docs' = docs /\ shaken' = shaken /\ browsing' = browsing
      /\ begun' \in 0..MaxRequests /\ faults' \in 0..MaxFaults
      /\ req' \in [Slots -> SavedSearchRequest \cup {Idle}]
  BY SavedTable DEF SavedStep
<1>2. SearchesTypeOK'
  <2>1. docs \in Seq(Doc) /\ Len(docs) <= MaxDocs /\ shaken \in BOOLEAN /\ browsing \in Browsing
    BY DocsTable
  <2>2. shared' \subseteq Searchers
    BY SharesAfter
  <2> QED BY <1>1, <2>1, <2>2, SavedRowsAfter DEF SearchesTypeOK, RequestsAre
<1>3. DueIsToCome'
  <2>1. DueIsToCome
    BY DEF SearchesInv
  <2> QED BY <1>1, <2>1, DueIsComing
<1> QED BY <1>2, <1>3, SharesAfter, SavedAreKeptAfter, KnowingSearchesAfter DEF SearchesInv

\* ... so does one of the reader or of the news, ...
LEMMA BrowsingKeeps ==
    ASSUME SearchesInv,
           \/ \E text \in BOOLEAN, asc \in BOOLEAN, n \in 0..MaxPage + 1,
                 sort \in {"relevance", "title", "created", "updated"} :
                StartBrowsing(text, sort, asc, n)
           \/ HandleSearch
           \/ \E match \in BOOLEAN, key \in SortKeys :
                NewDoc(match, key) \/ \E i \in DOMAIN docs : EditDoc(i, match, key)
           \/ \E i \in DOMAIN docs : DropDoc(i)
    PROVE  SearchesInv'
<1>1. /\ saved' = saved /\ remembered' = remembered /\ shared' = shared /\ req' = req
      /\ begun' \in 0..MaxRequests /\ faults' \in 0..MaxFaults
  <2>1. /\ saved' = saved /\ remembered' = remembered /\ shared' = shared
        /\ Serve \/ UNCHANGED requestVars
    <3>1. /\ \A text, sort, asc, n : StartBrowsing(text, sort, asc, n)
                => Serve /\ saved' = saved /\ remembered' = remembered /\ shared' = shared
          /\ \A match, key : NewDoc(match, key)
                => Serve /\ saved' = saved /\ remembered' = remembered /\ shared' = shared
          /\ \A i, new : ChangeDoc(i, new)
                => Serve /\ saved' = saved /\ remembered' = remembered /\ shared' = shared
      BY DEF StartBrowsing, NewDoc, ChangeDoc
    <3>2. HandleSearch => /\ saved' = saved /\ remembered' = remembered /\ shared' = shared
                          /\ UNCHANGED requestVars
      BY DEF HandleSearch
    <3> QED BY <3>1, <3>2, Zenon DEF EditDoc, DropDoc
  <2> QED BY <2>1, SavedTable DEF Serve, requestVars
<1>2. /\ docs' \in Seq(Doc) /\ Len(docs') <= MaxDocs /\ shaken' \in BOOLEAN
      /\ browsing' \in Browsing /\ DueIsToCome'
  <2>1. docs \in Seq(Doc) /\ Len(docs) <= MaxDocs
    BY DocsTable
  <2>2. ASSUME NEW text \in BOOLEAN, NEW asc \in BOOLEAN, NEW n \in 0..MaxPage + 1,
               NEW sort \in {"relevance", "title", "created", "updated"},
               StartBrowsing(text, sort, asc, n)
        PROVE  /\ docs' = docs /\ shaken' \in BOOLEAN /\ browsing' \in Browsing /\ DueIsToCome'
    BY <2>2, BrowsingStarts DEF StartBrowsing
  <2>3. ASSUME HandleSearch
        PROVE  /\ docs' = docs /\ shaken' \in BOOLEAN /\ browsing' \in Browsing /\ DueIsToCome'
    <3>1. docs' = docs /\ shaken' = (shaken \/ ~ToldApart(browsing))
      BY <2>3 DEF HandleSearch
    <3>2. shaken' \in BOOLEAN
      BY <3>1, DocsTable DEF ToldApart
    <3> QED BY <2>3, <3>1, <3>2, BrowsingAdvances
  <2>4. CASE \/ \E match \in BOOLEAN, key \in SortKeys :
                NewDoc(match, key) \/ \E i \in DOMAIN docs : EditDoc(i, match, key)
             \/ \E i \in DOMAIN docs : DropDoc(i)
    BY <2>4, DocsChange, DocsTable
  <2> QED BY <2>1, <2>2, <2>3, <2>4
<1>3. SearchesTypeOK'
  BY <1>1, <1>2, SavedTable DEF SearchesTypeOK, RequestsAre
<1>4. SavedAreKept' /\ SharingIsKnown' /\ \A r \in Slots : KnowsItsSearch(req[r])'
  BY <1>1 DEF SearchesInv, SavedAreKept, SharingIsKnown, KnowsItsSearch, At,
              SavedSearch_FindByUserID
<1> QED BY <1>2, <1>3, <1>4 DEF SearchesInv

\* ... and any step.
LEMMA SearchInvSteps ==
    SearchesInv /\ [SearchesNext]_<<searchVars, requestVars>> => SearchesInv'
<1> SUFFICES ASSUME SearchesInv, [SearchesNext]_<<searchVars, requestVars>> PROVE SearchesInv'
  OBVIOUS
<1>1. CASE UNCHANGED <<searchVars, requestVars>>
  <2>1. UNCHANGED <<docs, shaken, browsing, saved, remembered, shared, req, begun, faults>>
    BY <1>1 DEF searchVars, requestVars
  <2>2. SearchesTypeOK'
    BY <2>1 DEF SearchesInv, SearchesTypeOK, RequestsAre
  <2>3. DueIsToCome'
    BY <2>1, DueIsComing DEF SearchesInv
  <2>4. SavedAreKept' /\ SharingIsKnown' /\ \A r \in Slots : KnowsItsSearch(req[r])'
    BY <2>1 DEF SearchesInv, SavedAreKept, SharingIsKnown, KnowsItsSearch, At,
                SavedSearch_FindByUserID
  <2> QED BY <2>2, <2>3, <2>4 DEF SearchesInv
<1>2. CASE SearchesNext
  BY <1>2, BrowsingKeeps, SavedSteps, SavedStepKeeps DEF SearchesNext
<1> QED BY <1>1, <1>2

\* The tables are empty at first.
LEMMA SearchesStart == SearchesInit /\ RequestsInit => SearchesInv
<1> SUFFICES ASSUME SearchesInit, RequestsInit PROVE SearchesInv
  OBVIOUS
<1>1. /\ docs = <<>> /\ shaken = FALSE /\ saved = <<>> /\ remembered = <<>> /\ shared = {}
      /\ browsing = [on |-> FALSE, text |-> FALSE, order |-> [by |-> "created", asc |-> FALSE],
                     size |-> 1, page |-> 1, seen |-> {}, due |-> {}]
  BY DEF SearchesInit
<1>2. DOMAIN saved = {} /\ DOMAIN docs = {} /\ Len(<<>>) = 0 /\ \A S : <<>> \in Seq(S)
  BY <1>1
<1>3. browsing \in Browsing
  <2>1. 1 \in 0..MaxPage + 1 /\ 1 \in 1..MaxDocs + 2
    BY PagesAssumption, RowsAssumption
  <2> QED BY <1>1, <2>1 DEF Browsing, SortOrder
<1>4. SearchesTypeOK
  <2>1. docs \in Seq(Doc) /\ saved \in Seq(SavedSearch) /\ remembered \in Seq(SavedSearch)
    BY <1>1
  <2>2. Len(docs) <= MaxDocs /\ Len(saved) <= MaxRows /\ Len(remembered) = Len(saved)
    BY <1>1, <1>2, RowsAssumption
  <2>3. RequestsAre(SavedSearchRequest)
    BY RequestBoundsAssumption DEF RequestsInit, RequestsAre
  <2> QED BY <1>1, <1>3, <2>1, <2>2, <2>3 DEF SearchesTypeOK
<1>5. DueIsToCome
  <2>1. browsing.due = {}
    BY <1>1
  <2> QED BY <2>1 DEF DueIsToCome
<1>6. SavedAreKept
  <2>1. \A u : SavedSearch_FindByUserID(u) = {}
    BY <1>2 DEF SavedSearch_FindByUserID
  <2>2. 0 <= MaxSaved
    BY RowsAssumption
  <2> QED BY <1>2, <2>1, <2>2, FS_EmptySet DEF SavedAreKept
<1>7. SharingIsKnown /\ \A r \in Slots : KnowsItsSearch(req[r])
  BY IdleKnowsNoSearch DEF RequestsInit, SharingIsKnown, At
<1> QED BY <1>4, <1>5, <1>6, <1>7 DEF SearchesInv

\* What a reader sees follows.
LEMMA SearchesAreShown == SearchesInv => SearchesHold
<1> SUFFICES ASSUME SearchesInv PROVE SearchesHold
  OBVIOUS
<1>1. PagesMissNothing
  BY DEF SearchesInv, DueIsToCome, PagesMissNothing
<1>2. SavedSearchesStand
  BY DEF SearchesInv, SavedAreKept, SavedSearchesStand, ListSavedSearches, GetSavedSearch, OwnSaved,
         SavedSearch_FindByID
<1> QED BY <1>1, <1>2 DEF SearchesHold

\* SearchesHold: who goes through the pages of a search, in any order one can ask for, misses no
\* article that stayed in its place, unless two were as good as each other; and a user who is
\* served once at a time has no more saved searches than the limit and finds each as he was told:
\* service/search.go, for any users, limits, page sizes, articles, changes and requests.
THEOREM SearchesAlwaysHold == SearchesSpec => []SearchesHold
BY SearchesStart, SearchInvSteps, SearchesAreShown, PTL DEF SearchesSpec

-----------------------------------------------------------------------------
(* Behind one API *)

\* Of the component in scope, the inductive invariant.
ContentInv ==
    /\ scope = "versions" => VersionInv
    /\ scope = "comments" => CommentsInv
    /\ scope = "news" => NewsInv
    /\ scope = "tags" => TagsInv
    /\ scope = "invoices" => InvoicesInv
    /\ scope = "searches" => SearchesInv

\* ContentHolds: versions of a file, comments, news, tags, invoices and searches stand as their
\* users left them: service/media_version.go, comment.go, news.go, tag.go, invoice.go and
\* search.go behind one API, for any users, rows, requests and failures.
THEOREM ContentAlwaysHolds == ContentSpec => []ContentHolds
<1>1. ContentInit => ContentInv
  BY InitVersionInv, CommentsStart, NewsStart, TagsStart, InvoicesStart, SearchesStart
  DEF ContentInit, ContentInv
<1>2. ContentInv /\ [ContentNext]_contentVars => ContentInv'
  <2> SUFFICES ASSUME ContentInv, [ContentNext]_contentVars PROVE ContentInv'
    OBVIOUS
  <2>1. scope' = scope
    BY DEF ContentNext, Within, contentVars
  <2>2. ASSUME scope = "versions" PROVE VersionInv'
    <3>1. [VersionNext]_versionVars
      BY <2>2 DEF ContentNext, contentVars
    <3> QED BY <2>2, <3>1, VersionInvSteps DEF ContentInv
  <2>3. ASSUME scope = "comments" PROVE CommentsInv'
    <3>1. [CommentsNext]_<<commentVars, requestVars>>
      BY <2>3 DEF ContentNext, contentVars
    <3> QED BY <2>3, <3>1, CommentInvSteps DEF ContentInv
  <2>4. ASSUME scope = "news" PROVE NewsInv'
    <3>1. [NewsNext]_<<newsVars, requestVars>>
      BY <2>4 DEF ContentNext, contentVars
    <3> QED BY <2>4, <3>1, NewsInvSteps DEF ContentInv
  <2>5. ASSUME scope = "tags" PROVE TagsInv'
    <3>1. [TagsNext]_<<tagVars, requestVars>>
      BY <2>5 DEF ContentNext, contentVars
    <3> QED BY <2>5, <3>1, TagInvSteps DEF ContentInv
  <2>6. ASSUME scope = "invoices" PROVE InvoicesInv'
    <3>1. [InvoicesNext]_<<invoiceVars, requestVars>>
      BY <2>6 DEF ContentNext, contentVars
    <3> QED BY <2>6, <3>1, InvoiceInvSteps DEF ContentInv
  <2>7. ASSUME scope = "searches" PROVE SearchesInv'
    <3>1. [SearchesNext]_<<searchVars, requestVars>>
      BY <2>7 DEF ContentNext, contentVars
    <3> QED BY <2>7, <3>1, SearchInvSteps DEF ContentInv
  <2> QED BY <2>1, <2>2, <2>3, <2>4, <2>5, <2>6, <2>7 DEF ContentInv
<1>3. ContentInv => ContentHolds
  BY VersionsAreShown, CommentsAreShown, NewsAreShown, TagsAreShown, InvoicesAreShown,
     SearchesAreShown
  DEF ContentInv, ContentHolds, CommentsInv, NewsInv, TagsInv, InvoicesInv, SearchesInv
<1> QED BY <1>1, <1>2, <1>3, PTL DEF ContentSpec

=============================================================================
