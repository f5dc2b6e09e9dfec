--------------------------- MODULE IngestionProofs ---------------------------
EXTENDS Ingestion, TLAPS

-----------------------------------------------------------------------------
(* Type correctness.                                                         *)

\* What an update of a run's locals needs to keep their type.
LEMMA LocalsUpdate ==
  ASSUME NEW r \in Locals
  PROVE  /\ \A k \in Keys, o \in OcrStatus : [r EXCEPT !.base = k, !.ocr = o] \in Locals
         /\ \A k \in Keys : [r EXCEPT !.prev = k] \in Locals
         /\ \A pages \in {"none", "few", "many"} : [r EXCEPT !.pages = pages] \in Locals
         /\ \A b \in BOOLEAN : [r EXCEPT !.vectors = b] \in Locals
         /\ \A b \in BOOLEAN : [r EXCEPT !.raised = b] \in Locals
         /\ \A b, c \in BOOLEAN : [r EXCEPT !.cancelled = b, !.raised = c] \in Locals
  BY DEF Locals

LEMMA FreshLocals == Fresh \in Locals
  BY DEF Fresh, Locals, Keys, OcrStatus

LEMMA TypeNotQueued ==
  ASSUME TypeOK, NEW j \in Jobs, NEW kinds, NotQueued(j, kinds)
  PROVE  job' \in [Jobs -> JobRecord] /\ faults' \in Budget
  BY DEF TypeOK, NotQueued, Void, Noone, JobRecord, JobState, FileStatus, OcrStatus, Budget

\* A request, or a web process dying or failing to reach Redis.
LEMMA TypeRequest ==
  ASSUME TypeOK, NEW j \in Jobs, Request(j) \/ Api(j) \/ ApiFault(j)
  PROVE  TypeOK'
  <1> USE DEF TypeOK, JobRecord, JobState
  <1>1. CASE RequestRefresh(j)
    BY <1>1 DEF RequestRefresh, Ask
  <1>2. CASE RequestSync(j)
    BY <1>2 DEF RequestSync, Ask
  <1>3. CASE RequestReprocess(j)
    <2>1. PICK action \in Reprocess :
             /\ job' = [job EXCEPT ![j] = [Noone EXCEPT !.kind = action,
                                                        !.api = "enqueue",
                                                        !.was = file.status,
                                                        !.wasId = file.jobId]]
             /\ file' = [file EXCEPT !.status = "processing", !.jobId = j]
             /\ UNCHANGED <<ocr, attempt, store, pc, run, sweep, cleanup, faults>>
      BY <1>3 DEF RequestReprocess
    <2>2. job' \in [Jobs -> JobRecord]
      BY <2>1 DEF Noone, FileRow, OcrStatus, FileStatus
    <2>3. file' \in FileRow
      BY <2>1 DEF FileRow, FileStatus
    <2> QED  BY <2>1, <2>2, <2>3
  <1>4. CASE RequestApproval(j)
    BY <1>4 DEF RequestApproval, Ask, Noone, FileRow, OcrStatus, FileStatus
  <1>5. CASE Enqueue(j)
    BY <1>5 DEF Enqueue, OcrStatus
  <1>6. CASE SaveJobId(j)
    BY <1>6 DEF SaveJobId, FileRow
  <1>7. CASE UploadNotQueued(j)
    <2>1. file' \in FileRow
      BY <1>7 DEF UploadNotQueued, FileRow, FileStatus
    <2> QED  BY <1>7, <2>1, TypeNotQueued DEF UploadNotQueued, NotQueued
  <1>8. CASE ReprocessNotQueued(j)
    <2>1. file' \in FileRow
      BY <1>8 DEF ReprocessNotQueued, FileRow
    <2> QED  BY <1>8, <2>1, TypeNotQueued DEF ReprocessNotQueued, NotQueued
  <1>9. CASE ApprovalNotQueued(j)
    <2>1. file' \in FileRow /\ ocr' \in OcrStatus
      BY <1>9 DEF ApprovalNotQueued, FileRow, FileStatus
    <2> QED  BY <1>9, <2>1, TypeNotQueued DEF ApprovalNotQueued, NotQueued
  <1>10. CASE ApiDies(j)
    BY <1>10 DEF ApiDies, Void, Noone, FileStatus, OcrStatus, Budget
  <1> QED
    BY <1>1, <1>2, <1>3, <1>4, <1>5, <1>6, <1>7, <1>8, <1>9, <1>10
    DEF Request, Api, ApiFault

\* The end of a job function.
LEMMA TypeEnded ==
  ASSUME TypeOK, NEW j \in Jobs, NEW state \in {"finished", "failed"}, Ended(j, state)
  PROVE  /\ job' \in [Jobs -> JobRecord]
         /\ run' \in [Jobs -> Locals]
         /\ pc' \in [Jobs -> Steps]
  <1>1. job' \in [Jobs -> JobRecord]
    BY DEF TypeOK, Ended, Noone, JobRecord, JobState, FileStatus, OcrStatus
  <1>2. run' \in [Jobs -> Locals]
    BY FreshLocals DEF TypeOK, Ended
  <1>3. pc' \in [Jobs -> Steps]
    BY DEF TypeOK, Ended, Goto, Steps, Working
  <1> QED  BY <1>1, <1>2, <1>3

\* A step of a run, up to the plan for its scanned pages.
LEMMA TypePrepare ==
  ASSUME TypeOK, NEW j \in Jobs,
         \/ Dequeue(j) \/ Claim(j) \/ NotClaimed(j) \/ Load(j) \/ Begin(j)
         \/ DropOcr(j) \/ Parse(j) \/ ReuseParse(j) \/ PlanNothing(j)
         \/ PlanWithoutVision(j) \/ PlanVision(j) \/ Pause(j)
  PROVE  TypeOK'
  <1> USE DEF TypeOK, Goto, Steps, Working
  <1>1. CASE Dequeue(j)
    BY <1>1 DEF Dequeue, JobRecord, JobState
  <1>2. CASE Claim(j)
    BY <1>2 DEF Claim, FileRow
  <1>3. CASE NotClaimed(j)
    BY <1>3, TypeEnded DEF NotClaimed
  <1>4. CASE Load(j)
    <2>1. [run[j] EXCEPT !.base = file.active, !.ocr = ocr] \in Locals
      BY LocalsUpdate DEF FileRow
    <2>2. run' = [run EXCEPT ![j] = [run[j] EXCEPT !.base = file.active, !.ocr = ocr]]
      BY <1>4 DEF Load
    <2> QED  BY <1>4, <2>1, <2>2 DEF Load
  <1>5. CASE Begin(j)
    BY <1>5 DEF Begin, FileRow, FileStatus
  <1>6. CASE DropOcr(j)
    BY <1>6 DEF DropOcr, OcrStatus
  <1>7. CASE Parse(j)
    <2>1. PICK pages \in {"none", "few", "many"} :
             run' = [run EXCEPT ![j] = [run[j] EXCEPT !.pages = pages]]
      BY <1>7, EventsAssumption DEF Parse
    <2>2. [run[j] EXCEPT !.pages = pages] \in Locals
      BY LocalsUpdate
    <2>3. file' \in FileRow /\ sweep' \in Observed
      BY <1>7 DEF Parse, Touched, FileRow, Observed
    <2> QED  BY <1>7, <2>1, <2>2, <2>3 DEF Parse
  <1>8. CASE ReuseParse(j)
    <2>1. PICK pages \in {"none", "few", "many"} :
             run' = [run EXCEPT ![j] = [run[j] EXCEPT !.pages = pages]]
      BY <1>8, EventsAssumption DEF ReuseParse
    <2>2. [run[j] EXCEPT !.pages = pages] \in Locals
      BY LocalsUpdate
    <2> QED  BY <1>8, <2>1, <2>2 DEF ReuseParse
  <1>9. CASE PlanNothing(j)
    BY <1>9 DEF PlanNothing
  <1>10. CASE PlanWithoutVision(j)
    BY <1>10 DEF PlanWithoutVision, OcrStatus
  <1>11. CASE PlanVision(j)
    BY <1>11 DEF PlanVision, OcrStatus
  <1>12. CASE Pause(j)
    BY <1>12 DEF Pause, FileRow, FileStatus
  <1> QED
    BY <1>1, <1>2, <1>3, <1>4, <1>5, <1>6, <1>7, <1>8, <1>9, <1>10, <1>11, <1>12

\* A step of a run from its attempt row to the retirement of the old index.
LEMMA TypeIndex ==
  ASSUME TypeOK, NEW j \in Jobs,
         \/ Stage(j) \/ Embed(j) \/ EmbedNothing(j) \/ WriteFirst(j) \/ WriteRest(j)
         \/ Verify(j) \/ Publish(j) \/ RetireIndex(j) \/ RetireRow(j)
  PROVE  TypeOK'
  <1> USE DEF TypeOK, Goto, Steps, Working
  <1>1. CASE Stage(j)
    BY <1>1 DEF Stage, AttemptStatus, Touched, FileRow, Observed
  <1>2. CASE Embed(j)
    <2>1. PICK vectors \in BOOLEAN :
             /\ run' = [run EXCEPT ![j] = [run[j] EXCEPT !.vectors = vectors]]
             /\ Goto(j, IF vectors THEN "write" ELSE "publish")
      BY <1>2 DEF Embed
    <2>2. [run[j] EXCEPT !.vectors = vectors] \in Locals
      BY LocalsUpdate
    <2> QED  BY <1>2, <2>1, <2>2 DEF Embed
  <1>3. CASE EmbedNothing(j)
    <2>1. [run[j] EXCEPT !.raised = TRUE] \in Locals
      BY LocalsUpdate
    <2> QED  BY <1>3, <2>1 DEF EmbedNothing
  <1>4. CASE WriteFirst(j)
    BY <1>4 DEF WriteFirst, Keys
  <1>5. CASE WriteRest(j)
    BY <1>5 DEF WriteRest, Keys
  <1>6. CASE Verify(j)
    <2>1. [run[j] EXCEPT !.raised = TRUE] \in Locals
      BY LocalsUpdate
    <2> QED  BY <1>6, <2>1 DEF Verify
  <1>7. CASE Publish(j)
    <2>1. [run[j] EXCEPT !.prev = file.active] \in Locals
      BY LocalsUpdate DEF FileRow
    <2>2. run' \in [Jobs -> Locals]
      BY <1>7, <2>1 DEF Publish
    <2>3. file' \in FileRow /\ attempt' \in [Jobs -> AttemptStatus]
      BY <1>7 DEF Publish, FileRow, Keys, AttemptStatus
    <2> QED  BY <1>7, <2>2, <2>3 DEF Publish
  <1>8. CASE RetireIndex(j)
    BY <1>8 DEF RetireIndex, Keys
  <1>9. CASE RetireRow(j)
    BY <1>9 DEF RetireRow, AttemptStatus
  <1> QED  BY <1>1, <1>2, <1>3, <1>4, <1>5, <1>6, <1>7, <1>8, <1>9

\* The end of a run, and its handlers.
LEMMA TypeFinish ==
  ASSUME TypeOK, NEW j \in Jobs,
         \/ FinishOcr(j) \/ Finalize(j) \/ Cancel(j) \/ Discard(j) \/ Record(j)
         \/ Fail(j) \/ Release(j)
  PROVE  TypeOK'
  <1> USE DEF TypeOK, Goto, Steps, Working
  <1>1. CASE FinishOcr(j)
    BY <1>1 DEF FinishOcr, Transcribed, OcrStatus
  <1>2. CASE Finalize(j)
    <2>1. file' \in FileRow
      BY <1>2 DEF Finalize, ResolvedStatus, FileRow, FileStatus
    <2> QED  BY <1>2, <2>1 DEF Finalize
  <1>3. CASE Cancel(j)
    <2>1. [run[j] EXCEPT !.cancelled = TRUE, !.raised = FALSE] \in Locals
      BY LocalsUpdate
    <2>2. run' = [run EXCEPT ![j] = [run[j] EXCEPT !.cancelled = TRUE, !.raised = FALSE]]
      BY <1>3 DEF Cancel
    <2>3. pc' \in [Jobs -> Steps]
      BY <1>3 DEF Cancel
    <2> QED  BY <1>3, <2>1, <2>2, <2>3 DEF Cancel
  <1>4. CASE Discard(j)
    BY <1>4 DEF Discard, Keys
  <1>5. CASE Record(j)
    <2>1. PICK cancelled \in BOOLEAN :
             /\ attempt' = [attempt EXCEPT ![j] =
                             IF @ # "running" THEN @
                             ELSE IF cancelled THEN "abandoned" ELSE "failed"]
             /\ run' = [run EXCEPT ![j] = [run[j] EXCEPT !.raised = ~cancelled]]
             /\ Goto(j, IF cancelled THEN "release" ELSE "failing")
      BY <1>5 DEF Record
    <2>2. [run[j] EXCEPT !.raised = ~cancelled] \in Locals
      BY LocalsUpdate
    <2>3. attempt' \in [Jobs -> AttemptStatus]
      BY <2>1 DEF AttemptStatus
    <2> QED  BY <1>5, <2>1, <2>2, <2>3 DEF Record
  <1>6. CASE Fail(j)
    <2>1. file' \in FileRow /\ ocr' \in OcrStatus
      BY <1>6 DEF Fail, FileRow, FileStatus, JobRecord, Locals
    <2> QED  BY <1>6, <2>1 DEF Fail
  <1>7. CASE Release(j)
    <2>1. file' \in FileRow
      BY <1>7 DEF Release, FileRow
    <2>2. Ended(j, IF run[j].raised THEN "failed" ELSE "finished")
      BY <1>7 DEF Release
    <2> QED  BY <1>7, <2>1, <2>2, TypeEnded DEF Release
  <1> QED  BY <1>1, <1>2, <1>3, <1>4, <1>5, <1>6, <1>7

\* A failure or the death of a worker.
LEMMA TypeFault ==
  ASSUME TypeOK, NEW j \in Jobs, Fault(j)
  PROVE  TypeOK'
  <1> USE DEF TypeOK, Goto, Steps, Working
  <1>1. ASSUME Breaks
        PROVE  faults' \in Budget
    BY <1>1 DEF Breaks, Budget
  <1>2. [run[j] EXCEPT !.raised = TRUE] \in Locals
    BY LocalsUpdate
  <1>3. CASE Raise(j)
    BY <1>1, <1>2, <1>3 DEF Raise
  <1>4. CASE Disconnect(j)
    BY <1>1, <1>2, <1>4 DEF Disconnect
  <1>5. CASE ReleaseFails(j)
    BY <1>1, <1>5, TypeEnded DEF ReleaseFails
  <1>6. CASE LoseBatch(j)
    BY <1>1, <1>6 DEF LoseBatch
  <1>7. CASE CleaningFails(j)
    BY <1>1, <1>7 DEF CleaningFails
  <1>8. CASE Crash(j)
    <2>1. faults' \in Budget
      BY <1>8 DEF Crash, Budget
    <2> QED  BY <1>8, <2>1, FreshLocals DEF Crash
  <1> QED  BY <1>3, <1>4, <1>5, <1>6, <1>7, <1>8 DEF Fault

\* The sweep, the user, the cleanup and the clock.
LEMMA TypeEnvironment ==
  ASSUME TypeOK,
         \/ Sweep \/ User \/ DeleteNotQueued \/ Clean \/ CleanupFails
         \/ LeaseExpires \/ GraceElapses
  PROVE  TypeOK'
  <1> USE DEF TypeOK
  <1>1. CASE SweepWorkers
    BY <1>1 DEF SweepWorkers, Idle, Observed
  <1>2. CASE SweepFile
    BY <1>2 DEF SweepFile, Idle, Observed, FileRow
  <1>3. CASE MarkInterrupted
    BY <1>3 DEF MarkInterrupted, Idle, Observed, FileRow, FileStatus, AttemptStatus
  <1>4. CASE SparedChanged
    BY <1>4 DEF SparedChanged, Idle, Observed
  <1>5. CASE Trash
    BY <1>5 DEF Trash, Touched, FileRow, Observed
  <1>6. CASE Restore
    BY <1>6 DEF Restore, Touched, FileRow, Observed
  <1>7. ASSUME Purge
        PROVE  /\ file' \in FileRow /\ ocr' \in OcrStatus
               /\ attempt' \in [Jobs -> AttemptStatus]
    BY <1>7 DEF Purge, Gone, FileRow, FileStatus, OcrStatus, AttemptStatus
  <1>8. CASE Delete
    <2>1. cleanup' \in CleanupJob
      BY <1>8 DEF Delete, CleanupTargets, CleanupJob, FileRow, Keys
    <2> QED  BY <1>7, <1>8, <2>1 DEF Delete, Purge
  <1>9. CASE DeleteNotQueued
    BY <1>7, <1>9 DEF DeleteNotQueued, Purge, Budget
  <1>10. CASE Clean
    <2>1. PICK k \in Keys : CleanIndex(k)
      BY <1>10 DEF Clean
    <2> QED  BY <2>1 DEF CleanIndex, NoCleanup, CleanupJob
  <1>11. CASE CleanupFails
    <2>1. faults' \in Budget
      BY <1>11 DEF CleanupFails, Breaks, Budget
    <2>2. CASE cleanup.retries > 0
      <3>1. cleanup' = [cleanup EXCEPT !.todo = cleanup.targets,
                                       !.retries = cleanup.retries - 1]
        BY <1>11, <2>2 DEF CleanupFails
      <3>2. cleanup.targets \in SUBSET Keys /\ cleanup.retries - 1 \in 0..3
        BY <2>2 DEF CleanupJob
      <3>3. cleanup' \in CleanupJob
        BY <3>1, <3>2 DEF CleanupJob
      <3> QED  BY <1>11, <2>1, <3>3 DEF CleanupFails
    <2>3. CASE ~(cleanup.retries > 0)
      <3>1. cleanup' \in CleanupJob
        BY <1>11, <2>3 DEF CleanupFails, NoCleanup, CleanupJob
      <3> QED  BY <1>11, <2>1, <3>1 DEF CleanupFails
    <2> QED  BY <2>2, <2>3
  <1>12. CASE LeaseExpires
    BY <1>12 DEF LeaseExpires, FileRow
  <1>13. CASE GraceElapses
    BY <1>13 DEF GraceElapses, FileRow
  <1> QED
    BY <1>1, <1>2, <1>3, <1>4, <1>5, <1>6, <1>8, <1>9, <1>10, <1>11, <1>12, <1>13
    DEF Sweep, User

LEMMA TypeInit == Init => TypeOK
  <1> SUFFICES ASSUME Init
               PROVE  TypeOK
    OBVIOUS
  <1>1. ocr \in OcrStatus
    BY DEF Init, InitUploaded, InitIndexed, OcrStatus
  <1>2. store \in [Keys -> {"absent", "partial", "complete"}]
    <2>1. CASE InitUploaded
      BY <2>1 DEF InitUploaded
    <2>2. CASE InitIndexed
      BY <2>2 DEF InitIndexed
    <2> QED  BY <2>1, <2>2 DEF Init
  <1>3. file \in FileRow
    <2>1. CASE InitUploaded
      BY <2>1 DEF InitUploaded, FileRow, FileStatus, Keys
    <2>2. CASE InitIndexed
      BY <2>2 DEF InitIndexed, FileRow, FileStatus, Keys
    <2> QED  BY <2>1, <2>2 DEF Init
  <1>4. job \in [Jobs -> JobRecord]
    <2>1. Noone \in JobRecord /\ [Noone EXCEPT !.api = "enqueue"] \in JobRecord
      BY DEF Noone, JobRecord, JobState, FileStatus, OcrStatus
    <2>2. CASE InitUploaded
      BY <2>1, <2>2 DEF InitUploaded
    <2>3. CASE InitIndexed
      BY <2>1, <2>3 DEF InitIndexed
    <2> QED  BY <2>2, <2>3 DEF Init
  <1>5. attempt \in [Jobs -> AttemptStatus] /\ pc \in [Jobs -> Steps]
    BY DEF Init, AttemptStatus, Steps
  <1>6. /\ run \in [Jobs -> Locals]
        /\ sweep \in Observed
        /\ cleanup \in CleanupJob
    <2>1. run \in [Jobs -> Locals]
      BY FreshLocals DEF Init
    <2>2. sweep \in Observed
      BY DEF Init, Idle, Observed
    <2>3. cleanup \in CleanupJob
      BY DEF Init, NoCleanup, CleanupJob
    <2> QED  BY <2>1, <2>2, <2>3
  <1>7. faults \in Budget
    BY BoundsAssumption DEF Init, Budget
  <1> QED  BY <1>1, <1>2, <1>3, <1>4, <1>5, <1>6, <1>7 DEF TypeOK

LEMMA TypeNext == TypeOK /\ [Next]_vars => TypeOK'
  <1> SUFFICES ASSUME TypeOK, [Next]_vars
               PROVE  TypeOK'
    OBVIOUS
  <1>1. ASSUME NEW j \in Jobs, Step(j)
        PROVE  TypeOK'
    BY <1>1, TypePrepare, TypeIndex, TypeFinish DEF Step
  <1>2. CASE UNCHANGED vars
    BY <1>2 DEF vars, TypeOK
  <1> QED  BY <1>1, <1>2, TypeRequest, TypeFault, TypeEnvironment DEF Next

\* Every variable keeps its type: in particular no step of any job, request or
\* sweep writes a status that the models of files/ do not declare.
THEOREM TypeCorrect == Spec => []TypeOK
  BY TypeInit, TypeNext, PTL DEF Spec

=============================================================================
