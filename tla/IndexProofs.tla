----------------------------- MODULE IndexProofs -----------------------------
(***************************************************************************)
(* The search index of a file is whole for as long as the file exists: the *)
(* invariant IndexInv is inductive.  With it, every step of a job, request,*)
(* sweep or cleanup is one step of VersionedIndex or none.                 *)
(***************************************************************************)
EXTENDS IngestionProofs

-----------------------------------------------------------------------------
(* A job runs once.                                                          *)

\* A step of a run that has begun, and leaves the records of RQ alone.
LEMMA OnceQuiet ==
  ASSUME TypeOK, RunsOnce, NEW j \in Jobs, pc[j] # "idle", UNCHANGED job,
         \A i \in Jobs \ {j} : pc'[i] = pc[i]
  PROVE  RunsOnce'
  BY DEF RunsOnce

LEMMA OnceEnded ==
  ASSUME TypeOK, RunsOnce, NEW j \in Jobs, NEW state \in {"finished", "failed"},
         pc[j] # "idle", Ended(j, state)
  PROVE  RunsOnce'
  <1>1. \A i \in Jobs \ {j} : pc'[i] = pc[i] /\ job'[i] = job[i]
    BY DEF TypeOK, Ended, Goto
  <1>2. job'[j] = [Noone EXCEPT !.state = state, !.api = job[j].api]
    BY DEF TypeOK, Ended
  <1>3. job'[j].state = state /\ job'[j].api = job[j].api
    BY <1>2 DEF Noone
  <1>4. job[j].api # "enqueue"
    BY DEF RunsOnce
  <1> QED  BY <1>1, <1>3, <1>4 DEF RunsOnce

LEMMA OnceRequest ==
  ASSUME TypeOK, RunsOnce, NEW j \in Jobs, Request(j) \/ Api(j) \/ ApiFault(j)
  PROVE  RunsOnce'
  <1>1. UNCHANGED pc
    BY DEF Request, Api, ApiFault, RequestRefresh, RequestSync, RequestReprocess,
           RequestApproval, Enqueue, SaveJobId, UploadNotQueued, ReprocessNotQueued,
           ApprovalNotQueued, NotQueued, ApiDies
  <1>2. \A i \in Jobs \ {j} : job'[i] = job[i]
    BY DEF TypeOK, Request, Api, ApiFault, RequestRefresh, RequestSync, RequestReprocess,
           RequestApproval, Enqueue, SaveJobId, UploadNotQueued, ReprocessNotQueued,
           ApprovalNotQueued, NotQueued, ApiDies
  <1>3. /\ job'[j].state \in {"unused", "void", "queued"} => pc[j] = "idle"
        /\ job'[j].api = "enqueue" => job'[j].state = "unused"
    <2> USE DEF TypeOK, RunsOnce, JobRecord
    <2>1. CASE RequestRefresh(j)
      BY <2>1 DEF RequestRefresh, Ask
    <2>2. CASE RequestSync(j)
      BY <2>2 DEF RequestSync, Ask
    <2>3. CASE RequestReprocess(j)
      BY <2>3 DEF RequestReprocess, Ask, Noone
    <2>4. CASE RequestApproval(j)
      BY <2>4 DEF RequestApproval, Ask, Noone
    <2>5. CASE Enqueue(j)
      BY <2>5 DEF Enqueue
    <2>6. CASE SaveJobId(j)
      BY <2>6 DEF SaveJobId
    <2>7. CASE UploadNotQueued(j) \/ ReprocessNotQueued(j) \/ ApprovalNotQueued(j)
      BY <2>7 DEF UploadNotQueued, ReprocessNotQueued, ApprovalNotQueued, NotQueued, Void,
                  Noone
    <2>8. CASE ApiDies(j)
      BY <2>8 DEF ApiDies, Void, Noone
    <2> QED
      BY <2>1, <2>2, <2>3, <2>4, <2>5, <2>6, <2>7, <2>8 DEF Request, Api, ApiFault
  <1> QED  BY <1>1, <1>2, <1>3 DEF RunsOnce

LEMMA OnceRun ==
  ASSUME TypeOK, RunsOnce, NEW j \in Jobs, Step(j) \/ Fault(j)
  PROVE  RunsOnce'
  <1>1. CASE Dequeue(j)
    BY <1>1 DEF Dequeue, Goto, TypeOK, RunsOnce, JobRecord
  <1>2. CASE NotClaimed(j) \/ Release(j) \/ ReleaseFails(j)
    <2>1. pc[j] # "idle" /\ \E state \in {"finished", "failed"} : Ended(j, state)
      BY <1>2 DEF NotClaimed, Release, ReleaseFails
    <2> QED  BY <2>1, OnceEnded
  <1>3. CASE ~Dequeue(j) /\ ~NotClaimed(j) /\ ~Release(j) /\ ~ReleaseFails(j)
    <2>1. pc[j] # "idle" /\ UNCHANGED job
      BY <1>3 DEF Step, Fault, Claim, Load, Begin, DropOcr, Parse, ReuseParse, PlanNothing,
                  PlanWithoutVision, PlanVision, Plan, Pause, Stage, Embed, EmbedNothing,
                  WriteFirst, WriteRest, Verify, Publish, RetireIndex, RetireRow,
                  FinishOcr, Finalize, Cancel, Discard, Record, Fail, Raise, Disconnect,
                  LoseBatch, CleaningFails, Crash, Live, Working
    <2>2. \A i \in Jobs \ {j} : pc'[i] = pc[i]
      BY <1>3 DEF TypeOK, Goto, Step, Fault, Claim, Load, Begin, DropOcr, Parse, ReuseParse,
                  PlanNothing, PlanWithoutVision, PlanVision, Plan, Pause, Stage, Embed,
                  EmbedNothing, WriteFirst, WriteRest, Verify, Publish, RetireIndex,
                  RetireRow, FinishOcr, Finalize, Cancel, Discard, Record, Fail, Raise,
                  Disconnect, LoseBatch, CleaningFails, Crash
    <2> QED  BY <2>1, <2>2, OnceQuiet
  <1> QED  BY <1>1, <1>2, <1>3

LEMMA OnceInit == Init => RunsOnce
  <1> SUFFICES ASSUME Init
               PROVE  RunsOnce
    OBVIOUS
  <1>1. CASE InitUploaded
    BY <1>1 DEF InitUploaded, Init, RunsOnce, Noone
  <1>2. CASE InitIndexed
    BY <1>2 DEF InitIndexed, Init, RunsOnce, Noone
  <1> QED  BY <1>1, <1>2 DEF Init

LEMMA OnceNext == TypeOK /\ RunsOnce /\ [Next]_vars => RunsOnce'
  <1> SUFFICES ASSUME TypeOK, RunsOnce, [Next]_vars
               PROVE  RunsOnce'
    OBVIOUS
  <1>1. ASSUME \/ Sweep \/ User \/ DeleteNotQueued \/ Clean \/ CleanupFails
               \/ LeaseExpires \/ GraceElapses \/ UNCHANGED vars
        PROVE  UNCHANGED <<job, pc>>
    BY <1>1 DEF Sweep, SweepWorkers, SweepFile, MarkInterrupted, SparedChanged, User, Trash,
                Restore, Delete, DeleteNotQueued, Purge, Clean, CleanIndex, CleanupFails,
                LeaseExpires, GraceElapses, vars
  <1> QED  BY <1>1, OnceRequest, OnceRun DEF Next, RunsOnce

-----------------------------------------------------------------------------
(* The index.                                                                *)

\* A step of run j that writes no vectors, and does not bring j to where it
\* publishes or retires an index, keeps the invariant.
LEMMA QuietRun ==
  ASSUME TypeOK, IndexInv, NEW j \in Jobs,
         UNCHANGED <<store, cleanup>>,
         file'.active = file.active, file'.row = file.row,
         \A i \in Jobs \ {j} : pc'[i] = pc[i] /\ run'[i] = run[i],
         pc'[j] \notin {"publish", "retire"},
         Settled(j) => Settled(j)'
  PROVE  IndexInv'
  <1> USE DEF IndexInv
  <1>1. ActiveIndexStored'
    BY DEF ActiveIndexStored
  <1>2. \A i \in Jobs : Settled(i) => Settled(i)'
    BY DEF Settled
  <1>3. ActiveSettled'
    BY <1>2 DEF ActiveSettled
  <1>4. RetiresInactive'
    BY <1>2 DEF RetiresInactive
  <1>5. PublishesWhole'
    BY DEF PublishesWhole
  <1>6. CleansDeleted'
    BY DEF CleansDeleted
  <1> QED  BY <1>1, <1>3, <1>4, <1>5, <1>6

\* So does a step of no run that leaves vectors, cleanup and pointer alone and
\* brings no deleted file back.
LEMMA QuietEnvironment ==
  ASSUME IndexInv, UNCHANGED <<store, cleanup, pc, run>>,
         file'.active = file.active,
         file.row = "deleted" <=> file'.row = "deleted"
  PROVE  IndexInv'
  BY DEF IndexInv, ActiveIndexStored, ActiveSettled, RetiresInactive, PublishesWhole,
         CleansDeleted, Settled

LEMMA IndexRequest ==
  ASSUME TypeOK, IndexInv, NEW j \in Jobs, Request(j) \/ Api(j) \/ ApiFault(j)
  PROVE  IndexInv'
  <1>1. UNCHANGED <<store, cleanup, pc, run>>
    BY DEF Request, Api, ApiFault, RequestRefresh, RequestSync, RequestReprocess,
           RequestApproval, Enqueue, SaveJobId, UploadNotQueued, ReprocessNotQueued,
           ApprovalNotQueued, NotQueued, ApiDies
  <1>2. file'.active = file.active /\ file'.row = file.row
    BY DEF TypeOK, FileRow, Request, Api, ApiFault, RequestRefresh, RequestSync,
           RequestReprocess, RequestApproval, Enqueue, SaveJobId, UploadNotQueued,
           ReprocessNotQueued, ApprovalNotQueued, NotQueued, ApiDies
  <1> QED  BY <1>1, <1>2, QuietEnvironment

LEMMA IndexPrepare ==
  ASSUME TypeOK, RunsOnce, IndexInv, NEW j \in Jobs,
         \/ Dequeue(j) \/ Claim(j) \/ NotClaimed(j) \/ Load(j) \/ Begin(j)
         \/ DropOcr(j) \/ Parse(j) \/ ReuseParse(j) \/ PlanNothing(j)
         \/ PlanWithoutVision(j) \/ PlanVision(j) \/ Pause(j) \/ Stage(j)
  PROVE  IndexInv'
  <1> USE DEF Dequeue, Claim, NotClaimed, Load, Begin, DropOcr, Parse, ReuseParse,
              PlanNothing, PlanWithoutVision, PlanVision, Plan, Pause, Stage, Ended, Goto
  <1>1. UNCHANGED <<store, cleanup>>
    OBVIOUS
  <1>2. file'.active = file.active /\ file'.row = file.row
    BY DEF TypeOK, FileRow
  <1>3. \A i \in Jobs \ {j} : pc'[i] = pc[i] /\ run'[i] = run[i]
    BY DEF TypeOK
  <1>4. pc'[j] \notin {"publish", "retire"} /\ (Settled(j) => Settled(j)')
    BY DEF TypeOK, RunsOnce, Settled, Unpublished
  <1> QED  BY <1>1, <1>2, <1>3, <1>4, QuietRun

\* A step of run j that writes or deletes the vectors of its own generation,
\* none of which is searched yet.
LEMMA OwnVectors ==
  ASSUME TypeOK, IndexInv, NEW j \in Jobs, NEW content,
         ~Settled(j),
         store' = [store EXCEPT ![j] = content],
         UNCHANGED <<file, run, cleanup>>,
         \A i \in Jobs \ {j} : pc'[i] = pc[i],
         pc'[j] \notin {"publish", "retire"}
  PROVE  IndexInv'
  <1> USE DEF IndexInv
  <1>1. \A i \in Jobs : Settled(i) => Settled(i)'
    BY DEF Settled
  <1>2. \A k \in Keys \ {j} : store'[k] = store[k]
    BY DEF TypeOK
  <1>3. ActiveIndexStored'
    BY <1>2 DEF ActiveIndexStored, ActiveSettled, Keys
  <1>4. ActiveSettled'
    BY <1>1 DEF ActiveSettled
  <1>5. RetiresInactive'
    BY <1>1 DEF RetiresInactive
  <1>6. PublishesWhole'
    BY <1>2 DEF PublishesWhole, Keys
  <1>7. CleansDeleted'
    BY DEF CleansDeleted
  <1> QED  BY <1>3, <1>4, <1>5, <1>6, <1>7

LEMMA IndexWrite ==
  ASSUME TypeOK, IndexInv, NEW j \in Jobs,
         WriteFirst(j) \/ WriteRest(j) \/ Discard(j)
  PROVE  IndexInv'
  <1>1. PICK content : store' = [store EXCEPT ![j] = content]
    BY DEF WriteFirst, WriteRest, Discard
  <1>2. ~Settled(j)
    BY DEF WriteFirst, WriteRest, Discard, Settled, Unpublished
  <1>3. UNCHANGED <<file, run, cleanup>>
    BY DEF WriteFirst, WriteRest, Discard
  <1>4. (\A i \in Jobs \ {j} : pc'[i] = pc[i]) /\ pc'[j] \notin {"publish", "retire"}
    BY DEF TypeOK, Goto, WriteFirst, WriteRest, Discard
  <1> QED  BY <1>1, <1>2, <1>3, <1>4, OwnVectors

\* A step that brings run j to its publication.
LEMMA IndexReady ==
  ASSUME TypeOK, IndexInv, NEW j \in Jobs, Embed(j) \/ Verify(j)
  PROVE  IndexInv'
  <1> USE DEF IndexInv
  <1>1. UNCHANGED <<file, store, cleanup>>
    BY DEF Embed, Verify
  <1>2. /\ \A i \in Jobs \ {j} : pc'[i] = pc[i] /\ run'[i] = run[i]
        /\ pc'[j] # "retire"
    BY DEF TypeOK, Goto, Embed, Verify
  <1>3. \A i \in Jobs : Settled(i) => Settled(i)'
    BY <1>2 DEF Embed, Verify, Settled, Unpublished
  <1>4. pc'[j] = "publish" /\ run'[j].vectors => store[j] = "complete"
    <2>1. CASE Embed(j)
      <3>1. PICK vectors \in BOOLEAN :
               /\ run' = [run EXCEPT ![j].vectors = vectors]
               /\ Goto(j, IF vectors THEN "write" ELSE "publish")
        BY <2>1 DEF Embed
      <3>2. run'[j].vectors = vectors
        BY <3>1 DEF TypeOK, Locals
      <3> QED  BY <3>1, <3>2 DEF Goto, TypeOK
    <2>2. CASE Verify(j)
      BY <2>2 DEF Verify, Goto, TypeOK
    <2> QED  BY <2>1, <2>2
  <1>5. ActiveIndexStored'
    BY <1>1 DEF ActiveIndexStored
  <1>6. ActiveSettled'
    BY <1>1, <1>3 DEF ActiveSettled
  <1>7. RetiresInactive'
    BY <1>1, <1>2, <1>3 DEF RetiresInactive
  <1>8. PublishesWhole'
    BY <1>1, <1>2, <1>4 DEF PublishesWhole
  <1>9. CleansDeleted'
    BY <1>1 DEF CleansDeleted
  <1> QED  BY <1>5, <1>6, <1>7, <1>8, <1>9

\* What a publication with vectors does, and why it may.
LEMMA PublishSwaps ==
  ASSUME TypeOK, IndexInv, NEW j \in Jobs, Publish(j), run[j].vectors
  PROVE  /\ file'.active = j /\ file'.row = file.row /\ file.row = "active"
         /\ store[j] = "complete"
         /\ ~Settled(j) /\ file.active # j
         /\ run'[j].prev = file.active /\ pc'[j] = "retire"
         /\ \A i \in Jobs \ {j} : pc'[i] = pc[i] /\ run'[i] = run[i]
  <1>1. file'.active = j /\ file'.row = file.row /\ file.row = "active"
    BY DEF Publish, Owns, TypeOK, FileRow
  <1>2. store[j] = "complete"
    BY <1>1 DEF Publish, IndexInv, PublishesWhole
  <1>3. ~Settled(j)
    BY DEF Publish, Settled, Unpublished
  <1>4. file.active # j
    BY <1>3 DEF IndexInv, ActiveSettled
  <1>5. run'[j].prev = file.active /\ pc'[j] = "retire"
    BY DEF Publish, Goto, TypeOK, Locals
  <1>6. \A i \in Jobs \ {j} : pc'[i] = pc[i] /\ run'[i] = run[i]
    BY DEF Publish, Goto, TypeOK
  <1> QED  BY <1>1, <1>2, <1>3, <1>4, <1>5, <1>6

LEMMA IndexPublish ==
  ASSUME TypeOK, IndexInv, NEW j \in Jobs, Publish(j)
  PROVE  IndexInv'
  <1>1. UNCHANGED <<store, cleanup>>
    BY DEF Publish
  <1>2. CASE ~run[j].vectors
    <2>1. /\ UNCHANGED file
          /\ \A i \in Jobs \ {j} : pc'[i] = pc[i] /\ run'[i] = run[i]
          /\ pc'[j] = "finish"
      BY <1>2 DEF Publish, Goto, TypeOK
    <2>2. Settled(j)'
      BY <2>1 DEF Settled, Unpublished
    <2> QED  BY <1>1, <2>1, <2>2, QuietRun
  <1>3. CASE run[j].vectors
    <2> USE <1>1, <1>3, PublishSwaps DEF IndexInv
    <2>1. ActiveIndexStored'
      BY DEF ActiveIndexStored
    <2>2. Settled(j)' /\ \A i \in Jobs : Settled(i) => Settled(i)'
      BY DEF Settled, Unpublished
    <2>3. ActiveSettled'
      BY <2>2 DEF ActiveSettled
    <2>4. RetiresInactive'
      BY <2>2 DEF RetiresInactive, ActiveSettled
    <2>5. PublishesWhole'
      BY DEF PublishesWhole
    <2>6. CleansDeleted'
      BY DEF CleansDeleted
    <2> QED  BY <2>1, <2>3, <2>4, <2>5, <2>6
  <1> QED  BY <1>2, <1>3

LEMMA IndexRetire ==
  ASSUME TypeOK, IndexInv, NEW j \in Jobs, RetireIndex(j)
  PROVE  IndexInv'
  <1> USE DEF IndexInv
  <1>1. pc[j] = "retire" /\ pc'[j] = "retire_row" /\ UNCHANGED <<file, run, cleanup>>
    BY DEF RetireIndex, Goto, TypeOK
  <1>2. \A i \in Jobs \ {j} : pc'[i] = pc[i]
    BY DEF RetireIndex, Goto, TypeOK
  <1>3. \A k \in Keys : k # run[j].prev => store'[k] = store[k]
    BY DEF RetireIndex, TypeOK
  <1>4. \A i \in Jobs : Settled(i) => Settled(i)'
    BY <1>1, <1>2 DEF Settled, Unpublished
  <1>5. ActiveIndexStored'
    BY <1>1, <1>3 DEF ActiveIndexStored, RetiresInactive, Keys
  <1>6. ActiveSettled'
    BY <1>1, <1>4 DEF ActiveSettled
  <1>7. RetiresInactive'
    BY <1>1, <1>2, <1>4 DEF RetiresInactive
  <1>8. PublishesWhole'
    BY <1>1, <1>2, <1>3 DEF PublishesWhole, RetiresInactive, Settled, Unpublished, Keys
  <1>9. CleansDeleted'
    BY <1>1 DEF CleansDeleted
  <1> QED  BY <1>5, <1>6, <1>7, <1>8, <1>9

\* The end of a run, its handlers and its failures.
LEMMA IndexFinish ==
  ASSUME TypeOK, IndexInv, NEW j \in Jobs,
         \/ EmbedNothing(j) \/ RetireRow(j) \/ FinishOcr(j) \/ Finalize(j)
         \/ Cancel(j) \/ Record(j) \/ Fail(j) \/ Release(j) \/ Fault(j)
  PROVE  IndexInv'
  <1> USE DEF EmbedNothing, RetireRow, FinishOcr, Finalize, Cancel, Record, Fail, Release,
              Fault, Raise, Disconnect, ReleaseFails, LoseBatch, CleaningFails, Crash,
              Ended, Goto
  <1>1. UNCHANGED <<store, cleanup>>
    OBVIOUS
  <1>2. file'.active = file.active /\ file'.row = file.row
    <2>1. CASE Finalize(j)
      <3>1. PICK status : file' = [file EXCEPT !.status = status]
        BY <2>1
      <3> QED  BY <3>1 DEF TypeOK, FileRow
    <2>2. CASE Fail(j)
      BY <2>2 DEF TypeOK, FileRow
    <2>3. CASE Release(j)
      BY <2>3 DEF TypeOK, FileRow
    <2>4. CASE ~(Finalize(j) \/ Fail(j) \/ Release(j))
      <3>1. UNCHANGED file
        BY <2>4
      <3> QED  BY <3>1
    <2> QED  BY <2>1, <2>2, <2>3, <2>4
  <1>3. \A i \in Jobs \ {j} : pc'[i] = pc[i] /\ run'[i] = run[i]
    BY DEF TypeOK
  <1>4. pc'[j] \notin {"publish", "retire"}
    BY DEF TypeOK
  <1>5. Settled(j) => Settled(j)'
    BY DEF TypeOK, Settled, Unpublished
  <1> QED  BY <1>1, <1>2, <1>3, <1>4, <1>5, QuietRun

LEMMA IndexEnvironment ==
  ASSUME TypeOK, IndexInv,
         \/ Sweep \/ User \/ DeleteNotQueued \/ Clean \/ CleanupFails
         \/ LeaseExpires \/ GraceElapses
  PROVE  IndexInv'
  <1>1. CASE Sweep \/ Trash \/ Restore \/ LeaseExpires \/ GraceElapses
    <2>1. UNCHANGED <<store, cleanup, pc, run>>
      BY <1>1 DEF Sweep, SweepWorkers, SweepFile, MarkInterrupted, SparedChanged, Trash,
                  Restore, LeaseExpires, GraceElapses
    <2>2. file'.active = file.active /\ (file.row = "deleted" <=> file'.row = "deleted")
      BY <1>1 DEF Sweep, SweepWorkers, SweepFile, MarkInterrupted, SparedChanged, Trash,
                  Restore, LeaseExpires, GraceElapses, TypeOK, FileRow
    <2> QED  BY <2>1, <2>2, QuietEnvironment
  <1>2. CASE Delete \/ DeleteNotQueued
    <2>1. /\ UNCHANGED <<store, pc, run>>
          /\ file'.active = file.active /\ file'.row = "deleted"
      BY <1>2 DEF Delete, DeleteNotQueued, Purge, Gone
    <2> QED
      BY <2>1 DEF IndexInv, ActiveIndexStored, ActiveSettled, RetiresInactive,
                  PublishesWhole, CleansDeleted, Settled
  <1>3. CASE Clean
    <2>1. PICK k \in Keys : CleanIndex(k)
      BY <1>3 DEF Clean
    <2>2. file.row = "deleted" /\ UNCHANGED <<file, pc, run>>
      BY <2>1 DEF CleanIndex, IndexInv, CleansDeleted
    <2> QED
      BY <2>2 DEF IndexInv, ActiveIndexStored, ActiveSettled, RetiresInactive,
                  PublishesWhole, CleansDeleted, Settled
  <1>4. CASE CleanupFails
    <2>1. file.row = "deleted" /\ UNCHANGED <<file, store, pc, run>>
      BY <1>4 DEF CleanupFails, IndexInv, CleansDeleted
    <2> QED
      BY <2>1 DEF IndexInv, ActiveIndexStored, ActiveSettled, RetiresInactive,
                  PublishesWhole, CleansDeleted, Settled
  <1> QED  BY <1>1, <1>2, <1>3, <1>4 DEF User

LEMMA IndexInit == Init => IndexInv
  <1> SUFFICES ASSUME Init
               PROVE  IndexInv
    OBVIOUS
  <1>1. file.active = Legacy /\ \A j \in Jobs : pc[j] = "idle"
    BY DEF Init, InitUploaded, InitIndexed
  <1>2. cleanup.todo = {}
    BY DEF Init, NoCleanup
  <1> QED
    BY <1>1, <1>2, JobsAssumption DEF IndexInv, ActiveIndexStored, ActiveSettled,
       RetiresInactive, PublishesWhole, CleansDeleted

LEMMA IndexNext == TypeOK /\ RunsOnce /\ IndexInv /\ [Next]_vars => IndexInv'
  <1> SUFFICES ASSUME TypeOK, RunsOnce, IndexInv, [Next]_vars
               PROVE  IndexInv'
    OBVIOUS
  <1>1. ASSUME NEW j \in Jobs, Step(j)
        PROVE  IndexInv'
    BY <1>1, IndexPrepare, IndexReady, IndexWrite, IndexPublish, IndexRetire, IndexFinish
    DEF Step
  <1>2. CASE UNCHANGED vars
    BY <1>2, QuietEnvironment DEF vars
  <1> QED  BY <1>1, <1>2, IndexRequest, IndexFinish, IndexEnvironment DEF Next

-----------------------------------------------------------------------------
(* The theorems.                                                             *)

LEMMA InvInvariant == Spec => [](TypeOK /\ RunsOnce /\ IndexInv)
  <1>1. Init => TypeOK /\ RunsOnce /\ IndexInv
    BY TypeInit, OnceInit, IndexInit
  <1>2. (TypeOK /\ RunsOnce /\ IndexInv) /\ [Next]_vars
          => (TypeOK /\ RunsOnce /\ IndexInv)'
    BY TypeNext, OnceNext, IndexNext
  <1> QED  BY <1>1, <1>2, PTL DEF Spec

\* Whatever the number of jobs, and however many of them overlap, fail, lose
\* their lease or die: the generation searched is stored whole as long as the
\* file exists.
THEOREM ActiveIndexAlwaysStored == Spec => []ActiveIndexStored
  <1>1. IndexInv => ActiveIndexStored
    BY DEF IndexInv
  <1> QED  BY <1>1, InvInvariant, PTL

-----------------------------------------------------------------------------
(* Ingestion implements VersionedIndex: the shapes of a step.                *)

Whole == {k \in Keys : store[k] = "complete"}
Spare == {j \in Jobs : pc[j] \in Unpublished}

\* A step that moves at most the run of j, out of Unpublished if it crosses its
\* border, is a stutter or gives j up.
LEMMA MoveRefines ==
  ASSUME TypeOK, NEW j \in Jobs,
         UNCHANGED store, file'.active = file.active,
         file'.row = "deleted" <=> file.row = "deleted",
         \A i \in Jobs \ {j} : pc'[i] = pc[i],
         pc'[j] \in Unpublished => pc[j] \in Unpublished
  PROVE  [Index!IndexNext]_(Index!indexVars)
  <1>1. Whole' = Whole
    BY DEF Whole
  <1>2. CASE (pc[j] \in Unpublished) = (pc'[j] \in Unpublished)
    <2>1. Spare' = Spare
      BY <1>2 DEF Spare
    <2> QED  BY <1>1, <2>1 DEF Index!indexVars, Whole, Spare
  <1>3. CASE pc[j] \in Unpublished /\ pc'[j] \notin Unpublished
    <2>1. j \in Spare /\ Spare' = Spare \ {j}
      BY <1>3 DEF Spare
    <2>2. Index!GiveUp(j)
      BY <1>1, <2>1 DEF Index!GiveUp, Whole, Spare
    <2> QED  BY <2>2 DEF Index!IndexNext, Keys
  <1> QED  BY <1>2, <1>3

\* A step that changes nothing of the index is a stutter.
LEMMA StutterRefines ==
  ASSUME TypeOK, UNCHANGED <<store, pc>>, file'.active = file.active,
         file'.row = "deleted" <=> file.row = "deleted"
  PROVE  [Index!IndexNext]_(Index!indexVars)
  BY DEF Index!indexVars

\* So is one that takes vectors apart, unless they are searched.
LEMMA DropRefines ==
  ASSUME TypeOK, NEW k \in Keys, NEW content, content # "complete",
         store' = [store EXCEPT ![k] = content],
         file.row # "deleted" => k # file.active,
         UNCHANGED file, Spare' = Spare
  PROVE  [Index!IndexNext]_(Index!indexVars)
  <1>1. Whole' = Whole \ {k}
    BY DEF Whole, TypeOK
  <1>2. Index!Drop(k)
    BY <1>1 DEF Index!Drop, Whole, Spare
  <1> QED  BY <1>2 DEF Index!IndexNext

-----------------------------------------------------------------------------
LEMMA RefineRequest ==
  ASSUME TypeOK, NEW j \in Jobs, Request(j) \/ Api(j) \/ ApiFault(j)
  PROVE  [Index!IndexNext]_(Index!indexVars)
  <1> USE DEF Request, Api, ApiFault, RequestRefresh, RequestSync, RequestReprocess,
              RequestApproval, Enqueue, SaveJobId, UploadNotQueued, ReprocessNotQueued,
              ApprovalNotQueued, NotQueued, ApiDies
  <1>1. UNCHANGED <<store, pc>>
    OBVIOUS
  <1>2. file'.active = file.active /\ file'.row = file.row
    BY DEF TypeOK, FileRow
  <1> QED  BY <1>1, <1>2, StutterRefines

LEMMA RefinePrepare ==
  ASSUME TypeOK, RunsOnce, NEW j \in Jobs,
         \/ Dequeue(j) \/ Claim(j) \/ NotClaimed(j) \/ Load(j) \/ Begin(j)
         \/ DropOcr(j) \/ Parse(j) \/ ReuseParse(j) \/ PlanNothing(j)
         \/ PlanWithoutVision(j) \/ PlanVision(j) \/ Pause(j) \/ Stage(j)
         \/ Embed(j) \/ EmbedNothing(j) \/ Verify(j)
  PROVE  [Index!IndexNext]_(Index!indexVars)
  <1> USE DEF Dequeue, Claim, NotClaimed, Load, Begin, DropOcr, Parse, ReuseParse,
              PlanNothing, PlanWithoutVision, PlanVision, Plan, Pause, Stage, Embed,
              EmbedNothing, Verify, Ended, Goto
  <1>1. UNCHANGED store
    OBVIOUS
  <1>2. file'.active = file.active /\ file'.row = file.row
    BY DEF TypeOK, FileRow
  <1>3. \A i \in Jobs \ {j} : pc'[i] = pc[i]
    BY DEF TypeOK
  <1>4. pc[j] \in Unpublished
    BY DEF RunsOnce, Unpublished
  <1> QED  BY <1>1, <1>2, <1>3, <1>4, MoveRefines

LEMMA RefineFinish ==
  ASSUME TypeOK, NEW j \in Jobs,
         \/ RetireRow(j) \/ FinishOcr(j) \/ Finalize(j)
         \/ Cancel(j) \/ Record(j) \/ Fail(j) \/ Release(j) \/ Fault(j)
  PROVE  [Index!IndexNext]_(Index!indexVars)
  <1> USE DEF RetireRow, FinishOcr, Finalize, Cancel, Record, Fail, Release,
              Fault, Raise, Disconnect, ReleaseFails, LoseBatch, CleaningFails, Crash,
              Ended, Goto
  <1>1. UNCHANGED store
    OBVIOUS
  <1>2. file'.active = file.active /\ file'.row = file.row
    <2>1. CASE Finalize(j)
      <3>1. PICK status : file' = [file EXCEPT !.status = status]
        BY <2>1
      <3> QED  BY <3>1 DEF TypeOK, FileRow
    <2>2. CASE Fail(j)
      BY <2>2 DEF TypeOK, FileRow
    <2>3. CASE Release(j)
      BY <2>3 DEF TypeOK, FileRow
    <2>4. CASE ~(Finalize(j) \/ Fail(j) \/ Release(j))
      <3>1. UNCHANGED file
        BY <2>4
      <3> QED  BY <3>1
    <2> QED  BY <2>1, <2>2, <2>3, <2>4
  <1>3. \A i \in Jobs \ {j} : pc'[i] = pc[i]
    BY DEF TypeOK
  <1>4. pc'[j] \in Unpublished => pc[j] \in Unpublished
    BY DEF TypeOK, Unpublished
  <1> QED  BY <1>1, <1>2, <1>3, <1>4, MoveRefines

LEMMA RefineWrite ==
  ASSUME TypeOK, IndexInv, NEW j \in Jobs, WriteFirst(j) \/ WriteRest(j) \/ Discard(j)
  PROVE  [Index!IndexNext]_(Index!indexVars)
  <1>1. j # file.active
    BY DEF WriteFirst, WriteRest, Discard, Settled, Unpublished, IndexInv, ActiveSettled
  <1>2. UNCHANGED file
    BY DEF WriteFirst, WriteRest, Discard
  <1>3. Spare' = Spare
    BY DEF WriteFirst, WriteRest, Discard, Goto, TypeOK, Spare, Unpublished
  <1>4. CASE ~WriteRest(j) \/ store[j] # "partial"
    <2>1. PICK content : content # "complete" /\ store' = [store EXCEPT ![j] = content]
      BY <1>4 DEF WriteFirst, WriteRest, Discard
    <2> QED  BY <1>1, <1>2, <1>3, <2>1, DropRefines DEF Keys
  <1>5. CASE WriteRest(j) /\ store[j] = "partial"
    <2>1. store' = [store EXCEPT ![j] = "complete"]
      BY <1>5 DEF WriteRest
    <2>2. Whole' = Whole \cup {j}
      BY <2>1 DEF Whole, TypeOK, Keys
    <2>3. j \in Spare
      BY <1>5 DEF WriteRest, Spare, Unpublished
    <2>4. Index!Complete(j)
      BY <1>1, <1>2, <1>3, <2>2, <2>3 DEF Index!Complete, Whole, Spare
    <2> QED  BY <2>4 DEF Index!IndexNext, Keys
  <1> QED  BY <1>4, <1>5

LEMMA RefinePublish ==
  ASSUME TypeOK, IndexInv, NEW j \in Jobs, Publish(j)
  PROVE  [Index!IndexNext]_(Index!indexVars)
  <1>1. UNCHANGED store
    BY DEF Publish
  <1>2. CASE ~run[j].vectors
    <2>1. UNCHANGED file /\ \A i \in Jobs \ {j} : pc'[i] = pc[i]
      BY <1>2 DEF Publish, Goto, TypeOK
    <2>2. pc[j] \in Unpublished
      BY DEF Publish, Unpublished
    <2> QED  BY <1>1, <2>1, <2>2, MoveRefines
  <1>3. CASE run[j].vectors
    <2>1. Whole' = Whole /\ j \in Whole
      BY <1>1, <1>3, PublishSwaps DEF Whole, Keys
    <2>2. j \in Spare /\ Spare' = Spare \ {j}
      BY <1>3, PublishSwaps DEF Publish, Spare, Unpublished
    <2>3. Index!Swap(j)
      BY <1>3, <2>1, <2>2, PublishSwaps DEF Index!Swap, Whole, Spare
    <2> QED  BY <2>3 DEF Index!IndexNext, Keys
  <1> QED  BY <1>2, <1>3

LEMMA RefineRetire ==
  ASSUME TypeOK, IndexInv, NEW j \in Jobs, RetireIndex(j)
  PROVE  [Index!IndexNext]_(Index!indexVars)
  <1>1. run[j].prev \in Keys
    BY DEF TypeOK, Locals
  <1>2. run[j].prev # file.active
    BY DEF RetireIndex, IndexInv, RetiresInactive
  <1>3. store' = [store EXCEPT ![run[j].prev] = "absent"] /\ UNCHANGED file
    BY DEF RetireIndex
  <1>4. Spare' = Spare
    BY DEF RetireIndex, Goto, TypeOK, Spare, Unpublished
  <1> QED  BY <1>1, <1>2, <1>3, <1>4, DropRefines

LEMMA RefineEnvironment ==
  ASSUME TypeOK, IndexInv,
         \/ Sweep \/ User \/ DeleteNotQueued \/ Clean \/ CleanupFails
         \/ LeaseExpires \/ GraceElapses
  PROVE  [Index!IndexNext]_(Index!indexVars)
  <1>1. CASE Sweep \/ Trash \/ Restore \/ LeaseExpires \/ GraceElapses \/ CleanupFails
    <2> USE DEF Sweep, SweepWorkers, SweepFile, MarkInterrupted, SparedChanged, Trash,
                Restore, LeaseExpires, GraceElapses, CleanupFails
    <2>1. UNCHANGED <<store, pc>>
      BY <1>1
    <2>2. file'.active = file.active /\ (file.row = "deleted" <=> file'.row = "deleted")
      BY <1>1 DEF TypeOK, FileRow
    <2> QED  BY <2>1, <2>2, StutterRefines
  <1>2. CASE Delete \/ DeleteNotQueued
    <2>1. /\ UNCHANGED <<store, pc>>
          /\ file'.active = file.active /\ file.row # "deleted" /\ file'.row = "deleted"
      BY <1>2 DEF Delete, DeleteNotQueued, Purge, Gone
    <2>2. Index!Remove
      BY <2>1 DEF Index!Remove
    <2> QED  BY <2>2 DEF Index!IndexNext
  <1>3. CASE Clean
    <2>1. PICK k \in Keys : CleanIndex(k)
      BY <1>3 DEF Clean
    <2>2. file.row = "deleted" /\ UNCHANGED <<file, pc>>
      BY <2>1 DEF CleanIndex, IndexInv, CleansDeleted
    <2>3. store' = [store EXCEPT ![k] = "absent"] /\ Spare' = Spare
      BY <2>1 DEF CleanIndex, Spare
    <2> QED  BY <2>2, <2>3, DropRefines
  <1> QED  BY <1>1, <1>2, <1>3 DEF User

LEMMA RefineInit == Init => Index!IndexInit
  <1> SUFFICES ASSUME Init
               PROVE  Index!IndexInit
    OBVIOUS
  <1>1. file.row = "active" /\ file.active = Legacy /\ Legacy \in Keys
    BY DEF Init, InitUploaded, InitIndexed, Keys
  <1>2. Whole \in {{}, {Legacy}}
    BY DEF Init, InitUploaded, InitIndexed, Keys, Whole
  <1>3. Spare = Keys \ {Legacy}
    BY JobsAssumption DEF Init, Spare, Keys, Unpublished
  <1> QED  BY <1>1, <1>2, <1>3 DEF Index!IndexInit, Whole, Spare

LEMMA RefineNext ==
  TypeOK /\ RunsOnce /\ IndexInv /\ [Next]_vars => [Index!IndexNext]_(Index!indexVars)
  <1> SUFFICES ASSUME TypeOK, RunsOnce, IndexInv, [Next]_vars
               PROVE  [Index!IndexNext]_(Index!indexVars)
    OBVIOUS
  <1>1. ASSUME NEW j \in Jobs, Step(j)
        PROVE  [Index!IndexNext]_(Index!indexVars)
    BY <1>1, RefinePrepare, RefineWrite, RefinePublish, RefineRetire, RefineFinish DEF Step
  <1>2. CASE UNCHANGED vars
    BY <1>2, StutterRefines DEF vars
  <1> QED  BY <1>1, <1>2, RefineRequest, RefineFinish, RefineEnvironment DEF Next

-----------------------------------------------------------------------------
(* The theorems.                                                             *)

\* Ingestion keeps the promise of VersionedIndex: a replacement index becomes
\* the one searched in a single step and only once it is whole, whatever its
\* runs, the sweep and a deletion do in between.
THEOREM Refinement == Spec => ImplementsIndex
  <1>1. TypeOK /\ RunsOnce /\ IndexInv /\ [Next]_vars
          => [Index!IndexNext]_(Index!indexVars)
    BY RefineNext
  <1> QED  BY <1>1, RefineInit, InvInvariant, PTL DEF Spec, ImplementsIndex, Index!IndexSpec

\* What the promise is worth: no abstract step takes the searched index apart.
LEMMA PromiseKeepsServed ==
  ASSUME [Index!IndexNext]_(Index!indexVars),
         file.active \in Keys, file'.active \in Keys,
         Served, file'.row # "deleted"
  PROVE  Served'
  <1>1. file.active \in Whole
    BY DEF Whole, Served
  <1>2. file'.active \in Whole'
    BY <1>1 DEF Index!IndexNext, Index!indexVars, Index!Complete, Index!Swap, Index!GiveUp,
                Index!Drop, Index!Remove, Whole
  <1> QED  BY <1>2 DEF Whole, Served

\* Search is never interrupted: while the file exists no step of the system
\* takes it from a whole index to anything less.
THEOREM SearchUninterrupted == Spec => SearchNeverInterrupted
  <1>1. TypeOK /\ TypeOK' /\ RunsOnce /\ IndexInv /\ [Next]_vars
          => [Served /\ file'.row # "deleted" => Served']_vars
    BY RefineNext, PromiseKeepsServed DEF TypeOK, FileRow, Keys
  <1> QED  BY <1>1, TypeCorrect, InvInvariant, PTL DEF Spec, SearchNeverInterrupted

=============================================================================
