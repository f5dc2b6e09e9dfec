---------------------------- MODULE RecordProofs ----------------------------
(***************************************************************************)
(* What the rows of a file say is so: its lease, the attempt rows of its   *)
(* generations, its status, and the keys that its deletion cleans up.      *)
(***************************************************************************)
EXTENDS IndexProofs

-----------------------------------------------------------------------------
(* What a step of a run can do.                                              *)

Runs(j) == Step(j) \/ Fault(j)

Unwriting == Unpublished \ {"writing", "verify", "publish"}
AfterPublish == {"retire", "retire_row", "finish", "finalize"}

\* It moves no other run, and neither trashes, restores nor deletes the file.
LEMMA RunIsAlone ==
  ASSUME TypeOK, NEW j \in Jobs, Runs(j)
  PROVE  /\ \A i \in Jobs \ {j} : pc'[i] = pc[i] /\ run'[i] = run[i] /\ job'[i] = job[i]
         /\ file'.row = file.row /\ UNCHANGED cleanup
  <1> USE DEF TypeOK, FileRow, Ended, Goto
  <1>1. CASE \/ Dequeue(j) \/ Claim(j) \/ NotClaimed(j) \/ Load(j) \/ Begin(j)
             \/ DropOcr(j) \/ Parse(j) \/ ReuseParse(j) \/ PlanNothing(j)
             \/ PlanWithoutVision(j) \/ PlanVision(j) \/ Pause(j)
    BY <1>1 DEF Dequeue, Claim, NotClaimed, Load, Begin, DropOcr, Parse, ReuseParse,
                PlanNothing, PlanWithoutVision, PlanVision, Plan, Pause
  <1>2. CASE \/ Stage(j) \/ Embed(j) \/ EmbedNothing(j) \/ WriteFirst(j) \/ WriteRest(j)
             \/ Verify(j) \/ Publish(j) \/ RetireIndex(j) \/ RetireRow(j)
    BY <1>2 DEF Stage, Embed, EmbedNothing, WriteFirst, WriteRest, Verify, Publish,
                RetireIndex, RetireRow
  <1>3. CASE Finalize(j)
    <2>1. PICK status : file' = [file EXCEPT !.status = status]
      BY <1>3 DEF Finalize
    <2> QED  BY <1>3, <2>1 DEF Finalize
  <1>4. CASE FinishOcr(j) \/ Cancel(j) \/ Discard(j) \/ Record(j) \/ Fail(j) \/ Release(j)
    BY <1>4 DEF FinishOcr, Cancel, Discard, Record, Fail, Release
  <1>5. CASE Fault(j)
    BY <1>5 DEF Fault, Raise, Disconnect, ReleaseFails, LoseBatch, CleaningFails, Crash
  <1> QED  BY <1>1, <1>2, <1>3, <1>4, <1>5 DEF Runs, Step

\* It moves the pointer only in the publication that then retires the old key.
LEMMA RunPublishes ==
  ASSUME TypeOK, RunsOnce, NEW j \in Jobs, Runs(j)
  PROVE  /\ Settled(j) => Settled(j)'
         /\ pc'[j] = "retire" => Publish(j) /\ run[j].vectors
         /\ ~(Publish(j) /\ run[j].vectors) => file'.active = file.active
         /\ pc'[j] = "retire_row" => pc[j] = "retire" /\ run'[j].prev = run[j].prev
  <1> USE DEF TypeOK, FileRow, Ended, Goto, Settled, Unpublished
  <1>1. CASE \/ Dequeue(j) \/ Claim(j) \/ NotClaimed(j) \/ Load(j) \/ Begin(j)
             \/ DropOcr(j) \/ Parse(j) \/ ReuseParse(j) \/ PlanNothing(j)
             \/ PlanWithoutVision(j) \/ PlanVision(j) \/ Pause(j)
    <2>1. CASE Dequeue(j) \/ Claim(j) \/ NotClaimed(j)
      BY <2>1 DEF RunsOnce, Dequeue, Claim, NotClaimed
    <2>2. CASE Load(j) \/ Begin(j) \/ DropOcr(j)
      BY <2>2 DEF Load, Begin, DropOcr
    <2>3. CASE \/ Parse(j) \/ ReuseParse(j) \/ PlanNothing(j) \/ PlanWithoutVision(j)
               \/ PlanVision(j) \/ Pause(j)
      BY <2>3 DEF Parse, ReuseParse, PlanNothing, PlanWithoutVision, PlanVision, Plan, Pause
    <2> QED  BY <1>1, <2>1, <2>2, <2>3
  <1>2. CASE \/ Stage(j) \/ Embed(j) \/ EmbedNothing(j) \/ WriteFirst(j) \/ WriteRest(j)
             \/ Verify(j) \/ Publish(j) \/ RetireIndex(j) \/ RetireRow(j)
    BY <1>2 DEF Stage, Embed, EmbedNothing, WriteFirst, WriteRest, Verify, Publish,
                RetireIndex, RetireRow
  <1>3. CASE Finalize(j)
    <2>1. PICK status : file' = [file EXCEPT !.status = status]
      BY <1>3 DEF Finalize
    <2> QED  BY <1>3, <2>1 DEF Finalize
  <1>4. CASE FinishOcr(j) \/ Cancel(j) \/ Discard(j) \/ Record(j) \/ Fail(j) \/ Release(j)
    <2>1. file'.active = file.active
      <3>1. CASE Fail(j)
        BY <3>1 DEF Fail
      <3>2. CASE Release(j)
        BY <3>2 DEF Release
      <3>3. CASE ~(Fail(j) \/ Release(j))
        <4>1. UNCHANGED file
          BY <1>4, <3>3 DEF FinishOcr, Cancel, Discard, Record
        <4> QED  BY <4>1
      <3> QED  BY <3>1, <3>2, <3>3
    <2>2. pc'[j] \notin {"retire", "retire_row"} /\ (Settled(j) => Settled(j)')
      BY <1>4 DEF FinishOcr, Cancel, Discard, Record, Fail, Release
    <2> QED  BY <2>1, <2>2
  <1>5. CASE Fault(j)
    BY <1>5 DEF Fault, Raise, Disconnect, ReleaseFails, LoseBatch, CleaningFails, Crash
  <1> QED  BY <1>1, <1>2, <1>3, <1>4, <1>5 DEF Runs, Step

\* It writes vectors of its own generation only, from one stage to the next, and
\* deletes those of the key it retires.
LEMMA RunWrites ==
  ASSUME TypeOK, NEW j \in Jobs, Runs(j)
  PROVE  /\ \A k \in Keys \ {j} : store'[k] # store[k] =>
               pc[j] = "retire" /\ k = run[j].prev /\ store'[k] = "absent"
         /\ store'[j] # "absent" => store[j] # "absent" \/ pc[j] \in {"write", "writing"}
         /\ pc[j] \in {"discard", "retire"} => store'[j] \in {store[j], "absent"}
  <1> USE DEF TypeOK, Keys, Goto
  <1>1. CASE \/ Dequeue(j) \/ Claim(j) \/ NotClaimed(j) \/ Load(j) \/ Begin(j)
             \/ DropOcr(j) \/ Parse(j) \/ ReuseParse(j) \/ PlanNothing(j)
             \/ PlanWithoutVision(j) \/ PlanVision(j) \/ Pause(j)
    BY <1>1 DEF Dequeue, Claim, NotClaimed, Load, Begin, DropOcr, Parse, ReuseParse,
                PlanNothing, PlanWithoutVision, PlanVision, Plan, Pause
  <1>2. CASE \/ Stage(j) \/ Embed(j) \/ EmbedNothing(j) \/ Verify(j) \/ Publish(j)
             \/ RetireRow(j) \/ FinishOcr(j) \/ Finalize(j) \/ Cancel(j) \/ Record(j)
             \/ Fail(j) \/ Release(j) \/ Fault(j)
    BY <1>2 DEF Stage, Embed, EmbedNothing, Verify, Publish, RetireRow, FinishOcr,
       Finalize, Cancel, Record, Fail, Release, Fault, Raise, Disconnect, ReleaseFails,
       LoseBatch, CleaningFails, Crash
  <1>3. CASE WriteFirst(j) \/ WriteRest(j) \/ RetireIndex(j) \/ Discard(j)
    BY <1>3 DEF WriteFirst, WriteRest, RetireIndex, Discard, Locals
  <1> QED  BY <1>1, <1>2, <1>3 DEF Runs, Step

\* It records its own attempt, the end of those it overlaps and of the one it
\* retires, and deletes no row.
LEMMA RunRecords ==
  ASSUME TypeOK, NEW j \in Jobs, Runs(j), NEW i \in Jobs
  PROVE  /\ attempt[i] # "absent" => attempt'[i] # "absent"
         /\ attempt'[i] = "published" /\ attempt[i] # "published" =>
              i = j /\ Publish(j) /\ run[j].vectors
         /\ attempt[i] = "published" /\ attempt'[i] # "published" =>
              \/ pc[j] = "retire_row" /\ i = run[j].prev
              \/ i = j /\ ~Settled(j)
         /\ Staging(j)' => Staging(j) \/ attempt'[j] = "running"
  <1> USE DEF TypeOK, Goto, Staging
  <1>1. CASE \/ Dequeue(j) \/ Claim(j) \/ NotClaimed(j) \/ Load(j) \/ Begin(j)
             \/ DropOcr(j) \/ Parse(j) \/ ReuseParse(j) \/ PlanNothing(j)
             \/ PlanWithoutVision(j) \/ PlanVision(j) \/ Pause(j)
    BY <1>1 DEF Dequeue, Claim, NotClaimed, Load, Begin, DropOcr, Parse, ReuseParse,
                PlanNothing, PlanWithoutVision, PlanVision, Plan, Pause, Ended
  <1>2. CASE \/ Embed(j) \/ EmbedNothing(j) \/ WriteFirst(j) \/ WriteRest(j) \/ Verify(j)
             \/ RetireIndex(j) \/ FinishOcr(j) \/ Finalize(j) \/ Cancel(j) \/ Discard(j)
             \/ Fail(j) \/ Release(j) \/ Fault(j)
    <2>1. UNCHANGED attempt
      BY <1>2 DEF Embed, EmbedNothing, WriteFirst, WriteRest, Verify, RetireIndex,
         FinishOcr, Finalize, Cancel, Discard, Fail, Release, Fault, Raise, Disconnect,
         ReleaseFails, LoseBatch, CleaningFails, Crash
    <2>2. Staging(j)' => Staging(j)
      BY <1>2 DEF Embed, EmbedNothing, WriteFirst, WriteRest, Verify, RetireIndex,
         FinishOcr, Finalize, Cancel, Discard, Fail, Release, Fault, Raise, Disconnect,
         ReleaseFails, LoseBatch, CleaningFails, Crash, Ended
    <2> QED  BY <2>1, <2>2
  <1>3. CASE Stage(j)
    BY <1>3 DEF Stage, Settled, Unpublished
  <1>4. CASE Publish(j)
    BY <1>4 DEF Publish, Settled, Unpublished
  <1>5. CASE RetireRow(j)
    BY <1>5 DEF RetireRow
  <1>6. CASE Record(j)
    BY <1>6 DEF Record
  <1> QED  BY <1>1, <1>2, <1>3, <1>4, <1>5, <1>6 DEF Runs, Step

\* The order of the steps of a run: what it embedded decides whether it writes,
\* publishes and is processed, and the pointer it read is not read again.
LEMMA RunLocals ==
  ASSUME TypeOK, RunsOnce, NEW j \in Jobs, Runs(j)
  PROVE  /\ pc'[j] \in Unwriting => pc[j] \in Unwriting
         /\ pc[j] \in {"write", "writing"} =>
              pc'[j] \in {"writing", "verify", "discard", "crashed"}
         /\ pc'[j] = "publish" /\ ~run'[j].vectors =>
              pc[j] = "embed" \/ (pc[j] = "verify" /\ ~run[j].vectors)
         /\ pc'[j] \in {"write", "writing", "verify"} /\ ~run'[j].vectors =>
              pc[j] \in {"write", "writing", "verify"} /\ ~run[j].vectors
         /\ pc'[j] \in AfterPublish /\ run'[j].vectors =>
              (pc[j] \in AfterPublish \/ Publish(j)) /\ run[j].vectors
         /\ run'[j].base \in {run[j].base, file.active, Legacy}
  <1> USE DEF TypeOK, Ended, Goto, Unwriting, Unpublished, AfterPublish
  <1>1. CASE \/ Dequeue(j) \/ Claim(j) \/ NotClaimed(j) \/ Begin(j) \/ DropOcr(j)
             \/ PlanNothing(j) \/ PlanWithoutVision(j) \/ PlanVision(j) \/ Pause(j)
    BY <1>1 DEF RunsOnce, Dequeue, Claim, NotClaimed, Begin, DropOcr, PlanNothing,
                PlanWithoutVision, PlanVision, Plan, Pause, Fresh
  <1>2. CASE Load(j) \/ Parse(j) \/ ReuseParse(j)
    <2>1. CASE Load(j)
      BY <2>1 DEF Load, Locals
    <2>2. CASE Parse(j) \/ ReuseParse(j)
      <3>1. PICK pages : run' = [run EXCEPT ![j].pages = pages]
        BY <2>2 DEF Parse, ReuseParse
      <3>2. run'[j].base = run[j].base /\ pc'[j] = "plan"
        BY <2>2, <3>1 DEF Parse, ReuseParse, Locals
      <3> QED  BY <2>2, <3>2 DEF Parse, ReuseParse
    <2> QED  BY <1>2, <2>1, <2>2
  <1>3. CASE Embed(j)
    <2>1. PICK vectors \in BOOLEAN :
             /\ run' = [run EXCEPT ![j].vectors = vectors]
             /\ Goto(j, IF vectors THEN "write" ELSE "publish")
      BY <1>3 DEF Embed
    <2>2. run'[j].vectors = vectors /\ run'[j].base = run[j].base
      BY <2>1 DEF Locals
    <2>3. pc[j] = "embed" /\ pc'[j] = IF vectors THEN "write" ELSE "publish"
      BY <1>3, <2>1 DEF Embed
    <2> QED  BY <2>2, <2>3
  <1>4. CASE EmbedNothing(j) \/ WriteFirst(j) \/ WriteRest(j) \/ Verify(j)
    BY <1>4 DEF EmbedNothing, WriteFirst, WriteRest, Verify, Locals
  <1>5. CASE Publish(j)
    BY <1>5 DEF Publish, Locals
  <1>6. CASE \/ Stage(j) \/ RetireIndex(j) \/ RetireRow(j) \/ FinishOcr(j)
             \/ Finalize(j) \/ Discard(j) \/ Fail(j)
    BY <1>6 DEF Stage, RetireIndex, RetireRow, FinishOcr, Finalize, Discard, Fail
  <1>7. CASE Cancel(j)
    BY <1>7 DEF Cancel, Locals
  <1>8. CASE Record(j)
    <2>1. PICK raised : run' = [run EXCEPT ![j].raised = raised]
      BY <1>8 DEF Record
    <2> QED  BY <1>8, <2>1 DEF Record, Locals
  <1>9. CASE Release(j)
    BY <1>9 DEF Release, Fresh
  <1>10. CASE Fault(j)
    <2>1. CASE Raise(j)
      BY <2>1 DEF Raise, Locals
    <2>2. CASE Disconnect(j)
      BY <2>2 DEF Disconnect, Locals
    <2>3. CASE ReleaseFails(j) \/ LoseBatch(j) \/ CleaningFails(j) \/ Crash(j)
      BY <2>3 DEF ReleaseFails, LoseBatch, CleaningFails, Crash, Fresh
    <2> QED  BY <1>10, <2>1, <2>2, <2>3 DEF Fault
  <1> QED
    BY <1>1, <1>2, <1>3, <1>4, <1>5, <1>6, <1>7, <1>8, <1>9, <1>10 DEF Runs, Step

-----------------------------------------------------------------------------
(* What a step of anything else can do.                                      *)

Outside ==
  \/ \E j \in Jobs : Request(j) \/ Api(j) \/ ApiFault(j)
  \/ Sweep \/ Trash \/ Restore \/ LeaseExpires \/ GraceElapses \/ UNCHANGED vars
Deletes == Delete \/ DeleteNotQueued
Cleans == Clean \/ CleanupFails

LEMMA StepKinds ==
  ASSUME [Next]_vars
  PROVE  (\E j \in Jobs : Runs(j)) \/ Outside \/ Deletes \/ Cleans
  BY DEF Next, User, Runs, Outside, Deletes, Cleans

\* Requests, the sweep, the trash and time touch no vectors and no run, and end
\* attempts that were running.
LEMMA OutsideQuiet ==
  ASSUME TypeOK, Outside
  PROVE  /\ UNCHANGED <<store, pc, run, cleanup>>
         /\ file'.active = file.active
         /\ file'.row = "deleted" <=> file.row = "deleted"
         /\ file'.token \in {file.token, NoJob}
         /\ \A i \in Jobs : attempt'[i] = attempt[i]
                              \/ (attempt[i] = "running" /\ attempt'[i] = "abandoned")
  <1>1. ASSUME NEW j \in Jobs, Request(j) \/ Api(j) \/ ApiFault(j)
        PROVE  /\ UNCHANGED <<store, pc, run, cleanup, attempt>>
               /\ file'.active = file.active /\ file'.row = file.row
               /\ file'.token = file.token
    BY <1>1 DEF TypeOK, FileRow, Request, Api, ApiFault, RequestRefresh, RequestSync,
       RequestReprocess, RequestApproval, Enqueue, SaveJobId, UploadNotQueued,
       ReprocessNotQueued, ApprovalNotQueued, NotQueued, ApiDies
  <1>2. CASE MarkInterrupted
    <2>1. UNCHANGED <<store, pc, run, cleanup>>
      BY <1>2 DEF MarkInterrupted
    <2>2. file'.active = file.active /\ file'.row = file.row /\ file'.token = NoJob
      BY <1>2 DEF MarkInterrupted, TypeOK, FileRow
    <2>3. \A i \in Jobs : attempt'[i] = attempt[i]
                            \/ (attempt[i] = "running" /\ attempt'[i] = "abandoned")
      BY <1>2 DEF MarkInterrupted
    <2> QED  BY <2>1, <2>2, <2>3
  <1>3. CASE \/ SweepWorkers \/ SweepFile \/ SparedChanged \/ Trash \/ Restore
             \/ LeaseExpires \/ GraceElapses \/ UNCHANGED vars
    <2>1. UNCHANGED <<store, pc, run, cleanup, attempt>>
      BY <1>3 DEF SweepWorkers, SweepFile, SparedChanged, Trash, Restore, LeaseExpires,
                  GraceElapses, vars
    <2>2. /\ file'.active = file.active /\ file'.token = file.token
          /\ file'.row = "deleted" <=> file.row = "deleted"
      BY <1>3 DEF TypeOK, FileRow, SweepWorkers, SweepFile, SparedChanged, Trash, Restore,
                  LeaseExpires, GraceElapses, vars
    <2> QED  BY <2>1, <2>2
  <1>4. CASE \E j \in Jobs : Request(j) \/ Api(j) \/ ApiFault(j)
    BY <1>1, <1>4
  <1> QED  BY <1>2, <1>3, <1>4 DEF Outside, Sweep

LEMMA DeletesQuiet ==
  ASSUME TypeOK, Deletes
  PROVE  /\ UNCHANGED <<store, pc, run, job>>
         /\ file'.active = file.active /\ file'.row = "deleted" /\ file'.token = NoJob
         /\ \A i \in Jobs : attempt'[i] = "absent"
  BY DEF Deletes, Delete, DeleteNotQueued, Purge, Gone

LEMMA CleansQuiet ==
  ASSUME TypeOK, Cleans
  PROVE  /\ UNCHANGED <<file, attempt, pc, run, job>>
         /\ \A k \in Keys : store'[k] \in {store[k], "absent"}
  <1>1. ASSUME NEW k \in Keys, CleanIndex(k)
        PROVE  /\ UNCHANGED <<file, attempt, pc, run, job>>
               /\ \A l \in Keys : store'[l] \in {store[l], "absent"}
    BY <1>1 DEF CleanIndex, TypeOK
  <1>2. CASE CleanupFails
    BY <1>2 DEF CleanupFails
  <1> QED  BY <1>1, <1>2 DEF Cleans, Clean

-----------------------------------------------------------------------------
(* Faults spend a budget that nothing refills.                               *)

\* Nothing was killed, and no parser, provider, vector store or database failed.
Unbroken == faults.crashes = MaxCrashes /\ faults.errors = MaxErrors

\* Redis has taken every job it was given.
QueueUp == faults.queue = MaxQueueErrors

WithinBudget == /\ faults.crashes <= MaxCrashes /\ faults.errors <= MaxErrors
                /\ faults.queue <= MaxQueueErrors

Crashed == faults.crashes > 0 /\ faults' = [faults EXCEPT !.crashes = @ - 1]
QueueFailed == faults.queue > 0 /\ faults' = [faults EXCEPT !.queue = @ - 1]

LEMMA FaultsSpend ==
  ASSUME TypeOK, [Next]_vars
  PROVE  UNCHANGED faults \/ Crashed \/ Breaks \/ QueueFailed
  <1> USE DEF Crashed, QueueFailed
  <1>1. ASSUME NEW j \in Jobs, Request(j) \/ Api(j) \/ ApiFault(j)
        PROVE  UNCHANGED faults \/ Crashed \/ QueueFailed
    BY <1>1 DEF Request, Api, ApiFault, RequestRefresh, RequestSync, RequestReprocess,
       RequestApproval, Enqueue, SaveJobId, UploadNotQueued, ReprocessNotQueued,
       ApprovalNotQueued, NotQueued, ApiDies
  <1>2. ASSUME NEW j \in Jobs, Fault(j)
        PROVE  Crashed \/ Breaks
    BY <1>2 DEF Fault, Raise, Disconnect, ReleaseFails, LoseBatch, CleaningFails, Crash
  <1>3. ASSUME NEW j \in Jobs, Step(j)
        PROVE  UNCHANGED faults
    BY <1>3 DEF Step, Dequeue, Claim, NotClaimed, Load, Begin, DropOcr, Parse,
       ReuseParse, PlanNothing, PlanWithoutVision, PlanVision, Pause, Stage, Embed,
       EmbedNothing, WriteFirst, WriteRest, Verify, Publish, RetireIndex, RetireRow,
       FinishOcr, Finalize, Cancel, Discard, Record, Fail, Release
  <1>4. CASE Sweep \/ User \/ Clean \/ LeaseExpires \/ GraceElapses \/ UNCHANGED vars
    BY <1>4 DEF Sweep, SweepWorkers, SweepFile, MarkInterrupted, SparedChanged, User,
       Trash, Restore, Delete, Clean, CleanIndex, LeaseExpires, GraceElapses, vars
  <1>5. CASE DeleteNotQueued \/ CleanupFails
    BY <1>5 DEF DeleteNotQueued, CleanupFails
  <1> QED  BY <1>1, <1>2, <1>3, <1>4, <1>5 DEF Next

\* A budget once touched is never full again.
LEMMA BudgetFalls ==
  ASSUME TypeOK, WithinBudget, [Next]_vars
  PROVE  /\ WithinBudget'
         /\ Unbroken' => Unbroken /\ ~Crashed /\ ~Breaks
         /\ QueueUp' => QueueUp /\ ~QueueFailed
  <1> USE BoundsAssumption DEF TypeOK, Budget, WithinBudget, Unbroken, QueueUp
  <1>1. CASE UNCHANGED faults
    BY <1>1 DEF Crashed, Breaks, QueueFailed
  <1>2. CASE Crashed
    BY <1>2 DEF Crashed, Breaks, QueueFailed
  <1>3. CASE Breaks
    BY <1>3 DEF Crashed, Breaks, QueueFailed
  <1>4. CASE QueueFailed
    BY <1>4 DEF Crashed, Breaks, QueueFailed
  <1> QED  BY <1>1, <1>2, <1>3, <1>4, FaultsSpend

\* So with the budget still full the step was not a fault.
LEMMA CalmStep ==
  ASSUME TypeOK, WithinBudget, [Next]_vars, Unbroken'
  PROVE  /\ Unbroken
         /\ \/ \E j \in Jobs : Step(j)
            \/ Outside \/ Deletes \/ Clean
  <1>1. Unbroken /\ ~Crashed /\ ~Breaks
    BY BudgetFalls
  <1>2. ASSUME NEW j \in Jobs
        PROVE  ~Fault(j)
    BY <1>1, <1>2 DEF Fault, Raise, Disconnect, ReleaseFails, LoseBatch, CleaningFails,
                      Crash, Crashed
  <1>3. ~CleanupFails
    BY <1>1 DEF CleanupFails
  <1> QED  BY <1>1, <1>2, <1>3, StepKinds DEF Runs, Cleans

-----------------------------------------------------------------------------
(* The rows of a file: the invariant, whatever fails.                        *)

\* A run that has replaced an index retires another key than the one searched.
RetiresOther ==
  \A j \in Jobs : pc[j] \in {"retire", "retire_row"} =>
    /\ run[j].prev # file.active
    /\ run[j].prev \in Jobs => Settled(run[j].prev)

\* The row of the generation searched says so.
ActivePublished ==
  file.row # "deleted" /\ file.active \in Jobs => attempt[file.active] = "published"

\* A run that has not come to write, or has nothing to, has written nothing.
Unwritten ==
  \A j \in Jobs :
    /\ pc[j] \in Unwriting \/ (pc[j] = "publish" /\ ~run[j].vectors) => store[j] = "absent"
    /\ pc[j] \in {"write", "writing", "verify"} => run[j].vectors

\* Whoever stages or has staged vectors has an attempt row.
RowKept ==
  file.row # "deleted" =>
    \A j \in Jobs : Staging(j) \/ store[j] # "absent" => attempt[j] # "absent"

\* A file uploaded under generations has nothing under the legacy key.
LegacyUnused == "indexed" \notin Origins => store[Legacy] = "absent"

\* What a run read as the pointer, or put there, is a generation ever since.
Versioned ==
  \A j \in Jobs :
    run[j].base \in Jobs \/ (pc[j] \in AfterPublish /\ run[j].vectors) => file.active \in Jobs

RecordInv == /\ RetiresOther /\ ActivePublished /\ Unwritten
             /\ RowKept /\ LegacyUnused /\ Versioned

\* A step of a run keeps each part.
LEMMA RetiresOtherRun ==
  ASSUME TypeOK, RunsOnce, IndexInv, RetiresOther, NEW j \in Jobs, Runs(j)
  PROVE  RetiresOther'
  <1>1. \A i \in Jobs \ {j} : pc'[i] = pc[i] /\ run'[i] = run[i]
    BY RunIsAlone
  <1>2. \A i \in Jobs : Settled(i) => Settled(i)'
    BY <1>1, RunPublishes DEF Settled
  <1>3. CASE Publish(j) /\ run[j].vectors
    <2>1. /\ file'.active = j /\ ~Settled(j) /\ file.active # j
          /\ run'[j].prev = file.active /\ pc'[j] = "retire"
      BY <1>3, PublishSwaps
    <2> QED  BY <1>1, <1>2, <2>1 DEF RetiresOther, IndexInv, ActiveSettled
  <1>4. CASE ~(Publish(j) /\ run[j].vectors)
    <2>1. file'.active = file.active
      BY <1>4, RunPublishes
    <2>2. pc'[j] \in {"retire", "retire_row"} => pc[j] = "retire" /\ run'[j].prev = run[j].prev
      BY <1>4, RunPublishes
    <2> QED  BY <1>1, <1>2, <2>1, <2>2 DEF RetiresOther
  <1> QED  BY <1>3, <1>4

LEMMA ActivePublishedRun ==
  ASSUME TypeOK, RunsOnce, IndexInv, RetiresOther, ActivePublished, NEW j \in Jobs, Runs(j)
  PROVE  ActivePublished'
  <1>1. file'.row = file.row
    BY RunIsAlone
  <1>2. CASE Publish(j) /\ run[j].vectors
    <2>1. file'.active = j
      BY <1>2, PublishSwaps
    <2>2. attempt'[j] = "published"
      BY <1>2 DEF Publish, TypeOK
    <2> QED  BY <2>1, <2>2 DEF ActivePublished
  <1>3. CASE ~(Publish(j) /\ run[j].vectors)
    <2>1. file'.active = file.active
      BY <1>3, RunPublishes
    <2>2. SUFFICES ASSUME file.row # "deleted", file.active \in Jobs,
                          attempt'[file.active] # "published"
                   PROVE  FALSE
      BY <1>1, <2>1 DEF ActivePublished
    <2>3. attempt[file.active] = "published"
      BY <2>2 DEF ActivePublished
    <2>4. \/ pc[j] = "retire_row" /\ file.active = run[j].prev
          \/ file.active = j /\ ~Settled(j)
      BY <2>2, <2>3, RunRecords
    <2> QED  BY <2>2, <2>4 DEF RetiresOther, IndexInv, ActiveSettled
  <1> QED  BY <1>2, <1>3

LEMMA UnwrittenRun ==
  ASSUME TypeOK, RunsOnce, Unwritten, NEW j \in Jobs, Runs(j)
  PROVE  Unwritten'
  <1>1. \A i \in Jobs \ {j} : /\ pc'[i] = pc[i] /\ run'[i] = run[i]
                              /\ store'[i] \in {store[i], "absent"}
    BY RunIsAlone, RunWrites DEF Keys
  <1>2. store'[j] # "absent" => store[j] # "absent" \/ pc[j] \in {"write", "writing"}
    BY RunWrites
  <1>3. /\ pc'[j] \in Unwriting => pc[j] \in Unwriting
        /\ pc[j] \in {"write", "writing"} => pc'[j] \in {"writing", "verify", "discard", "crashed"}
        /\ pc'[j] = "publish" /\ ~run'[j].vectors =>
             pc[j] = "embed" \/ (pc[j] = "verify" /\ ~run[j].vectors)
        /\ pc'[j] \in {"write", "writing", "verify"} /\ ~run'[j].vectors =>
             pc[j] \in {"write", "writing", "verify"} /\ ~run[j].vectors
    BY RunLocals
  <1>4. /\ pc'[j] \in {"write", "writing", "verify"} => run'[j].vectors
        /\ pc'[j] = "publish" /\ ~run'[j].vectors => pc[j] = "embed"
    BY <1>3 DEF Unwritten, TypeOK, Locals
  <1>5. pc'[j] \in Unwriting \/ (pc'[j] = "publish" /\ ~run'[j].vectors) => store'[j] = "absent"
    BY <1>2, <1>3, <1>4 DEF Unwritten, Unwriting, Unpublished
  <1> QED  BY <1>1, <1>4, <1>5 DEF Unwritten

LEMMA RowKeptRun ==
  ASSUME TypeOK, RowKept, NEW j \in Jobs, Runs(j)
  PROVE  RowKept'
  <1>1. /\ file'.row = file.row
        /\ \A i \in Jobs \ {j} : pc'[i] = pc[i] /\ store'[i] \in {store[i], "absent"}
    BY RunIsAlone, RunWrites DEF Keys
  <1>2. store'[j] # "absent" => store[j] # "absent" \/ Staging(j)
    BY RunWrites DEF Staging
  <1>3. /\ \A i \in Jobs : attempt[i] # "absent" => attempt'[i] # "absent"
        /\ Staging(j)' => Staging(j) \/ attempt'[j] = "running"
    BY RunRecords
  <1> QED  BY <1>1, <1>2, <1>3 DEF RowKept, Staging

LEMMA LegacyUnusedRun ==
  ASSUME TypeOK, LegacyUnused, NEW j \in Jobs, Runs(j)
  PROVE  LegacyUnused'
  BY RunWrites, JobsAssumption DEF LegacyUnused, Keys

LEMMA VersionedRun ==
  ASSUME TypeOK, RunsOnce, IndexInv, Versioned, NEW j \in Jobs, Runs(j)
  PROVE  Versioned'
  <1>1. \A i \in Jobs \ {j} : pc'[i] = pc[i] /\ run'[i] = run[i]
    BY RunIsAlone
  <1>2. CASE Publish(j) /\ run[j].vectors
    BY <1>2, PublishSwaps DEF Versioned
  <1>3. CASE ~(Publish(j) /\ run[j].vectors)
    <2>1. file'.active = file.active
      BY <1>3, RunPublishes
    <2>2. /\ pc'[j] \in AfterPublish /\ run'[j].vectors => pc[j] \in AfterPublish /\ run[j].vectors
          /\ run'[j].base \in {run[j].base, file.active, Legacy}
      BY <1>3, RunLocals
    <2> QED  BY <1>1, <2>1, <2>2, JobsAssumption DEF Versioned
  <1> QED  BY <1>2, <1>3

\* So does any other step.
LEMMA RecordOutside ==
  ASSUME TypeOK, RecordInv, Outside
  PROVE  RecordInv'
  <1> USE OutsideQuiet DEF RecordInv
  <1>1. RetiresOther'
    BY DEF RetiresOther, Settled
  <1>2. ActivePublished'
    BY DEF ActivePublished
  <1>3. Unwritten' /\ LegacyUnused' /\ Versioned'
    BY DEF Unwritten, LegacyUnused, Versioned
  <1>4. RowKept'
    BY DEF RowKept, Staging
  <1> QED  BY <1>1, <1>2, <1>3, <1>4

LEMMA RecordDeletes ==
  ASSUME TypeOK, RecordInv, Deletes
  PROVE  RecordInv'
  BY DeletesQuiet
  DEF RecordInv, RetiresOther, Settled, ActivePublished, Unwritten, RowKept, LegacyUnused,
      Versioned

LEMMA RecordCleans ==
  ASSUME TypeOK, RecordInv, Cleans
  PROVE  RecordInv'
  BY CleansQuiet
  DEF RecordInv, RetiresOther, Settled, ActivePublished, Unwritten, RowKept, Staging,
      LegacyUnused, Versioned, Keys

LEMMA RecordInit == Init => RecordInv
  <1> SUFFICES ASSUME Init
               PROVE  RecordInv
    OBVIOUS
  <1>1. /\ file.active = Legacy
        /\ \A j \in Jobs : pc[j] = "idle" /\ run[j] = Fresh /\ store[j] = "absent"
    BY JobsAssumption DEF Init, InitUploaded, InitIndexed, Keys
  <1>2. LegacyUnused
    BY DEF Init, InitUploaded, InitIndexed, Keys, LegacyUnused
  <1> QED
    BY <1>1, <1>2, JobsAssumption DEF RecordInv, RetiresOther, ActivePublished, Unwritten,
       RowKept, Versioned, Fresh, Staging, AfterPublish

LEMMA RecordNext ==
  TypeOK /\ RunsOnce /\ IndexInv /\ RecordInv /\ [Next]_vars => RecordInv'
  <1> SUFFICES ASSUME TypeOK, RunsOnce, IndexInv, RecordInv, [Next]_vars
               PROVE  RecordInv'
    OBVIOUS
  <1>1. ASSUME NEW j \in Jobs, Runs(j)
        PROVE  RecordInv'
    BY <1>1, RetiresOtherRun, ActivePublishedRun, UnwrittenRun, RowKeptRun, LegacyUnusedRun,
       VersionedRun DEF RecordInv
  <1> QED  BY <1>1, StepKinds, RecordOutside, RecordDeletes, RecordCleans

-----------------------------------------------------------------------------
(* While nothing is killed and no call fails.                                *)

\* A run goes through all of its steps.
LEMMA StepOrder ==
  ASSUME TypeOK, RunsOnce, NEW j \in Jobs, Step(j)
  PROVE  /\ pc[j] \in {"write", "writing"} => pc'[j] \in {"writing", "verify"}
         /\ pc[j] = "verify" => pc'[j] \in {"publish", "discard"}
         /\ pc[j] = "publish" /\ run[j].vectors => pc'[j] = "discard" \/ Publish(j)
         /\ pc[j] = "discard" => store'[j] = "absent"
         /\ pc[j] = "retire" => /\ pc'[j] = "retire_row" /\ run' = run
                                /\ store'[run[j].prev] = "absent"
         /\ pc[j] = "retire_row" => RetireRow(j)
  <1> USE DEF TypeOK, Goto, Keys
  <1>1. CASE \/ Dequeue(j) \/ Claim(j) \/ NotClaimed(j) \/ Load(j) \/ Begin(j)
             \/ DropOcr(j) \/ Parse(j) \/ ReuseParse(j) \/ PlanNothing(j)
             \/ PlanWithoutVision(j) \/ PlanVision(j) \/ Pause(j) \/ Stage(j) \/ Embed(j)
             \/ EmbedNothing(j) \/ FinishOcr(j) \/ Finalize(j) \/ Record(j) \/ Fail(j)
             \/ Release(j)
    <2>1. pc[j] \notin {"write", "writing", "verify", "publish", "discard", "retire",
                        "retire_row"}
      BY <1>1 DEF RunsOnce, Dequeue, Claim, NotClaimed, Load, Begin, DropOcr, Parse,
         ReuseParse, PlanNothing, PlanWithoutVision, PlanVision, Plan, Pause, Stage, Embed,
         EmbedNothing, FinishOcr, Finalize, Record, Fail, Release
    <2> QED  BY <2>1
  <1>2. CASE WriteFirst(j) \/ WriteRest(j) \/ Verify(j) \/ Publish(j) \/ Cancel(j)
    BY <1>2 DEF WriteFirst, WriteRest, Verify, Publish, Cancel
  <1>3. CASE Discard(j)
    BY <1>3 DEF Discard
  <1>4. CASE RetireIndex(j)
    BY <1>4 DEF RetireIndex, Locals
  <1>5. CASE RetireRow(j)
    BY <1>5 DEF RetireRow
  <1> QED  BY <1>1, <1>2, <1>3, <1>4, <1>5 DEF Step

\* The lease belongs to a run that is past its claim.
Held(j) == pc[j] \in Working \ {"claim"}
LeaseHeld == Unbroken => \A j \in Jobs : file.token = j => Held(j)

\* A run takes the lease in its claim, and does not end with it.
LEMMA StepLease ==
  ASSUME TypeOK, RunsOnce, NEW j \in Jobs, Step(j)
  PROVE  /\ file'.token \in {file.token, j, NoJob}
         /\ file'.token = j /\ (file.token = j => Held(j)) => Held(j)'
  <1> USE JobsAssumption DEF TypeOK, FileRow, Goto, Held, Working
  <1>1. CASE Claim(j)
    BY <1>1 DEF Claim
  <1>2. CASE Dequeue(j) \/ NotClaimed(j)
    BY <1>2 DEF Dequeue, NotClaimed, RunsOnce
  <1>3. CASE \/ Load(j) \/ Begin(j) \/ DropOcr(j) \/ Parse(j) \/ ReuseParse(j)
             \/ PlanNothing(j) \/ PlanWithoutVision(j) \/ PlanVision(j) \/ Pause(j)
             \/ Stage(j) \/ Embed(j) \/ EmbedNothing(j)
    BY <1>3 DEF Load, Begin, DropOcr, Parse, ReuseParse, PlanNothing, PlanWithoutVision,
                PlanVision, Plan, Pause, Stage, Embed, EmbedNothing
  <1>4. CASE \/ WriteFirst(j) \/ WriteRest(j) \/ Verify(j) \/ RetireIndex(j)
             \/ RetireRow(j) \/ FinishOcr(j) \/ Cancel(j) \/ Discard(j) \/ Record(j)
    <2>1. UNCHANGED file
      BY <1>4 DEF WriteFirst, WriteRest, Verify, RetireIndex, RetireRow, FinishOcr, Cancel,
                  Discard, Record
    <2>2. Held(j)'
      BY <1>4 DEF WriteFirst, WriteRest, Verify, RetireIndex, RetireRow, FinishOcr, Cancel,
                  Discard, Record
    <2> QED  BY <2>1, <2>2
  <1>5. CASE Publish(j)
    BY <1>5 DEF Publish
  <1>6. CASE Finalize(j)
    <2>1. PICK status : file' = [file EXCEPT !.status = status]
      BY <1>6 DEF Finalize
    <2> QED  BY <1>6, <2>1 DEF Finalize
  <1>7. CASE Fail(j)
    <2>1. file'.token = file.token
      BY <1>7 DEF Fail
    <2> QED  BY <1>7, <2>1 DEF Fail
  <1>8. CASE Release(j)
    <2>1. file'.token \in {file.token, NoJob} /\ file'.token # j
      BY <1>8 DEF Release
    <2> QED  BY <2>1
  <1> QED  BY <1>1, <1>2, <1>3, <1>4, <1>5, <1>6, <1>7, <1>8 DEF Step

LEMMA LeaseHeldNext ==
  ASSUME TypeOK, RunsOnce, WithinBudget, LeaseHeld, [Next]_vars
  PROVE  LeaseHeld'
  <1> SUFFICES ASSUME Unbroken', NEW i \in Jobs, file'.token = i
               PROVE  Held(i)'
    BY DEF LeaseHeld
  <1>1. ASSUME NEW j \in Jobs, Step(j)
        PROVE  Held(i)'
    BY <1>1, CalmStep, StepLease, RunIsAlone, JobsAssumption DEF LeaseHeld, Held, Runs
  <1>2. CASE Outside
    BY <1>2, CalmStep, OutsideQuiet, JobsAssumption DEF LeaseHeld, Held
  <1>3. CASE Deletes
    BY <1>3, DeletesQuiet, JobsAssumption
  <1>4. CASE Clean
    BY <1>4, CalmStep, CleansQuiet DEF LeaseHeld, Held, Cleans
  <1> QED  BY <1>1, <1>2, <1>3, <1>4, CalmStep

\* A row still published is the active generation's, or about to be retired.
PublishedKnown == Unbroken => PublishedIsActive

LEMMA PublishedKnownNext ==
  ASSUME TypeOK, RunsOnce, IndexInv, WithinBudget, PublishedKnown, [Next]_vars
  PROVE  PublishedKnown'
  <1> SUFFICES ASSUME Unbroken', NEW i \in Jobs, attempt'[i] = "published"
               PROVE  \/ i = file'.active
                      \/ \E j \in Jobs : pc'[j] \in {"retire", "retire_row"} /\ run'[j].prev = i
    BY DEF PublishedKnown, PublishedIsActive
  <1>1. attempt[i] = "published" =>
          \/ i = file.active
          \/ \E j \in Jobs : pc[j] \in {"retire", "retire_row"} /\ run[j].prev = i
    BY CalmStep DEF PublishedKnown, PublishedIsActive
  <1>2. ASSUME NEW j \in Jobs, Step(j)
        PROVE  \/ i = file'.active
               \/ \E l \in Jobs : pc'[l] \in {"retire", "retire_row"} /\ run'[l].prev = i
    <2>1. CASE attempt[i] # "published"
      BY <1>2, <2>1, RunRecords, PublishSwaps DEF Runs
    <2>2. CASE attempt[i] = "published" /\ i = file.active
      BY <1>2, <2>2, RunPublishes, PublishSwaps DEF Runs
    <2>3. ASSUME NEW l \in Jobs, pc[l] \in {"retire", "retire_row"}, run[l].prev = i
          PROVE  pc'[l] \in {"retire", "retire_row"} /\ run'[l].prev = i
      <3>1. CASE l # j
        BY <1>2, <2>3, <3>1, RunIsAlone DEF Runs
      <3>2. CASE l = j /\ pc[j] = "retire"
        BY <1>2, <2>3, <3>2, StepOrder
      <3>3. CASE l = j /\ pc[j] = "retire_row"
        <4>1. RetireRow(j)
          BY <1>2, <3>3, StepOrder
        <4> QED  BY <2>3, <3>3, <4>1 DEF RetireRow
      <3> QED  BY <2>3, <3>1, <3>2, <3>3
    <2> QED  BY <1>1, <2>1, <2>2, <2>3
  <1>3. CASE Outside
    BY <1>1, <1>3, OutsideQuiet
  <1>4. CASE Deletes
    BY <1>4, DeletesQuiet
  <1>5. CASE Clean
    BY <1>1, <1>5, CleansQuiet DEF Cleans
  <1> QED  BY <1>2, <1>3, <1>4, <1>5, CalmStep

\* Vectors are the index, or a run has yet to publish, discard or retire them.
Accounted(k) ==
  \/ k = file.active
  \/ k \in Jobs /\ pc[k] \in {"writing", "verify", "publish", "discard"}
  \/ \E j \in Jobs : pc[j] = "retire" /\ run[j].prev = k
VectorsAccounted == Unbroken => \A k \in Keys : store[k] # "absent" => Accounted(k)

LEMMA AccountedRun ==
  ASSUME TypeOK, RunsOnce, IndexInv, Unwritten, NEW j \in Jobs, Step(j),
         NEW k \in Keys, Accounted(k) \/ k = j, store'[k] # "absent",
         store[k] # "absent" => Accounted(k)
  PROVE  Accounted(k)'
  <1>1. CASE k = file.active
    <2>1. CASE Publish(j) /\ run[j].vectors
      BY <1>1, <2>1, PublishSwaps DEF Accounted
    <2>2. CASE ~(Publish(j) /\ run[j].vectors)
      BY <1>1, <2>2, RunPublishes DEF Accounted, Runs
    <2> QED  BY <2>1, <2>2
  <1>2. ASSUME NEW l \in Jobs, pc[l] = "retire", run[l].prev = k
        PROVE  Accounted(k)'
    <2>1. l # j
      BY <1>2, StepOrder
    <2> QED  BY <1>2, <2>1, RunIsAlone DEF Accounted, Runs
  <1>3. CASE k \in Jobs \ {j} /\ pc[k] \in {"writing", "verify", "publish", "discard"}
    BY <1>3, RunIsAlone DEF Accounted, Runs
  <1>4. CASE k = j /\ pc[j] \in {"write", "writing", "verify"}
    <2>1. pc'[j] \in {"writing", "verify", "publish", "discard"}
      BY <1>4, StepOrder
    <2> QED  BY <1>4, <2>1 DEF Accounted
  <1>5. CASE k = j /\ pc[j] \in {"publish", "discard"}
    <2>1. store[j] # "absent" /\ pc[j] = "publish"
      BY <1>5, StepOrder, RunWrites DEF Runs
    <2>2. run[j].vectors
      BY <2>1 DEF Unwritten
    <2>3. CASE Publish(j)
      BY <1>5, <2>2, <2>3, PublishSwaps DEF Accounted
    <2>4. CASE pc'[j] = "discard"
      BY <1>5, <2>4 DEF Accounted
    <2> QED  BY <2>1, <2>2, <2>3, <2>4, StepOrder
  <1>6. k = j /\ pc[j] \notin {"write", "writing"} => store[j] # "absent"
    BY RunWrites DEF Runs
  <1> QED  BY <1>1, <1>2, <1>3, <1>4, <1>5, <1>6 DEF Accounted

LEMMA VectorsAccountedNext ==
  ASSUME TypeOK, RunsOnce, IndexInv, Unwritten, WithinBudget, VectorsAccounted, [Next]_vars
  PROVE  VectorsAccounted'
  <1> SUFFICES ASSUME Unbroken', NEW k \in Keys, store'[k] # "absent"
               PROVE  Accounted(k)'
    BY DEF VectorsAccounted
  <1>1. store[k] # "absent" => Accounted(k)
    BY CalmStep DEF VectorsAccounted
  <1>2. ASSUME NEW j \in Jobs, Step(j)
        PROVE  Accounted(k)'
    <2>1. k # j => store[k] # "absent"
      BY <1>2, RunWrites DEF Runs
    <2> QED  BY <1>1, <1>2, <2>1, AccountedRun
  <1>3. CASE Outside
    BY <1>1, <1>3, OutsideQuiet DEF Accounted
  <1>4. CASE Deletes
    BY <1>1, <1>4, DeletesQuiet DEF Accounted
  <1>5. CASE Clean
    BY <1>1, <1>5, CleansQuiet DEF Accounted, Cleans
  <1> QED  BY <1>2, <1>3, <1>4, <1>5, CalmStep

\* The cleanup that deletion queued still has the key that was searched.
ActiveCleaned ==
  Faultless /\ file.row = "deleted" /\ store[file.active] # "absent"
    => file.active \in cleanup.todo

LEMMA FaultlessFalls ==
  ASSUME TypeOK, WithinBudget, [Next]_vars, Faultless'
  PROVE  Faultless /\ Unbroken' /\ ~QueueFailed
  <1>1. Unbroken' /\ QueueUp'
    BY DEF Faultless, Unbroken, QueueUp
  <1>2. Unbroken /\ QueueUp /\ ~QueueFailed
    BY <1>1, BudgetFalls
  <1> QED  BY <1>1, <1>2 DEF Faultless, Unbroken, QueueUp, TypeOK, Budget

LEMMA ActiveCleanedNext ==
  ASSUME TypeOK, RunsOnce, IndexInv, WithinBudget, ActiveCleaned, [Next]_vars
  PROVE  ActiveCleaned'
  <1> SUFFICES ASSUME Faultless', file'.row = "deleted", store'[file'.active] # "absent"
               PROVE  file'.active \in cleanup'.todo
    BY DEF ActiveCleaned
  <1>1. Faultless /\ Unbroken' /\ ~QueueFailed
    BY FaultlessFalls
  <1>2. ASSUME NEW j \in Jobs, Step(j)
        PROVE  file'.active \in cleanup'.todo
    <2>1. file.row = "deleted" /\ UNCHANGED cleanup
      BY <1>2, RunIsAlone DEF Runs
    <2>2. ~Publish(j)
      BY <2>1 DEF Publish, Owns
    <2>3. file'.active = file.active
      BY <1>2, <2>2, RunPublishes DEF Runs
    <2>4. store[file.active] # "absent"
      <3>1. CASE file.active = j
        <4>1. pc[j] \notin {"write", "writing"}
          BY <3>1 DEF IndexInv, ActiveSettled, Settled, Unpublished
        <4> QED  BY <1>2, <2>3, <3>1, <4>1, RunWrites DEF Runs
      <3>2. CASE file.active # j
        <4>1. file.active \in Keys \ {j}
          BY <3>2 DEF TypeOK, FileRow
        <4>2. store'[file.active] = store[file.active] \/ store'[file.active] = "absent"
          BY <1>2, <4>1, RunWrites DEF Runs
        <4> QED  BY <2>3, <4>2
      <3> QED  BY <3>1, <3>2
    <2> QED  BY <1>1, <2>1, <2>3, <2>4 DEF ActiveCleaned
  <1>3. CASE Outside
    BY <1>1, <1>3, OutsideQuiet DEF ActiveCleaned
  <1>4. CASE Deletes
    BY <1>1, <1>4 DEF Deletes, Delete, DeleteNotQueued, QueueFailed, Purge, Gone,
                      CleanupTargets
  <1>5. CASE Clean
    <2>1. PICK k \in Keys : CleanIndex(k)
      BY <1>5 DEF Clean
    <2>2. store[file.active] # "absent" /\ file.active # k /\ UNCHANGED file
      BY <2>1 DEF CleanIndex, TypeOK, FileRow
    <2>3. file.active \in cleanup.todo
      BY <1>1, <2>2 DEF ActiveCleaned
    <2> QED  BY <2>1, <2>2, <2>3 DEF CleanIndex, TypeOK, CleanupJob
  <1> QED  BY <1>1, <1>2, <1>3, <1>4, <1>5, CalmStep

-----------------------------------------------------------------------------
(* The status.                                                               *)

LEMMA ServedStays ==
  ASSUME TypeOK, TypeOK', RunsOnce, IndexInv, [Next]_vars, Served, file'.row # "deleted"
  PROVE  Served'
  BY RefineNext, PromiseKeepsServed DEF TypeOK, FileRow, Keys

\* Whoever writes Processed; Fail restores it, or finds that it has published.
LEMMA ProcessedWritten ==
  ASSUME TypeOK, [Next]_vars, file'.status = "processed"
  PROVE  \/ file.status = "processed"
         \/ \E j \in Jobs : /\ pc[j] = "finalize" /\ run[j].vectors /\ Finalize(j)
         \/ \E j \in Jobs : /\ Fail(j)
                            /\ file.active # run[j].base \/ job[j].was = "processed"
         \/ MarkInterrupted /\ Retained
         \/ QueueFailed
  <1> USE DEF TypeOK, FileRow
  <1>1. ASSUME NEW j \in Jobs, Request(j) \/ Api(j) \/ ApiFault(j)
        PROVE  file.status = "processed" \/ QueueFailed
    <2>1. CASE UploadNotQueued(j) \/ ReprocessNotQueued(j) \/ ApprovalNotQueued(j)
      BY <2>1 DEF UploadNotQueued, ReprocessNotQueued, ApprovalNotQueued, NotQueued,
                  QueueFailed
    <2>2. CASE Request(j) \/ Api(j) \/ ApiDies(j)
      BY <2>2 DEF Request, Api, RequestRefresh, RequestSync, RequestReprocess,
                  RequestApproval, Enqueue, SaveJobId, ApiDies
    <2> QED  BY <1>1, <2>1, <2>2 DEF ApiFault
  <1>2. ASSUME NEW j \in Jobs, Runs(j), ~Finalize(j), ~Fail(j)
        PROVE  file.status = "processed"
    <2>1. CASE \/ Dequeue(j) \/ Claim(j) \/ NotClaimed(j) \/ Load(j) \/ Begin(j)
               \/ DropOcr(j) \/ Parse(j) \/ ReuseParse(j) \/ PlanNothing(j)
               \/ PlanWithoutVision(j) \/ PlanVision(j) \/ Pause(j) \/ Stage(j)
      BY <2>1 DEF Dequeue, Claim, NotClaimed, Load, Begin, DropOcr, Parse, ReuseParse,
                  PlanNothing, PlanWithoutVision, PlanVision, Plan, Pause, Stage
    <2>2. CASE Publish(j) \/ Release(j)
      BY <2>2 DEF Publish, Release
    <2>3. CASE \/ Embed(j) \/ EmbedNothing(j) \/ WriteFirst(j) \/ WriteRest(j) \/ Verify(j)
               \/ RetireIndex(j) \/ RetireRow(j) \/ FinishOcr(j) \/ Cancel(j)
               \/ Discard(j) \/ Record(j) \/ Fault(j)
      <3>1. UNCHANGED file
        BY <2>3 DEF Embed, EmbedNothing, WriteFirst, WriteRest, Verify, RetireIndex,
           RetireRow, FinishOcr, Cancel, Discard, Record, Fault, Raise, Disconnect,
           ReleaseFails, LoseBatch, CleaningFails, Crash
      <3> QED  BY <3>1
    <2> QED  BY <1>2, <2>1, <2>2, <2>3 DEF Runs, Step
  <1>3. ASSUME NEW j \in Jobs, Finalize(j)
        PROVE  pc[j] = "finalize" /\ run[j].vectors
    <2>1. PICK status \in ResolvedStatus(j) : file' = [file EXCEPT !.status = status]
      BY <1>3 DEF Finalize
    <2> QED  BY <1>3, <2>1 DEF Finalize, ResolvedStatus
  <1>4. ASSUME NEW j \in Jobs, Fail(j)
        PROVE  file.active # run[j].base \/ job[j].was = "processed"
    BY <1>4 DEF Fail
  <1>5. CASE MarkInterrupted
    BY <1>5 DEF MarkInterrupted
  <1>6. CASE \/ SweepWorkers \/ SweepFile \/ SparedChanged \/ Trash \/ Restore
             \/ LeaseExpires \/ GraceElapses \/ UNCHANGED vars
    BY <1>6 DEF SweepWorkers, SweepFile, SparedChanged, Trash, Restore, LeaseExpires,
                GraceElapses, vars
  <1>7. CASE Deletes
    BY <1>7 DEF Deletes, Delete, DeleteNotQueued, Purge, Gone
  <1>8. CASE Cleans
    BY <1>8, CleansQuiet
  <1> QED
    BY <1>1, <1>2, <1>3, <1>4, <1>5, <1>6, <1>7, <1>8, StepKinds DEF Outside, Sweep

\* A request to reprocess keeps the status it found, to restore it on failure.
LEMMA WasWritten ==
  ASSUME TypeOK, [Next]_vars, NEW j \in Jobs, job'[j].was = "processed"
  PROVE  job[j].was = "processed" \/ file.status = "processed"
  <1> USE DEF TypeOK, JobRecord
  <1>1. ASSUME NEW i \in Jobs, Request(i) \/ Api(i) \/ ApiFault(i)
        PROVE  job[j].was = "processed" \/ file.status = "processed"
    <2>1. CASE RequestReprocess(i)
      <3>1. PICK action \in Reprocess :
               job' = [job EXCEPT ![i] = [Noone EXCEPT !.kind = action, !.api = "enqueue",
                                                       !.was = file.status,
                                                       !.wasId = file.jobId]]
        BY <2>1 DEF RequestReprocess
      <3>2. job'[i].was = file.status
        BY <3>1 DEF Noone
      <3>3. i # j => job'[j] = job[j]
        BY <3>1
      <3> QED  BY <3>2, <3>3
    <2>2. CASE RequestRefresh(i) \/ RequestSync(i) \/ Enqueue(i) \/ SaveJobId(i)
      BY <2>2 DEF RequestRefresh, RequestSync, Enqueue, SaveJobId
    <2>3. CASE RequestApproval(i) \/ ApiFault(i)
      <3>1. CASE RequestApproval(i)
        <4>1. job'[i].was = "failed" /\ (i # j => job'[j] = job[j])
          BY <3>1 DEF RequestApproval, Noone
        <4> QED  BY <4>1
      <3>2. CASE UploadNotQueued(i) \/ ReprocessNotQueued(i) \/ ApprovalNotQueued(i)
        <4>1. job' = [job EXCEPT ![i] = Void]
          BY <3>2 DEF UploadNotQueued, ReprocessNotQueued, ApprovalNotQueued, NotQueued
        <4>2. Void.was = "failed"
          BY DEF Void, Noone
        <4> QED  BY <4>1, <4>2
      <3>3. CASE ApiDies(i)
        BY <3>3 DEF ApiDies, Void, Noone
      <3> QED  BY <2>3, <3>1, <3>2, <3>3 DEF ApiFault
    <2> QED  BY <1>1, <2>1, <2>2, <2>3 DEF Request, Api
  <1>2. ASSUME NEW i \in Jobs, Runs(i)
        PROVE  job[j].was = "processed"
    <2>1. CASE NotClaimed(i) \/ Release(i) \/ ReleaseFails(i)
      <3>1. PICK state : job' = [job EXCEPT ![i] = [Noone EXCEPT !.state = state,
                                                                !.api = job[i].api]]
        BY <2>1 DEF NotClaimed, Release, ReleaseFails, Ended
      <3>2. job'[i].was = "failed"
        BY <3>1 DEF Noone
      <3> QED  BY <1>2, <3>2, RunIsAlone
    <2>2. CASE Dequeue(i)
      BY <2>2 DEF Dequeue
    <2>3. CASE ~(Dequeue(i) \/ NotClaimed(i) \/ Release(i) \/ ReleaseFails(i))
      <3>1. UNCHANGED job
        BY <1>2, <2>3 DEF Runs, Step, Fault, Claim, Load, Begin, DropOcr, Parse,
           ReuseParse, PlanNothing, PlanWithoutVision, PlanVision, Pause, Stage, Embed,
           EmbedNothing, WriteFirst, WriteRest, Verify, Publish, RetireIndex, RetireRow,
           FinishOcr, Finalize, Cancel, Discard, Record, Fail, Raise, Disconnect,
           LoseBatch, CleaningFails, Crash
      <3> QED  BY <3>1
    <2> QED  BY <2>1, <2>2, <2>3
  <1>3. CASE \/ Sweep \/ Trash \/ Restore \/ LeaseExpires \/ GraceElapses
             \/ UNCHANGED vars
    <2>1. UNCHANGED job
      BY <1>3 DEF Sweep, SweepWorkers, SweepFile, MarkInterrupted, SparedChanged, Trash,
                  Restore, LeaseExpires, GraceElapses, vars
    <2> QED  BY <2>1
  <1> QED  BY <1>1, <1>2, <1>3, StepKinds, DeletesQuiet, CleansQuiet DEF Outside

\* Processed, or about to be restored to Processed, means searchable.
Searchable ==
  QueueUp => /\ ProcessedIsSearchable
             /\ \A j \in Jobs : file.row # "deleted" /\ job[j].was = "processed" => Served

LEMMA SearchableNext ==
  ASSUME TypeOK, TypeOK', RunsOnce, IndexInv, IndexInv', Versioned, WithinBudget,
         Searchable, [Next]_vars
  PROVE  Searchable'
  <1> SUFFICES ASSUME QueueUp', file'.row # "deleted",
                      \/ file'.status = "processed"
                      \/ \E j \in Jobs : job'[j].was = "processed"
               PROVE  Served'
    BY DEF Searchable, ProcessedIsSearchable
  <1>1. QueueUp /\ ~QueueFailed
    BY BudgetFalls
  <1>2. file.row # "deleted"
    BY StepKinds, RunIsAlone, OutsideQuiet, DeletesQuiet, CleansQuiet
  <1>3. file'.active \in Jobs => Served'
    BY DEF IndexInv, ActiveIndexStored, Served
  <1>4. file.active \in Jobs => Served
    BY <1>2 DEF IndexInv, ActiveIndexStored, Served
  <1>5. file.status = "processed" => Served
    BY <1>1, <1>2 DEF Searchable, ProcessedIsSearchable
  <1>6. ASSUME NEW j \in Jobs, job[j].was = "processed"
        PROVE  Served
    BY <1>1, <1>2, <1>6 DEF Searchable
  <1>7. ASSUME NEW j \in Jobs, job'[j].was = "processed"
        PROVE  Served
    BY <1>5, <1>6, <1>7, WasWritten
  <1>8. ASSUME file'.status = "processed"
        PROVE  Served
    <2>1. ASSUME NEW j \in Jobs, pc[j] = "finalize", run[j].vectors
          PROVE  Served
      BY <1>4, <2>1 DEF Versioned, AfterPublish
    <2>2. ASSUME NEW j \in Jobs, file.active # run[j].base
          PROVE  Served
      BY <1>4, <2>2 DEF Versioned, TypeOK, FileRow, Locals, Keys
    <2>3. CASE Retained
      BY <1>4, <2>3 DEF Retained
    <2> QED  BY <1>1, <1>5, <1>6, <1>8, <2>1, <2>2, <2>3, ProcessedWritten
  <1>9. Served
    BY <1>7, <1>8
  <1> QED  BY <1>9, ServedStays

-----------------------------------------------------------------------------
(* The lease is what stands between a run declared abandoned and publication: *)
(* whoever holds it while staging has a running attempt.                      *)

\* A step that gives nobody the lease, ends no attempt, and brings no run among
\* those that stage.
LEMMA LeaseQuiet ==
  ASSUME LeaseRunning, UNCHANGED attempt, file'.token \in {file.token, NoJob},
         \A i \in Jobs : Staging(i)' => Staging(i)
  PROVE  LeaseRunning'
  BY JobsAssumption DEF LeaseRunning

\* A step of run j that leaves it outside the stages it publishes from.
LEMMA LeaseLeaves ==
  ASSUME TypeOK, LeaseRunning, NEW j \in Jobs,
         ~Staging(j)',
         file'.token \in {file.token, j, NoJob},
         \A i \in Jobs \ {j} : pc'[i] = pc[i] /\ (attempt[i] = "running" =>
                                                     attempt'[i] = "running")
  PROVE  LeaseRunning'
  BY JobsAssumption DEF LeaseRunning, Staging

LEMMA LeaseRequest ==
  ASSUME TypeOK, LeaseRunning, NEW j \in Jobs, Request(j) \/ Api(j) \/ ApiFault(j)
  PROVE  LeaseRunning'
  <1> USE DEF Request, Api, ApiFault, RequestRefresh, RequestSync, RequestReprocess,
              RequestApproval, Enqueue, SaveJobId, UploadNotQueued, ReprocessNotQueued,
              ApprovalNotQueued, NotQueued, ApiDies
  <1>1. UNCHANGED <<attempt, pc>>
    OBVIOUS
  <1>2. file'.token = file.token
    BY DEF TypeOK, FileRow
  <1> QED  BY <1>1, <1>2, LeaseQuiet DEF Staging

LEMMA LeasePrepare ==
  ASSUME TypeOK, LeaseRunning, NEW j \in Jobs,
         \/ Dequeue(j) \/ Claim(j) \/ NotClaimed(j) \/ Load(j) \/ Begin(j)
         \/ DropOcr(j) \/ Parse(j) \/ ReuseParse(j) \/ PlanNothing(j)
         \/ PlanWithoutVision(j) \/ PlanVision(j) \/ Pause(j)
  PROVE  LeaseRunning'
  <1> USE DEF Dequeue, Claim, NotClaimed, Load, Begin, DropOcr, Parse, ReuseParse,
              PlanNothing, PlanWithoutVision, PlanVision, Plan, Pause, Ended, Goto
  <1>1. UNCHANGED attempt
    OBVIOUS
  <1>2. ~Staging(j)' /\ \A i \in Jobs \ {j} : pc'[i] = pc[i]
    BY DEF TypeOK, Staging
  <1>3. file'.token \in {file.token, j, NoJob}
    BY DEF TypeOK, FileRow
  <1> QED  BY <1>1, <1>2, <1>3, LeaseLeaves

LEMMA LeaseStage ==
  ASSUME TypeOK, LeaseRunning, NEW j \in Jobs, Stage(j)
  PROVE  LeaseRunning'
  <1>1. file.token = j /\ file'.token = j /\ attempt'[j] = "running"
    BY DEF Stage, Owns, TypeOK, FileRow
  <1> QED  BY <1>1 DEF LeaseRunning

LEMMA LeaseWrite ==
  ASSUME TypeOK, LeaseRunning, NEW j \in Jobs,
         \/ Embed(j) \/ EmbedNothing(j) \/ WriteFirst(j) \/ WriteRest(j) \/ Verify(j)
         \/ RetireIndex(j) \/ FinishOcr(j) \/ Discard(j)
  PROVE  LeaseRunning'
  <1> USE DEF Embed, EmbedNothing, WriteFirst, WriteRest, Verify, RetireIndex, FinishOcr,
              Discard, Goto
  <1>1. UNCHANGED <<attempt, file>>
    OBVIOUS
  <1>2. \A i \in Jobs : Staging(i)' => Staging(i)
    BY DEF TypeOK, Staging
  <1> QED  BY <1>1, <1>2, LeaseQuiet

LEMMA LeaseFinish ==
  ASSUME TypeOK, LeaseRunning, NEW j \in Jobs,
         \/ Publish(j) \/ RetireRow(j) \/ Finalize(j) \/ Cancel(j) \/ Record(j)
         \/ Fail(j) \/ Release(j)
  PROVE  LeaseRunning'
  <1> USE DEF Publish, RetireRow, Finalize, Cancel, Record, Fail, Release, Ended, Goto
  <1>1. ~Staging(j)'
    BY DEF TypeOK, Staging
  <1>2. file'.token \in {file.token, j, NoJob}
    <2>1. CASE Finalize(j)
      <3>1. PICK status : file' = [file EXCEPT !.status = status]
        BY <2>1
      <3> QED  BY <3>1 DEF TypeOK, FileRow
    <2>2. CASE ~Finalize(j)
      BY <2>2 DEF TypeOK, FileRow
    <2> QED  BY <2>1, <2>2
  <1>3. \A i \in Jobs \ {j} : pc'[i] = pc[i]
    BY DEF TypeOK
  <1>4. \A i \in Jobs \ {j} : attempt[i] = "running" => attempt'[i] = "running"
    BY DEF TypeOK
  <1> QED  BY <1>1, <1>2, <1>3, <1>4, LeaseLeaves

LEMMA LeaseFault ==
  ASSUME TypeOK, LeaseRunning, NEW j \in Jobs, Fault(j)
  PROVE  LeaseRunning'
  <1> USE DEF Fault, Raise, Disconnect, ReleaseFails, LoseBatch, CleaningFails, Crash,
              Ended, Goto
  <1>1. UNCHANGED <<attempt, file>>
    OBVIOUS
  <1>2. \A i \in Jobs : Staging(i)' => Staging(i)
    BY DEF TypeOK, Staging
  <1> QED  BY <1>1, <1>2, LeaseQuiet

LEMMA LeaseEnvironment ==
  ASSUME TypeOK, LeaseRunning,
         \/ Sweep \/ User \/ DeleteNotQueued \/ Clean \/ CleanupFails
         \/ LeaseExpires \/ GraceElapses
  PROVE  LeaseRunning'
  <1>1. CASE MarkInterrupted \/ Delete \/ DeleteNotQueued
    <2>1. file'.token = NoJob
      BY <1>1 DEF MarkInterrupted, Delete, DeleteNotQueued, Purge, Gone, TypeOK, FileRow
    <2> QED  BY <2>1, JobsAssumption DEF LeaseRunning
  <1>2. CASE ~(MarkInterrupted \/ Delete \/ DeleteNotQueued)
    <2> USE DEF Sweep, SweepWorkers, SweepFile, SparedChanged, User, Trash, Restore, Clean,
                CleanIndex, CleanupFails, LeaseExpires, GraceElapses
    <2>1. UNCHANGED <<attempt, pc>>
      BY <1>2
    <2>2. file'.token = file.token
      BY <1>2 DEF TypeOK, FileRow
    <2> QED  BY <2>1, <2>2, LeaseQuiet DEF Staging
  <1> QED  BY <1>1, <1>2

LEMMA LeaseNext == TypeOK /\ LeaseRunning /\ [Next]_vars => LeaseRunning'
  <1> SUFFICES ASSUME TypeOK, LeaseRunning, [Next]_vars
               PROVE  LeaseRunning'
    OBVIOUS
  <1>1. ASSUME NEW j \in Jobs, Step(j)
        PROVE  LeaseRunning'
    BY <1>1, LeasePrepare, LeaseStage, LeaseWrite, LeaseFinish DEF Step
  <1>2. CASE UNCHANGED vars
    BY <1>2, LeaseQuiet DEF vars, Staging
  <1> QED  BY <1>1, <1>2, LeaseRequest, LeaseFault, LeaseEnvironment DEF Next

-----------------------------------------------------------------------------
\* Only Publish writes that a generation is published.
LEMMA OnlyPublishPublishes ==
  ASSUME TypeOK, [Next]_vars, NEW j \in Jobs,
         attempt[j] # "published", attempt'[j] = "published"
  PROVE  Publish(j)
  <1>1. ASSUME NEW i \in Jobs, Request(i) \/ Api(i) \/ ApiFault(i) \/ Fault(i)
        PROVE  FALSE
    BY <1>1 DEF Request, Api, ApiFault, RequestRefresh, RequestSync, RequestReprocess,
                RequestApproval, Enqueue, SaveJobId, UploadNotQueued, ReprocessNotQueued,
                ApprovalNotQueued, NotQueued, ApiDies, Fault, Raise, Disconnect,
                ReleaseFails, LoseBatch, CleaningFails, Crash
  <1>2. ASSUME NEW i \in Jobs, Step(i), ~Publish(i)
        PROVE  FALSE
    <2>1. CASE Stage(i) \/ RetireRow(i) \/ Record(i)
      BY <2>1 DEF Stage, RetireRow, Record, TypeOK
    <2>2. CASE ~(Stage(i) \/ RetireRow(i) \/ Record(i))
      BY <1>2, <2>2 DEF Step, Dequeue, Claim, NotClaimed, Load, Begin, DropOcr, Parse,
         ReuseParse, PlanNothing, PlanWithoutVision, PlanVision, Plan, Pause, Embed,
         EmbedNothing, WriteFirst, WriteRest, Verify, RetireIndex, FinishOcr, Finalize,
         Cancel, Discard, Fail, Release
    <2> QED  BY <2>1, <2>2
  <1>3. ASSUME NEW i \in Jobs, Publish(i), i # j
        PROVE  FALSE
    BY <1>3 DEF Publish, TypeOK
  <1>4. ASSUME \/ Sweep \/ User \/ DeleteNotQueued \/ Clean \/ CleanupFails
               \/ LeaseExpires \/ GraceElapses \/ UNCHANGED vars
        PROVE  FALSE
    BY <1>4 DEF Sweep, SweepWorkers, SweepFile, MarkInterrupted, SparedChanged, User,
                Trash, Restore, Delete, DeleteNotQueued, Purge, Clean, CleanIndex,
                CleanupFails, LeaseExpires, GraceElapses, vars
  <1> QED  BY <1>1, <1>2, <1>3, <1>4 DEF Next

\* A run that a newer run or the sweep has declared abandoned never publishes,
\* however many overlap: publication checks the lease and not the attempt.
THEOREM AbandonedNeverPublish == Spec => PublishesOnlyRunning
  <1>1. Init => LeaseRunning
    BY DEF Init, LeaseRunning, Staging
  <1>2. ASSUME TypeOK, LeaseRunning, [Next]_vars
        PROVE  [\A j \in Jobs : attempt[j] # "published" /\ attempt'[j] = "published"
                  => attempt[j] = "running"]_vars
    <2>1. ASSUME NEW j \in Jobs, Publish(j)
          PROVE  attempt[j] = "running"
      BY <1>2, <2>1 DEF Publish, Owns, LeaseRunning, Staging
    <2> QED  BY <1>2, <2>1, OnlyPublishPublishes
  <1> QED  BY <1>1, <1>2, LeaseNext, TypeCorrect, PTL DEF Spec, PublishesOnlyRunning

-----------------------------------------------------------------------------
(* The invariants together, and what they say of every run of the system.    *)

RowsInv == /\ WithinBudget /\ RecordInv /\ LeaseHeld /\ PublishedKnown
           /\ VectorsAccounted /\ ActiveCleaned /\ Searchable

LEMMA RowsInit == Init => RowsInv
  <1> SUFFICES ASSUME Init
               PROVE  RowsInv
    OBVIOUS
  <1>1. /\ file.token = NoJob /\ file.active = Legacy /\ file.row = "active"
        /\ \A j \in Jobs : attempt[j] = "absent" /\ store[j] = "absent"
    BY JobsAssumption DEF Init, InitUploaded, InitIndexed, Keys
  <1>2. WithinBudget
    BY BoundsAssumption DEF Init, WithinBudget
  <1>3. LeaseHeld /\ PublishedKnown /\ VectorsAccounted /\ ActiveCleaned
    BY <1>1, JobsAssumption
    DEF LeaseHeld, PublishedKnown, PublishedIsActive, VectorsAccounted, Accounted, Keys,
        ActiveCleaned
  <1>4. \A j \in Jobs : job[j].was = "failed"
    BY DEF Init, InitUploaded, InitIndexed, Noone
  <1>5. file.status = "processed" => Served
    BY JobsAssumption DEF Init, InitUploaded, InitIndexed, Served, Keys
  <1>6. Searchable
    BY <1>4, <1>5 DEF Searchable, ProcessedIsSearchable
  <1> QED  BY <1>2, <1>3, <1>6, RecordInit DEF RowsInv

LEMMA RowsNext ==
  TypeOK /\ TypeOK' /\ RunsOnce /\ IndexInv /\ IndexInv' /\ RowsInv /\ [Next]_vars
    => RowsInv'
  BY BudgetFalls, RecordNext, LeaseHeldNext, PublishedKnownNext, VectorsAccountedNext,
     ActiveCleanedNext, SearchableNext DEF RowsInv, RecordInv

LEMMA RowsAlways ==
  Spec => [](TypeOK /\ RunsOnce /\ IndexInv /\ RowsInv)
  BY RowsInit, RowsNext, TypeCorrect, InvInvariant, PTL DEF Spec

\* The attempt rows read as a history: unless a worker is killed or a call fails
\* between the publication and the row it retires, what is still published is the
\* generation searched, or a run is just now retiring it.
THEOREM PublishedRowsAreActive == Spec => [](Unbroken => PublishedIsActive)
  <1>1. RowsInv => (Unbroken => PublishedIsActive)
    BY DEF RowsInv, PublishedKnown
  <1> QED  BY <1>1, RowsAlways, PTL

\* Nobody is refused a reprocess by a lease without a run: unless a worker is
\* killed or its release fails, the lease of a settled file is about to go.
THEOREM LeaseIsLive == Spec => [](Unbroken => SettledLeaseIsLive)
  <1>1. TypeOK /\ RowsInv => (Unbroken => SettledLeaseIsLive)
    BY DEF TypeOK, FileRow, RowsInv, LeaseHeld, Held, SettledLeaseIsLive, Live
  <1> QED  BY <1>1, RowsAlways, PTL

\* While nothing fails no vectors are orphans, wherever a deletion falls among
\* the batches of the runs that are writing.
THEOREM NoVectorIsOrphan == Spec => []NoOrphanVectors
  <1>1. ASSUME RowsInv
        PROVE  NoOrphanVectors
    <2>1. SUFFICES ASSUME Faultless, NEW k \in Keys, store[k] # "absent"
                   PROVE  \/ k = file.active /\ file.row # "deleted"
                          \/ k \in cleanup.todo
                          \/ k \in Jobs /\ pc[k] \in {"writing", "verify", "publish", "discard"}
                          \/ \E j \in Jobs : pc[j] = "retire" /\ run[j].prev = k
      BY DEF NoOrphanVectors
    <2>2. Unbroken
      BY <2>1 DEF Faultless, Unbroken
    <2>3. Accounted(k)
      BY <1>1, <2>1, <2>2 DEF RowsInv, VectorsAccounted
    <2>4. k = file.active /\ file.row = "deleted" => k \in cleanup.todo
      BY <1>1, <2>1 DEF RowsInv, ActiveCleaned
    <2> QED  BY <2>3, <2>4 DEF Accounted
  <1> QED  BY <1>1, RowsAlways, PTL

\* A deletion finds every vector of the file: whatever fails if it was uploaded
\* under generations, and if it was indexed before them as long as the run that
\* replaces that index is not stopped before it has retired it.
THEOREM VectorsAreTraceable ==
  Spec => [](Unbroken \/ "indexed" \notin Origins => VectorsTraceable)
  <1>1. ASSUME RowsInv, Unbroken \/ "indexed" \notin Origins
        PROVE  VectorsTraceable
    <2>1. SUFFICES ASSUME file.row # "deleted", NEW k \in Keys, store[k] # "absent"
                   PROVE  \/ k \in CleanupTargets
                          \/ \E j \in Jobs : pc[j] = "retire" /\ run[j].prev = k
      BY DEF VectorsTraceable
    <2>2. CASE k \in Jobs
      BY <1>1, <2>1, <2>2 DEF RowsInv, RecordInv, RowKept, CleanupTargets
    <2>3. CASE k = Legacy
      <3>1. Unbroken
        BY <1>1, <2>1, <2>3 DEF RowsInv, RecordInv, LegacyUnused
      <3>2. Accounted(k)
        BY <1>1, <2>1, <3>1 DEF RowsInv, VectorsAccounted
      <3> QED  BY <2>3, <3>2, JobsAssumption DEF Accounted, CleanupTargets
    <2> QED  BY <2>2, <2>3 DEF Keys
  <1> QED  BY <1>1, RowsAlways, PTL

\* A file that says Processed can be searched, whatever fails or is killed, as
\* long as Redis takes the jobs it is given: an approval that is not queued
\* restores the status from the OCR request and not from the file.
THEOREM ProcessedIsSearched == Spec => [](QueueUp => ProcessedIsSearchable)
  <1>1. RowsInv => (QueueUp => ProcessedIsSearchable)
    BY DEF RowsInv, Searchable
  <1> QED  BY <1>1, RowsAlways, PTL

-----------------------------------------------------------------------------
\* Only the sweep's own write ends a sweep and changes the file.
LEMMA OnlySweepInterrupts ==
  ASSUME TypeOK, [Next]_vars, Interrupted
  PROVE  MarkInterrupted
  <1> USE DEF Interrupted
  <1>1. UNCHANGED sweep \/ sweep' = Touched
          => sweep'.at = sweep.at
    BY DEF Touched, TypeOK, Observed
  <1>2. ASSUME NEW j \in Jobs, Request(j) \/ Api(j) \/ ApiFault(j) \/ Fault(j)
        PROVE  UNCHANGED sweep
    BY <1>2 DEF Request, Api, ApiFault, RequestRefresh, RequestSync, RequestReprocess,
       RequestApproval, Enqueue, SaveJobId, UploadNotQueued, ReprocessNotQueued,
       ApprovalNotQueued, NotQueued, ApiDies, Fault, Raise, Disconnect, ReleaseFails,
       LoseBatch, CleaningFails, Crash
  <1>3. ASSUME NEW j \in Jobs, Step(j)
        PROVE  UNCHANGED sweep \/ sweep' = Touched
    BY <1>3 DEF Step, Dequeue, Claim, NotClaimed, Load, Begin, DropOcr, Parse,
       ReuseParse, PlanNothing, PlanWithoutVision, PlanVision, Pause, Stage, Embed,
       EmbedNothing, WriteFirst, WriteRest, Verify, Publish, RetireIndex, RetireRow,
       FinishOcr, Finalize, Cancel, Discard, Record, Fail, Release
  <1>4. CASE User \/ DeleteNotQueued \/ Clean \/ CleanupFails \/ LeaseExpires
             \/ GraceElapses \/ UNCHANGED vars
    <2>1. UNCHANGED sweep \/ sweep' = Touched
      BY <1>4 DEF User, Trash, Restore, Delete, DeleteNotQueued, Purge, Clean, CleanIndex,
                  CleanupFails, LeaseExpires, GraceElapses, vars
    <2> QED  BY <1>1, <2>1
  <1>5. CASE Sweep
    BY <1>5 DEF Sweep, SweepWorkers, SweepFile, SparedChanged
  <1> QED  BY <1>1, <1>2, <1>3, <1>4, <1>5 DEF Next

\* The verdict of the sweep on an interrupted file is so, though it reads the
\* attempt row and not the vectors: for a file that generations have always
\* indexed, Processed if its index still works and Failed if it has none.
THEOREM SweepIsHonest ==
  ASSUME "indexed" \notin Origins
  PROVE  Spec => SweepVerdictHonest
  <1>1. ASSUME TypeOK, IndexInv, RowsInv, [Next]_vars
        PROVE  [Interrupted => (file'.status = "processed" <=> Served)]_vars
    <2>1. SUFFICES ASSUME MarkInterrupted
                   PROVE  file'.status = "processed" <=> Served
      BY <1>1, OnlySweepInterrupts
    <2>2. file.row = "active" /\ (file'.status = "processed" <=> Retained)
      BY <1>1, <2>1 DEF MarkInterrupted, Unchanged, TypeOK, FileRow
    <2>3. CASE file.active \in Jobs
      BY <1>1, <2>2, <2>3 DEF Retained, Served, IndexInv, ActiveIndexStored, RowsInv,
                              RecordInv, ActivePublished
    <2>4. CASE file.active = Legacy
      BY <1>1, <2>2, <2>4, JobsAssumption DEF Retained, Served, RowsInv, RecordInv,
                                              LegacyUnused
    <2> QED  BY <1>1, <2>3, <2>4 DEF TypeOK, FileRow, Keys
  <1> QED  BY <1>1, RowsAlways, PTL DEF Spec, SweepVerdictHonest

\* Without its lease a run past its claim touches neither the status of the file
\* nor the pointer, and but for DropOcr not the OCR request.
LEMMA StaleStep ==
  ASSUME TypeOK, RunsOnce, NEW j \in Jobs, Runs(j), Live(j), ~Owns(j),
         pc[j] \notin {"claim", "drop"}
  PROVE  ocr' = ocr /\ file'.status = file.status /\ file'.active = file.active
  <1>1. CASE Release(j)
    BY <1>1 DEF Release, TypeOK, FileRow
  <1>2. CASE Dequeue(j) \/ Claim(j) \/ NotClaimed(j) \/ DropOcr(j)
    BY <1>2 DEF Dequeue, Claim, NotClaimed, DropOcr, RunsOnce, Live, Working
  <1>3. CASE \/ Load(j) \/ Begin(j) \/ Parse(j) \/ PlanNothing(j) \/ PlanWithoutVision(j)
             \/ PlanVision(j) \/ Pause(j) \/ Stage(j) \/ Embed(j) \/ Publish(j)
             \/ Finalize(j) \/ Fail(j)
    BY <1>3 DEF Load, Begin, Parse, PlanNothing, PlanWithoutVision, PlanVision, Plan,
                Pause, Stage, Embed, Publish, Finalize, Fail
  <1>4. CASE \/ ReuseParse(j) \/ EmbedNothing(j) \/ WriteFirst(j) \/ WriteRest(j)
             \/ Verify(j) \/ RetireIndex(j) \/ RetireRow(j) \/ FinishOcr(j) \/ Cancel(j)
             \/ Discard(j) \/ Record(j)
    <2>1. UNCHANGED <<file, ocr>>
      BY <1>4 DEF ReuseParse, EmbedNothing, WriteFirst, WriteRest, Verify, RetireIndex,
                  RetireRow, FinishOcr, Cancel, Discard, Record
    <2> QED  BY <2>1
  <1>5. CASE Fault(j)
    <2>1. UNCHANGED <<file, ocr>>
      BY <1>5 DEF Fault, Raise, Disconnect, ReleaseFails, LoseBatch, CleaningFails, Crash
    <2> QED  BY <2>1
  <1> QED  BY <1>1, <1>2, <1>3, <1>4, <1>5 DEF Runs, Step

\* A run that has lost its lease changes nothing a user sees.
THEOREM StaleRunsAreSilent == Spec => StaleRunsChangeNothing
  <1>1. ASSUME TypeOK, RunsOnce, [Next]_vars, NEW j \in Jobs, Live(j), ~Owns(j),
               pc'[j] # pc[j], pc[j] \notin {"claim", "drop"}
        PROVE  ocr' = ocr /\ file'.status = file.status /\ file'.active = file.active
    <2>1. PICK i \in Jobs : Runs(i)
      BY <1>1, StepKinds, OutsideQuiet, DeletesQuiet, CleansQuiet
    <2>2. i = j
      BY <1>1, <2>1, RunIsAlone
    <2> QED  BY <1>1, <2>1, <2>2, StaleStep
  <1>2. TypeOK /\ RunsOnce /\ [Next]_vars
          => [\A j \in Jobs :
                Live(j) /\ ~Owns(j) /\ pc'[j] # pc[j] /\ pc[j] \notin {"claim", "drop"}
                  => /\ ocr' = ocr
                     /\ file'.status = file.status /\ file'.active = file.active]_vars
    BY <1>1
  <1> QED  BY <1>2, InvInvariant, PTL DEF Spec, StaleRunsChangeNothing

=============================================================================
