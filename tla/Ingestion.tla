------------------------------ MODULE Ingestion ------------------------------
(***************************************************************************)
(* The ingestion of one document: uploads, refreshes, reprocessing and OCR *)
(* approvals queue jobs, RQ workers run them against a lease on the File   *)
(* row, each run stages a vector generation and publishes it in one        *)
(* transaction, a periodic sweep recovers files left in Processing by a    *)
(* dead worker, and deleting the file cleans up what was ever staged.      *)
(*                                                                         *)
(* A job is one RQ job.  A run stages at most one generation, so the       *)
(* generation is named by the job that stages it; the lease token is named *)
(* likewise.  Legacy is the index key of a file indexed before generations *)
(* existed (its primary key, files/models.py vector_index_key).            *)
(***************************************************************************)
EXTENDS Naturals, FiniteSets

CONSTANTS
    Jobs,           \* RQ jobs, all of them for the one file
    NoJob,          \* a null job_id or ingestion_token
    Legacy,         \* the index key of a file with no generation
    Origins,        \* how the file starts: "uploaded", "indexed"
    Scans,          \* textless pages Docling may detect: "none", "few", "many"
    Events,         \* what users, time and the sweep may do to it after that
    MaxCrashes,     \* processes that may die
    MaxErrors,      \* calls to a parser, provider, vector store or database that may fail
    MaxQueueErrors  \* enqueues that may fail because Redis is unreachable

Reprocess == {"reparse", "retry"}

ASSUME JobsAssumption ==
    /\ IsFiniteSet(Jobs)
    /\ NoJob \notin Jobs
    /\ Legacy \notin Jobs
ASSUME EventsAssumption ==
    /\ Origins \subseteq {"uploaded", "indexed"}
    /\ Scans \subseteq {"none", "few", "many"}
    /\ Events \subseteq {"refresh", "sync", "approve", "sweep", "expire", "trash",
                         "delete"} \cup Reprocess
ASSUME BoundsAssumption ==
    MaxCrashes \in Nat /\ MaxErrors \in Nat /\ MaxQueueErrors \in Nat

VARIABLES
    file,       \* the File row
    ocr,        \* the status of its DocumentOcrRequest, "absent" without one
    attempt,    \* the VectorIndexAttempt row of each generation
    store,      \* what the vector database holds of each index key
    job,        \* RQ's record of each job and the request that made it
    pc,         \* where the run of each job is
    run,        \* the local variables of each run
    sweep,      \* the reconciliation sweep
    cleanup,    \* the delete_file_vectors job
    faults      \* how many more failures may happen

vars == <<file, ocr, attempt, store, job, pc, run, sweep, cleanup, faults>>

Keys == Jobs \cup {Legacy}

FileStatus == {"processing", "processed", "failed", "needs_ocr"}
OcrStatus == {"absent", "awaiting", "approved", "processing", "complete",
              "partial", "unavailable"}
AttemptStatus == {"absent", "running", "published", "empty", "failed",
                  "abandoned", "retired"}
JobState == {"unused", "void", "queued", "started", "finished", "failed"}

\* Steps of a run, in the order the code takes them, then the ways it ends.
Working == {"claim", "load", "begin", "drop", "parse", "plan", "pause", "stage",
            "embed", "write", "writing", "verify", "publish", "retire",
            "retire_row", "finish", "finalize", "discard", "record", "failing",
            "release"}
Steps == Working \cup {"idle", "crashed", "done"}

Live(j) == pc[j] \in Working

\* Mutant of Owns: the token is left out of the condition.
OwnsRow(j) == file.row = "active"

\* owned_file: the row is active and this run's token is on it.
Owns(j) == file.row = "active" /\ file.token = j

\* The index a search of this file reads is whole.
Served == store[file.active] = "complete"

-----------------------------------------------------------------------------
Noone == [kind |-> "upload", state |-> "unused", api |-> "none",
          was |-> "failed", wasId |-> NoJob, wasOcr |-> "absent"]
Void == [Noone EXCEPT !.state = "void"]
Fresh == [base |-> Legacy, prev |-> Legacy, ocr |-> "absent", pages |-> "none",
          vectors |-> FALSE, cancelled |-> FALSE, raised |-> FALSE]
Gone == [row |-> "deleted", status |-> "failed", jobId |-> NoJob, token |-> NoJob,
         expired |-> FALSE, recent |-> FALSE, active |-> Legacy]
Idle == [at |-> "off", running |-> {}, jobId |-> NoJob, token |-> NoJob,
         same |-> FALSE]
NoCleanup == [targets |-> {}, todo |-> {}, retries |-> 0]

\* A file whose upload has just committed, with its first job still to enqueue.
InitUploaded ==
    /\ file = [row |-> "active", status |-> "processing", jobId |-> NoJob,
               token |-> NoJob, expired |-> FALSE, recent |-> TRUE,
               active |-> Legacy]
    /\ ocr = "absent"
    /\ store = [k \in Keys |-> "absent"]
    /\ \E j \in Jobs : job = [[i \in Jobs |-> Noone] EXCEPT ![j].api = "enqueue"]

\* A file searched under its legacy key for so long that RQ forgot its job.
InitIndexed ==
    /\ file = [row |-> "active", status |-> "processed", jobId |-> NoJob,
               token |-> NoJob, expired |-> FALSE, recent |-> FALSE,
               active |-> Legacy]
    /\ ocr \in {"absent"} \cup (IF Scans = {"none"} THEN {} ELSE {"partial"})
    /\ store = [k \in Keys |-> IF k = Legacy THEN "complete" ELSE "absent"]
    /\ job = [j \in Jobs |-> Noone]

Init ==
    /\ \/ "uploaded" \in Origins /\ InitUploaded
       \/ "indexed" \in Origins /\ InitIndexed
    /\ attempt = [j \in Jobs |-> "absent"]
    /\ pc = [j \in Jobs |-> "idle"]
    /\ run = [j \in Jobs |-> Fresh]
    /\ sweep = Idle
    /\ cleanup = NoCleanup
    /\ faults = [crashes |-> MaxCrashes, errors |-> MaxErrors,
                 queue |-> MaxQueueErrors]

-----------------------------------------------------------------------------
(* Requests.  Each commits its transaction, then talks to RQ, then in most   *)
(* cases writes job_id back: three steps, with anything in between.          *)

\* Any change of updated_at defeats a sweep that read the row before it.
Touched == [sweep EXCEPT !.same = FALSE]

Ask(j, kind) ==
    /\ kind \in Events
    /\ job[j].state = "unused" /\ job[j].api = "none"
    /\ file.row = "active"

\* reprocess_documents: processed files only, and the job id is not kept.
RequestRefresh(j) ==
    /\ Ask(j, "refresh")
    /\ file.status = "processed"
    /\ job' = [job EXCEPT ![j].kind = "refresh", ![j].state = "queued"]
    /\ UNCHANGED <<file, ocr, attempt, store, pc, run, sweep, cleanup, faults>>

\* A changed SyftBox file: whatever its status, and job_id is saved afterwards.
RequestSync(j) ==
    /\ Ask(j, "sync")
    /\ job' = [job EXCEPT ![j].kind = "sync", ![j].state = "queued",
                          ![j].api = "save"]
    /\ UNCHANGED <<file, ocr, attempt, store, pc, run, sweep, cleanup, faults>>

\* Image descriptions to retry, which only the enrichment of a run can have left.
FailedImages == \E i \in Jobs : attempt[i] # "absent"

\* DocumentReprocessingService.start up to its commit.
RequestReprocess(j) ==
    \E action \in Reprocess :
        /\ Ask(j, action)
        /\ file.status # "processing" /\ file.token = NoJob
        /\ action = "retry" => FailedImages
        /\ job' = [job EXCEPT ![j] = [Noone EXCEPT !.kind = action,
                                                   !.api = "enqueue",
                                                   !.was = file.status,
                                                   !.wasId = file.jobId]]
        /\ file' = [file EXCEPT !.status = "processing", !.jobId = j]
        /\ UNCHANGED <<ocr, attempt, store, pc, run, sweep, cleanup, faults>>

\* DocumentOcrApprovalService.start up to its commit: neither the status of
\* the file nor its lease is looked at.
RequestApproval(j) ==
    /\ Ask(j, "approve")
    /\ ocr \in {"awaiting", "partial"}
    /\ job' = [job EXCEPT ![j] = [Noone EXCEPT !.kind = "approve",
                                               !.api = "enqueue",
                                               !.wasOcr = ocr]]
    /\ ocr' = "approved"
    /\ file' = [file EXCEPT !.status = "processing"]
    /\ UNCHANGED <<attempt, store, pc, run, sweep, cleanup, faults>>

Enqueue(j) ==
    /\ job[j].api = "enqueue"
    /\ job' = [job EXCEPT ![j].state = "queued",
                          ![j].api = IF job[j].kind \in Reprocess THEN "none"
                                                                  ELSE "save",
                          ![j].wasId = NoJob, ![j].wasOcr = "absent"]
    /\ UNCHANGED <<file, ocr, attempt, store, pc, run, sweep, cleanup, faults>>

SaveJobId(j) ==
    /\ job[j].api = "save"
    /\ job' = [job EXCEPT ![j].api = "none"]
    /\ file' = IF file.row = "deleted" THEN file ELSE [file EXCEPT !.jobId = j]
    /\ UNCHANGED <<ocr, attempt, store, pc, run, sweep, cleanup, faults>>

NotQueued(j, kinds) ==
    /\ job[j].api = "enqueue" /\ job[j].kind \in kinds
    /\ faults.queue > 0
    /\ faults' = [faults EXCEPT !.queue = @ - 1]
    /\ job' = [job EXCEPT ![j] = Void]
    /\ UNCHANGED <<attempt, store, pc, run, sweep, cleanup>>

UploadNotQueued(j) ==
    /\ NotQueued(j, {"upload"})
    /\ file' = IF file.row = "deleted" THEN file
               ELSE [file EXCEPT !.status = "failed"]
    /\ UNCHANGED ocr

\* The restore is conditioned on this job's id still being on the row.
ReprocessNotQueued(j) ==
    /\ NotQueued(j, Reprocess)
    /\ file' = IF file.row = "active" /\ file.jobId = j
               THEN [file EXCEPT !.status = job[j].was, !.jobId = job[j].wasId]
               ELSE file
    /\ UNCHANGED ocr

\* _restore_after_queue_failure: the file status is written unconditionally,
\* and taken from the OCR status instead of from the file.
ApprovalNotQueued(j) ==
    /\ NotQueued(j, {"approve"})
    /\ ocr' = IF ocr = "approved" THEN job[j].wasOcr ELSE ocr
    /\ file' = IF file.row = "active"
               THEN [file EXCEPT !.status = IF job[j].wasOcr = "awaiting"
                                            THEN "needs_ocr" ELSE "processed"]
               ELSE file

\* The web process dies between its commit and what it does next.
ApiDies(j) ==
    /\ job[j].api # "none"
    /\ faults.crashes > 0
    /\ faults' = [faults EXCEPT !.crashes = @ - 1]
    /\ job' = [job EXCEPT ![j] = IF @.api = "enqueue" THEN Void
                                 ELSE [@ EXCEPT !.api = "none"]]
    /\ UNCHANGED <<file, ocr, attempt, store, pc, run, sweep, cleanup>>

-----------------------------------------------------------------------------
(* The run of a job: DocumentIngestionService.process and what it calls.     *)

Goto(j, step) == pc' = [pc EXCEPT ![j] = step]

\* The job function returned, or raised, and its locals are gone; the request
\* that queued it may still have its job id to save.
Ended(j, state) ==
    /\ job' = [job EXCEPT ![j] = [Noone EXCEPT !.state = state, !.api = job[j].api]]
    /\ run' = [run EXCEPT ![j] = Fresh]
    /\ Goto(j, "done")

Dequeue(j) ==
    /\ job[j].state = "queued"
    /\ job' = [job EXCEPT ![j].state = "started"]
    /\ Goto(j, "claim")
    /\ UNCHANGED <<file, ocr, attempt, store, run, sweep, cleanup, faults>>

\* A reprocess job is bound to the row that asked for it, any other is not.
CanClaim(j) ==
    /\ file.row = "active"
    /\ job[j].kind \in Reprocess => file.jobId = j /\ file.status = "processing"
    /\ file.token = NoJob \/ file.expired

Claim(j) ==
    /\ pc[j] = "claim"
    /\ CanClaim(j)
    /\ file' = [file EXCEPT !.token = j, !.expired = FALSE]
    /\ Goto(j, "load")
    /\ UNCHANGED <<ocr, attempt, store, job, run, sweep, cleanup, faults>>

\* Already running, or gone: the job returns None and has finished.
NotClaimed(j) ==
    /\ pc[j] = "claim"
    /\ ~CanClaim(j)
    /\ Ended(j, "finished")
    /\ UNCHANGED <<file, ocr, attempt, store, sweep, cleanup, faults>>

\* Only an OCR request never approved stops a plain run before it starts.
SkipsOcr(j) == job[j].kind \notin Reprocess /\ ocr = "awaiting"

Load(j) ==
    /\ pc[j] = "load"
    /\ Owns(j)
    /\ run' = [run EXCEPT ![j].base = file.active, ![j].ocr = ocr]
    /\ Goto(j, IF SkipsOcr(j) THEN "release" ELSE "begin")
    /\ UNCHANGED <<file, ocr, attempt, store, job, sweep, cleanup, faults>>

\* A run of transcriptions already paid for leaves the OCR request untouched.
Reuses(j) ==
    \/ job[j].kind = "retry"
    \/ job[j].kind # "reparse" /\ run[j].ocr \in {"complete", "partial"}

Begin(j) ==
    /\ pc[j] = "begin"
    /\ Owns(j)
    /\ file' = [file EXCEPT !.status = "processing"]
    /\ Goto(j, IF job[j].kind = "reparse" THEN "drop" ELSE "parse")
    /\ UNCHANGED <<ocr, attempt, store, job, run, sweep, cleanup, faults>>

\* The one write of a run that nothing conditions on its lease.
DropOcr(j) ==
    /\ pc[j] = "drop"
    /\ ocr' = "absent"
    /\ Goto(j, "parse")
    /\ UNCHANGED <<file, attempt, store, job, run, sweep, cleanup, faults>>

\* Docling may fall back to the basic parser, which sees no scanned page.
Parse(j) ==
    /\ pc[j] = "parse" /\ job[j].kind # "retry"
    /\ Owns(j)
    /\ \E pages \in Scans \cup {"none"} : run' = [run EXCEPT ![j].pages = pages]
    /\ file' = [file EXCEPT !.recent = TRUE]
    /\ sweep' = Touched
    /\ Goto(j, "plan")
    /\ UNCHANGED <<ocr, attempt, store, job, cleanup, faults>>

\* The parse saved on the OCR request, which only a scanned document has, or on
\* the file for a retry.
ReuseParse(j) ==
    /\ pc[j] = "parse"
    /\ \/ job[j].kind = "retry"
       \/ /\ job[j].kind # "reparse"
          /\ run[j].ocr \in {"approved", "complete", "partial"}
    /\ \E pages \in Scans :
        /\ job[j].kind # "retry" => pages # "none"
        /\ run' = [run EXCEPT ![j].pages = pages]
    /\ Goto(j, "plan")
    /\ UNCHANGED <<file, ocr, attempt, store, job, sweep, cleanup, faults>>

Plan(j) == pc[j] = "plan" /\ Owns(j)

PlanNothing(j) ==
    /\ Plan(j)
    /\ Reuses(j) \/ run[j].pages = "none"
    /\ Goto(j, "stage")
    /\ UNCHANGED <<file, ocr, attempt, store, job, run, sweep, cleanup, faults>>

\* No vision model for this wallet: go on without the scanned pages.
PlanWithoutVision(j) ==
    /\ Plan(j)
    /\ ~Reuses(j) /\ run[j].pages # "none"
    /\ ocr' = "unavailable"
    /\ Goto(j, "stage")
    /\ UNCHANGED <<file, attempt, store, job, run, sweep, cleanup, faults>>

\* DocumentOcrWorkflowService.prepare with a vision model at hand.
PlanVision(j) ==
    /\ Plan(j)
    /\ ~Reuses(j) /\ run[j].pages # "none"
    /\ LET plan == IF ocr \in {"absent", "unavailable"} THEN "awaiting" ELSE ocr
           waits == \/ plan \in {"partial", "complete"}
                    \/ plan = "awaiting" /\ run[j].pages = "many"
       IN  /\ ocr' = IF waits THEN plan ELSE "processing"
           /\ Goto(j, IF waits THEN "pause" ELSE "stage")
    /\ UNCHANGED <<file, attempt, store, job, run, sweep, cleanup, faults>>

Pause(j) ==
    /\ pc[j] = "pause"
    /\ Owns(j)
    /\ file' = [file EXCEPT !.status = "needs_ocr"]
    /\ Goto(j, "release")
    /\ UNCHANGED <<ocr, attempt, store, job, run, sweep, cleanup, faults>>

\* The enriched text is saved on the file; then come the attempt row of the
\* generation, and the end of any other still running.
Stage(j) ==
    /\ pc[j] = "stage"
    /\ Owns(j)
    /\ file' = [file EXCEPT !.recent = TRUE]
    /\ sweep' = Touched
    /\ attempt' = [i \in Jobs |-> IF i = j THEN "running"
                                  ELSE IF attempt[i] = "running" THEN "abandoned"
                                  ELSE attempt[i]]
    /\ Goto(j, "embed")
    /\ UNCHANGED <<ocr, store, job, run, cleanup, faults>>

Embed(j) ==
    /\ pc[j] = "embed"
    /\ Owns(j)
    /\ \E vectors \in BOOLEAN :
        /\ vectors \/ job[j].kind \notin Reprocess
        /\ run' = [run EXCEPT ![j].vectors = vectors]
        /\ Goto(j, IF vectors THEN "write" ELSE "publish")
    /\ UNCHANGED <<file, ocr, attempt, store, job, sweep, cleanup, faults>>

\* require_vectors: an empty replacement keeps the index it would replace.
EmbedNothing(j) ==
    /\ pc[j] = "embed"
    /\ job[j].kind \in Reprocess
    /\ run' = [run EXCEPT ![j].raised = TRUE]
    /\ Goto(j, "record")
    /\ UNCHANGED <<file, ocr, attempt, store, job, sweep, cleanup, faults>>

\* Two batches stand for any number of them: between them the generation can
\* be deleted under the run.
WriteFirst(j) ==
    /\ pc[j] = "write"
    /\ store' = [store EXCEPT ![j] = "partial"]
    /\ Goto(j, "writing")
    /\ UNCHANGED <<file, ocr, attempt, job, run, sweep, cleanup, faults>>

WriteRest(j) ==
    /\ pc[j] = "writing"
    /\ store' = [store EXCEPT ![j] = IF @ = "partial" THEN "complete" ELSE "partial"]
    /\ Goto(j, "verify")
    /\ UNCHANGED <<file, ocr, attempt, job, run, sweep, cleanup, faults>>

\* Mutant of Verify: acknowledged batches are believed.
VerifyNothing(j) ==
    /\ pc[j] = "verify"
    /\ Goto(j, "publish")
    /\ UNCHANGED <<file, ocr, attempt, store, job, run, sweep, cleanup, faults>>

\* Read-back verification, and what a mismatch raises.
Verify(j) ==
    /\ pc[j] = "verify"
    /\ IF store[j] = "complete"
       THEN Goto(j, "publish") /\ UNCHANGED run
       ELSE /\ Goto(j, "discard")
            /\ run' = [run EXCEPT ![j].raised = TRUE]
    /\ UNCHANGED <<file, ocr, attempt, store, job, sweep, cleanup, faults>>

\* Mutant of Publish: an empty generation replaces the index too.
PublishAnything(j) ==
    /\ pc[j] = "publish"
    /\ Owns(j)
    /\ run' = [run EXCEPT ![j].prev = file.active]
    /\ file' = [file EXCEPT !.active = j]
    /\ attempt' = [attempt EXCEPT ![j] = "published"]
    /\ Goto(j, "retire")
    /\ UNCHANGED <<ocr, store, job, sweep, cleanup, faults>>

\* The map, the generation pointer and the attempt row commit together.
Publish(j) ==
    /\ pc[j] = "publish"
    /\ Owns(j)
    /\ IF run[j].vectors
       THEN /\ run' = [run EXCEPT ![j].prev = file.active]
            /\ file' = [file EXCEPT !.active = j]
            /\ attempt' = [attempt EXCEPT ![j] = "published"]
            /\ Goto(j, "retire")
       ELSE /\ attempt' = [attempt EXCEPT ![j] = "empty"]
            /\ Goto(j, "finish")
            /\ UNCHANGED <<run, file>>
    /\ UNCHANGED <<ocr, store, job, sweep, cleanup, faults>>

\* Mutant of RetireIndex: it deletes the key the file points at now.
RetireCurrent(j) ==
    /\ pc[j] = "retire"
    /\ store' = [store EXCEPT ![file.active] = "absent"]
    /\ Goto(j, "retire_row")
    /\ UNCHANGED <<file, ocr, attempt, job, run, sweep, cleanup, faults>>

\* _retire_generation: the vectors first, then the row that stood for them.
RetireIndex(j) ==
    /\ pc[j] = "retire"
    /\ store' = [store EXCEPT ![run[j].prev] = "absent"]
    /\ Goto(j, "retire_row")
    /\ UNCHANGED <<file, ocr, attempt, job, run, sweep, cleanup, faults>>

\* Mutant of RetireRow: it looks for the row among the running ones.
RetireRunningRow(j) ==
    /\ pc[j] = "retire_row"
    /\ attempt' = [i \in Jobs |-> IF i = run[j].prev /\ attempt[i] = "running"
                                  THEN "retired" ELSE attempt[i]]
    /\ Goto(j, "finish")
    /\ UNCHANGED <<file, ocr, store, job, run, sweep, cleanup, faults>>

RetireRow(j) ==
    /\ pc[j] = "retire_row"
    /\ attempt' = [i \in Jobs |-> IF i = run[j].prev /\ attempt[i] = "published"
                                  THEN "retired" ELSE attempt[i]]
    /\ Goto(j, "finish")
    /\ UNCHANGED <<file, ocr, store, job, run, sweep, cleanup, faults>>

\* What DocumentOcrWorkflowService.finish may find: no page transcribed, some, or
\* all.  Without a vision model only the pages of an approved run's predecessor.
Transcribed(j) ==
    {"unavailable"}
    \cup {s \in {"partial", "complete"} :
            /\ run[j].pages # "none"
            /\ ocr = "unavailable" => run[j].ocr = "approved" /\ s = "partial"}

FinishOcr(j) ==
    /\ pc[j] = "finish"
    /\ \/ Reuses(j) /\ UNCHANGED ocr
       \/ ~Reuses(j) /\ Owns(j) /\ ocr = "absent" /\ UNCHANGED ocr
       \/ /\ ~Reuses(j) /\ Owns(j) /\ ocr # "absent"
          /\ ocr' \in Transcribed(j)
    /\ Goto(j, "finalize")
    /\ UNCHANGED <<file, attempt, store, job, run, sweep, cleanup, faults>>

\* Mutant of ResolvedStatus: a run without error is Processed, whatever it stored.
ProcessedAnyway(j) == {"processed"}

\* _resolve_status: only a file of nothing but scanned pages still needs OCR.
ResolvedStatus(j) ==
    IF run[j].vectors THEN {"processed"}
    ELSE {"failed"} \cup (IF run[j].pages = "none" THEN {} ELSE {"needs_ocr"})

\* Mutant of Finalize: the status is saved without the lease in its condition.
FinalizeAnyway(j) ==
    /\ pc[j] = "finalize"
    /\ file.row # "deleted"
    /\ \E status \in ResolvedStatus(j) : file' = [file EXCEPT !.status = status]
    /\ Goto(j, "release")
    /\ UNCHANGED <<ocr, attempt, store, job, run, sweep, cleanup, faults>>

Finalize(j) ==
    /\ pc[j] = "finalize"
    /\ Owns(j)
    /\ \E status \in ResolvedStatus(j) : file' = [file EXCEPT !.status = status]
    /\ Goto(j, "release")
    /\ UNCHANGED <<ocr, attempt, store, job, run, sweep, cleanup, faults>>

\* Mutant of Release: it only looks among the active files.
ReleaseActive(j) ==
    /\ pc[j] = "release"
    /\ file' = IF Owns(j) THEN [file EXCEPT !.token = NoJob, !.expired = FALSE]
               ELSE file
    /\ Ended(j, IF run[j].raised THEN "failed" ELSE "finished")
    /\ UNCHANGED <<ocr, attempt, store, sweep, cleanup, faults>>

\* The finally clause: whatever became of the row, drop the lease if it is ours.
Release(j) ==
    /\ pc[j] = "release"
    /\ file' = IF file.token = j
               THEN [file EXCEPT !.token = NoJob, !.expired = FALSE]
               ELSE file
    /\ Ended(j, IF run[j].raised THEN "failed" ELSE "finished")
    /\ UNCHANGED <<ocr, attempt, store, sweep, cleanup, faults>>

-----------------------------------------------------------------------------
(* How a run goes wrong.                                                     *)

\* Mutant of Cancel: a cancelled publication leaves what it staged.
CancelLeaving(j) ==
    /\ ~Owns(j)
    /\ pc[j] \in {"load", "begin", "drop", "parse", "plan", "pause", "stage",
                  "embed", "publish", "finish", "finalize", "failing"}
    /\ pc[j] = "finish" => ~Reuses(j)
    /\ Goto(j, IF pc[j] \in {"publish", "embed"} THEN "record" ELSE "release")
    /\ run' = [run EXCEPT ![j].cancelled = TRUE, ![j].raised = FALSE]
    /\ UNCHANGED <<file, ocr, attempt, store, job, sweep, cleanup, faults>>

\* IngestionCancelled: a conditioned write or check finds the lease lost.
\* Inside create_file_embeddings staged vectors and attempt row come first.
Cancel(j) ==
    /\ ~Owns(j)
    /\ pc[j] \in {"load", "begin", "drop", "parse", "plan", "pause", "stage",
                  "embed", "publish", "finish", "finalize", "failing"}
    /\ pc[j] = "finish" => ~Reuses(j)
    /\ Goto(j, CASE pc[j] = "publish" /\ run[j].vectors -> "discard"
                 [] pc[j] = "publish" /\ ~run[j].vectors -> "record"
                 [] pc[j] = "embed" -> "record"
                 [] OTHER -> "release")
    /\ run' = [run EXCEPT ![j].cancelled = TRUE, ![j].raised = FALSE]
    /\ UNCHANGED <<file, ocr, attempt, store, job, sweep, cleanup, faults>>

Breaks == faults.errors > 0 /\ faults' = [faults EXCEPT !.errors = @ - 1]

\* A parser, a provider, the vector store or the publication's transaction
\* fails; after publication, closing the journey stage or retiring the row can.
Raise(j) ==
    /\ pc[j] \in {"parse", "stage", "embed", "write", "writing", "verify",
                  "publish", "retire", "retire_row"}
    /\ Breaks
    /\ Goto(j, CASE pc[j] \in {"parse", "stage", "retire", "retire_row"} -> "failing"
                 [] pc[j] \in {"write", "writing", "verify"} -> "discard"
                 [] pc[j] = "publish" /\ run[j].vectors -> "discard"
                 [] OTHER -> "record")
    /\ run' = [run EXCEPT ![j].raised = TRUE]
    /\ UNCHANGED <<file, ocr, attempt, store, job, sweep, cleanup>>

\* A DatabaseError outside create_file_embeddings: no handler but the release.
Disconnect(j) ==
    /\ pc[j] \in {"load", "begin", "drop", "parse", "plan", "pause", "finish",
                  "finalize", "failing"}
    /\ Breaks
    /\ Goto(j, "release")
    /\ run' = [run EXCEPT ![j].raised = TRUE]
    /\ UNCHANGED <<file, ocr, attempt, store, job, sweep, cleanup>>

\* A DatabaseError in the release itself leaves the lease on the row.
ReleaseFails(j) ==
    /\ pc[j] = "release"
    /\ Breaks
    /\ Ended(j, "failed")
    /\ UNCHANGED <<file, ocr, attempt, store, sweep, cleanup>>

\* A batch is acknowledged and yet not there to be read back.
LoseBatch(j) ==
    /\ pc[j] = "writing"
    /\ Breaks
    /\ Goto(j, "verify")
    /\ UNCHANGED <<file, ocr, attempt, store, job, run, sweep, cleanup>>

Discard(j) ==
    /\ pc[j] = "discard"
    /\ store' = [store EXCEPT ![j] = "absent"]
    /\ Goto(j, "record")
    /\ UNCHANGED <<file, ocr, attempt, job, run, sweep, cleanup, faults>>

\* A vector store that refuses to delete is logged and left at that.
CleaningFails(j) ==
    /\ pc[j] \in {"discard", "retire"}
    /\ Breaks
    /\ Goto(j, IF pc[j] = "discard" THEN "record" ELSE "retire_row")
    /\ UNCHANGED <<file, ocr, attempt, store, job, run, sweep, cleanup>>

\* The attempt row, which may have been abandoned or deleted meanwhile.
Record(j) ==
    /\ pc[j] = "record"
    /\ LET cancelled == run[j].cancelled \/ ~Owns(j)
       IN  /\ attempt' = [attempt EXCEPT ![j] =
                            IF @ # "running" THEN @
                            ELSE IF cancelled THEN "abandoned" ELSE "failed"]
           /\ run' = [run EXCEPT ![j].raised = ~cancelled]
           /\ Goto(j, IF cancelled THEN "release" ELSE "failing")
    /\ UNCHANGED <<file, ocr, store, job, sweep, cleanup, faults>>

\* The except clause of _process.
Fail(j) ==
    /\ pc[j] = "failing"
    /\ Owns(j)
    /\ IF job[j].kind \notin Reprocess
       THEN file' = [file EXCEPT !.status = "failed"] /\ UNCHANGED ocr
       ELSE IF file.active # run[j].base
       THEN file' = [file EXCEPT !.status = "processed"] /\ UNCHANGED ocr
       ELSE /\ file' = [file EXCEPT !.status = job[j].was]
            /\ ocr' = IF job[j].kind = "reparse" THEN run[j].ocr ELSE ocr
    /\ Goto(j, "release")
    /\ UNCHANGED <<attempt, store, job, run, sweep, cleanup, faults>>

\* The worker is killed: nothing more of the run happens.
Crash(j) ==
    /\ Live(j)
    /\ faults.crashes > 0
    /\ faults' = [faults EXCEPT !.crashes = @ - 1]
    /\ Goto(j, "crashed")
    /\ run' = [run EXCEPT ![j] = Fresh]
    /\ UNCHANGED <<file, ocr, attempt, store, job, sweep, cleanup>>

-----------------------------------------------------------------------------
(* Time.  A lease expires a minute after the job timeout.  A run that is slow *)
(* may outlive it: parsers and enrichment catch the exception with which RQ  *)
(* ends a job and go on, RQ looks for overdue children every half minute,    *)
(* and nobody looks after a child whose parent was killed.  The grace of a   *)
(* sweep is counted from updated_at.                                         *)

LeaseExpires ==
    /\ "expire" \in Events
    /\ file.token # NoJob /\ ~file.expired
    /\ file' = [file EXCEPT !.expired = TRUE]
    /\ UNCHANGED <<ocr, attempt, store, job, pc, run, sweep, cleanup, faults>>

GraceElapses ==
    /\ file.recent
    /\ file' = [file EXCEPT !.recent = FALSE]
    /\ UNCHANGED <<ocr, attempt, store, job, pc, run, sweep, cleanup, faults>>

-----------------------------------------------------------------------------
(* reconcile_interrupted_ingestions: its reads and its write, one at a time. *)

SweepWorkers ==
    /\ "sweep" \in Events
    /\ sweep.at = "off"
    /\ sweep' = [Idle EXCEPT !.at = "listed", !.running = {j \in Jobs : Live(j)}]
    /\ UNCHANGED <<file, ocr, attempt, store, job, pc, run, cleanup, faults>>

\* _job_is_alive, by the workers listed earlier and RQ's record of the job now.
JobAlive(j) ==
    IF j = NoJob THEN file.recent
    ELSE CASE job[j].state = "queued" -> TRUE
           [] job[j].state = "started" -> j \in sweep.running
           [] job[j].state = "failed" -> FALSE
           [] OTHER -> file.recent

\* The row and then its job: a row that changes in between fails the recheck
\* below, so the two reads are one step.
SweepFile ==
    /\ sweep.at = "listed"
    /\ sweep' = IF /\ file.row = "active" /\ file.status = "processing"
                   /\ ~JobAlive(file.jobId)
                THEN [Idle EXCEPT !.at = "dead", !.jobId = file.jobId,
                                  !.token = file.token, !.same = TRUE]
                ELSE Idle
    /\ UNCHANGED <<file, ocr, attempt, store, job, pc, run, cleanup, faults>>

\* Mutant of Unchanged: a row under a lease is left to its run.
UnchangedFree ==
    /\ file.row = "active" /\ file.status = "processing"
    /\ file.jobId = sweep.jobId /\ file.token = NoJob /\ sweep.same

\* What the locked row is compared with before anything is written.
Unchanged ==
    /\ file.row = "active" /\ file.status = "processing"
    /\ file.jobId = sweep.jobId /\ file.token = sweep.token /\ sweep.same

\* Mutant of Retained: any attempt that came to its end counts as an index.
RetainedAny == \E j \in Jobs : attempt[j] \in {"published", "empty"}

Retained == file.active \in Jobs /\ attempt[file.active] = "published"

MarkInterrupted ==
    /\ sweep.at = "dead"
    /\ Unchanged
    /\ file' = [file EXCEPT !.status = IF Retained THEN "processed" ELSE "failed",
                            !.token = NoJob, !.expired = FALSE]
    /\ attempt' = [j \in Jobs |-> IF attempt[j] = "running" THEN "abandoned"
                                  ELSE attempt[j]]
    /\ sweep' = Idle
    /\ UNCHANGED <<ocr, store, job, pc, run, cleanup, faults>>

SparedChanged ==
    /\ sweep.at = "dead"
    /\ ~Unchanged
    /\ sweep' = Idle
    /\ UNCHANGED <<file, ocr, attempt, store, job, pc, run, cleanup, faults>>

-----------------------------------------------------------------------------
(* The trash, deletion, and the cleanup job deletion queues.                 *)

Trash ==
    /\ "trash" \in Events
    /\ file.row = "active"
    /\ file' = [file EXCEPT !.row = "trashed", !.recent = TRUE]
    /\ sweep' = Touched
    /\ UNCHANGED <<ocr, attempt, store, job, pc, run, cleanup, faults>>

Restore ==
    /\ file.row = "trashed"
    /\ file' = [file EXCEPT !.row = "active", !.recent = TRUE]
    /\ sweep' = Touched
    /\ UNCHANGED <<ocr, attempt, store, job, pc, run, cleanup, faults>>

\* Mutant of CleanupTargets: only what was published, and the key searched now.
PublishedTargets == {j \in Jobs : attempt[j] = "published"} \cup {file.active}

\* Every generation with an attempt row, and the key searched now.
CleanupTargets == {j \in Jobs : attempt[j] # "absent"} \cup {file.active}

Purge ==
    /\ "delete" \in Events
    /\ file.row # "deleted"
    /\ file' = [Gone EXCEPT !.active = file.active]
    /\ ocr' = "absent"
    /\ attempt' = [j \in Jobs |-> "absent"]
    /\ UNCHANGED <<store, job, pc, run, sweep>>

Delete ==
    /\ Purge
    /\ cleanup' = [targets |-> CleanupTargets, todo |-> CleanupTargets,
                   retries |-> 3]
    /\ UNCHANGED faults

\* The row is gone, and the on_commit enqueue of its cleanup fails.
DeleteNotQueued ==
    /\ Purge
    /\ faults.queue > 0
    /\ faults' = [faults EXCEPT !.queue = @ - 1]
    /\ UNCHANGED cleanup

CleanIndex(k) ==
    /\ k \in cleanup.todo
    /\ store' = [store EXCEPT ![k] = "absent"]
    /\ cleanup' = IF cleanup.todo = {k} THEN NoCleanup
                  ELSE [cleanup EXCEPT !.todo = @ \ {k}]
    /\ UNCHANGED <<file, ocr, attempt, job, pc, run, sweep, faults>>

\* Three immediate retries, each from the first target; then RQ gives up.
CleanupFails ==
    /\ cleanup.todo # {}
    /\ Breaks
    /\ cleanup' = IF cleanup.retries > 0
                  THEN [cleanup EXCEPT !.todo = cleanup.targets, !.retries = @ - 1]
                  ELSE NoCleanup
    /\ UNCHANGED <<file, ocr, attempt, store, job, pc, run, sweep>>

-----------------------------------------------------------------------------
Api(j) ==
    \/ Enqueue(j)
    \/ SaveJobId(j)

Request(j) ==
    \/ RequestRefresh(j)
    \/ RequestSync(j)
    \/ RequestReprocess(j)
    \/ RequestApproval(j)

ApiFault(j) ==
    \/ UploadNotQueued(j)
    \/ ReprocessNotQueued(j)
    \/ ApprovalNotQueued(j)
    \/ ApiDies(j)

Step(j) ==
    \/ Dequeue(j)
    \/ Claim(j) \/ NotClaimed(j)
    \/ Load(j) \/ Begin(j) \/ DropOcr(j)
    \/ Parse(j) \/ ReuseParse(j)
    \/ PlanNothing(j) \/ PlanWithoutVision(j) \/ PlanVision(j) \/ Pause(j)
    \/ Stage(j) \/ Embed(j) \/ EmbedNothing(j)
    \/ WriteFirst(j) \/ WriteRest(j) \/ Verify(j)
    \/ Publish(j) \/ RetireIndex(j) \/ RetireRow(j)
    \/ FinishOcr(j) \/ Finalize(j)
    \/ Cancel(j) \/ Discard(j) \/ Record(j) \/ Fail(j)
    \/ Release(j)

Fault(j) ==
    \/ Raise(j)
    \/ Disconnect(j)
    \/ ReleaseFails(j)
    \/ LoseBatch(j)
    \/ CleaningFails(j)
    \/ Crash(j)

Sweep == SweepWorkers \/ SweepFile \/ MarkInterrupted \/ SparedChanged

Clean == \E k \in Keys : CleanIndex(k)

User == Trash \/ Restore \/ Delete

Next ==
    \/ \E j \in Jobs : Request(j) \/ Api(j) \/ Step(j) \/ ApiFault(j) \/ Fault(j)
    \/ Sweep
    \/ User \/ DeleteNotQueued
    \/ Clean \/ CleanupFails
    \/ LeaseExpires
    \/ GraceElapses

Spec == Init /\ [][Next]_vars

\* Processes that are not killed go on, RQ's workers take what is queued, the
\* sweep recurs, and time passes.  Users and faults owe nobody anything.
Fairness ==
    /\ \A j \in Jobs : WF_vars(Api(j)) /\ WF_vars(Step(j))
    /\ WF_vars(Sweep)
    /\ WF_vars(Clean)
    /\ WF_vars(GraceElapses)

FairSpec == Spec /\ Fairness

-----------------------------------------------------------------------------
FileRow == [row : {"active", "trashed", "deleted"}, status : FileStatus,
            jobId : Jobs \cup {NoJob}, token : Jobs \cup {NoJob},
            expired : BOOLEAN, recent : BOOLEAN, active : Keys]
JobRecord == [kind : {"upload", "refresh", "sync", "approve"} \cup Reprocess,
              state : JobState, api : {"none", "enqueue", "save"},
              was : FileStatus, wasId : Jobs \cup {NoJob}, wasOcr : OcrStatus]
Locals == [base : Keys, prev : Keys, ocr : OcrStatus, pages : {"none", "few", "many"},
           vectors : BOOLEAN, cancelled : BOOLEAN, raised : BOOLEAN]
Observed == [at : {"off", "listed", "dead"}, running : SUBSET Jobs,
             jobId : Jobs \cup {NoJob}, token : Jobs \cup {NoJob}, same : BOOLEAN]
CleanupJob == [targets : SUBSET Keys, todo : SUBSET Keys, retries : 0..3]
Budget == [crashes : Nat, errors : Nat, queue : Nat]

TypeOK ==
    /\ file \in FileRow
    /\ ocr \in OcrStatus
    /\ attempt \in [Jobs -> AttemptStatus]
    /\ store \in [Keys -> {"absent", "partial", "complete"}]
    /\ job \in [Jobs -> JobRecord]
    /\ pc \in [Jobs -> Steps]
    /\ run \in [Jobs -> Locals]
    /\ sweep \in Observed
    /\ cleanup \in CleanupJob
    /\ faults \in Budget

(* Publication. *)

\* The generation that search reads was verified whole and nobody has deleted
\* any of it: not the cleanup of a failed run, not the retirement that follows
\* another publication, not a run that lost its lease (document_processor.py
\* create_file_embeddings and _retire_generation).
ActiveIndexStored ==
    file.row # "deleted" /\ file.active \in Jobs => store[file.active] = "complete"

\* While the file exists no step takes search from a whole index to anything
\* less, whichever runs overlap, fail or are killed: a replacement is swapped
\* in at once or not at all, legacy indexes included.
SearchNeverInterrupted ==
    [][Served /\ file'.row # "deleted" => Served']_vars

\* Only an attempt still recorded as running becomes published: a run that a
\* newer run or the sweep has declared abandoned cannot publish, though nothing
\* in publication reads the attempt's status and only the lease stands between.
PublishesOnlyRunning ==
    [][\A j \in Jobs : attempt[j] # "published" /\ attempt'[j] = "published"
                         => attempt[j] = "running"]_vars

\* Nothing was killed and no call has failed.
Faultless ==
    faults = [crashes |-> MaxCrashes, errors |-> MaxErrors, queue |-> MaxQueueErrors]

\* With no crash and no failed call, vectors never outlive what accounts for
\* them: the index of a file that exists, a run that will publish or discard
\* them, a run that is retiring them, or a cleanup that has yet to delete them,
\* however a deletion falls among the batches of a run that is still writing.
NoOrphanVectors ==
    Faultless => \A k \in Keys : store[k] # "absent" =>
        \/ k = file.active /\ file.row # "deleted"
        \/ k \in cleanup.todo
        \/ k \in Jobs /\ pc[k] \in {"writing", "verify", "publish", "discard"}
        \/ \E j \in Jobs : pc[j] = "retire" /\ run[j].prev = k

\* The attempt rows read as a history: a row still published is the active
\* generation, or a run is just now retiring it (_retire_generation runs after
\* the commit that replaced it).
PublishedIsActive ==
    \A i \in Jobs : attempt[i] = "published" =>
        \/ i = file.active
        \/ \E j \in Jobs : pc[j] \in {"retire", "retire_row"} /\ run[j].prev = i

\* Whatever failed or died, every vector ever written for a file that still
\* exists is under a key that its deletion will find (files/signals.py collects
\* the attempt rows and the active key, not the vectors).
VectorsTraceable ==
    file.row # "deleted" =>
        \A k \in Keys : store[k] # "absent" =>
            \/ k \in CleanupTargets
            \/ \E j \in Jobs : pc[j] = "retire" /\ run[j].prev = k

(* Status. *)

\* A file that says Processed can be searched: files/constants.py sets
\* Processed apart from the states in which it cannot answer questions.
ProcessedIsSearchable ==
    file.row # "deleted" /\ file.status = "processed" => Served

\* What the sweep writes of an interrupted file is so: Processed if its index
\* still works, Failed if it has none (_mark_interrupted judges by the attempt
\* row, not by the vectors).
Interrupted == sweep.at = "dead" /\ sweep'.at = "off" /\ file' # file

SweepVerdictHonest ==
    [][Interrupted => (file'.status = "processed" <=> Served)]_vars

InFlight(j) == job[j].api = "enqueue" \/ job[j].state = "queued" \/ Live(j)

\* A lease on a file that is not being processed belongs to a run that is about
\* to release it; a lease without a run would have every reprocess refused.
SettledLeaseIsLive ==
    file.row # "deleted" /\ file.status # "processing" /\ file.token # NoJob
        => Live(file.token)

\* An approved transcription has a job that will carry it out.
ApprovedHasJob ==
    ocr = "approved" =>
        \E j \in Jobs : job[j].kind \in {"approve", "refresh", "sync"} /\ InFlight(j)

\* A run that has lost its lease, to the trash, to a newer run or to the sweep,
\* changes nothing a user sees: neither the status of the file nor the index
\* searched nor its OCR request, which only DropOcr deletes unconditionally.
StaleRunsChangeNothing ==
    [][\A j \in Jobs :
          Live(j) /\ ~Owns(j) /\ pc'[j] # pc[j] /\ pc[j] \notin {"claim", "drop"}
              => /\ ocr' = ocr
                 /\ file'.status = file.status /\ file'.active = file.active]_vars

(* Progress. *)

\* A file in the list does not stay in Processing: its run ends or, when the
\* worker died, the sweep marks it interrupted.
ProcessingEnds ==
    file.row = "active" /\ file.status = "processing"
        ~> file.row # "active" \/ file.status # "processing"

\* Unless something fails, nothing of a deleted file stays in the vector database.
DeletedVectorsGone ==
    file.row = "deleted" ~> ~Faultless \/ \A k \in Keys : store[k] = "absent"

-----------------------------------------------------------------------------
(* The abstract index that ingestion implements: a key is spare until its    *)
(* run has published it, or failed to.                                       *)

Unpublished == {"idle", "claim", "load", "begin", "drop", "parse", "plan", "pause",
                "stage", "embed", "write", "writing", "verify", "publish"}

Index == INSTANCE VersionedIndex WITH
    exists <- file.row # "deleted",
    served <- file.active,
    whole <- {k \in Keys : store[k] = "complete"},
    spare <- {j \in Jobs : pc[j] \in Unpublished}

\* Ingestion keeps the promise of VersionedIndex.
ImplementsIndex == Index!IndexSpec

-----------------------------------------------------------------------------
(* Why the index is never interrupted: the inductive invariant.              *)

\* A job runs once: until RQ starts it, nothing of its run has happened.
RunsOnce ==
    \A j \in Jobs :
        /\ job[j].state \in {"unused", "void", "queued"} => pc[j] = "idle"
        /\ job[j].api = "enqueue" => job[j].state = "unused"

\* A generation whose run will neither publish nor discard it any more.
Settled(k) == pc[k] \notin Unpublished \cup {"discard", "record"}

\* The active generation's run has it behind it.
ActiveSettled == file.active \in Jobs => Settled(file.active)

\* What a run retires is not searched, and no later run brings it back.
RetiresInactive ==
    \A j \in Jobs : pc[j] = "retire" =>
        /\ run[j].prev # file.active
        /\ run[j].prev \in Jobs => Settled(run[j].prev)

\* What a run is about to publish is whole.
PublishesWhole ==
    \A j \in Jobs : pc[j] = "publish" /\ run[j].vectors /\ file.row # "deleted"
        => store[j] = "complete"

CleansDeleted == cleanup.todo # {} => file.row = "deleted"

IndexInv ==
    /\ ActiveIndexStored
    /\ ActiveSettled
    /\ RetiresInactive
    /\ PublishesWhole
    /\ CleansDeleted

\* A run between its attempt row and its publication.
Staging(j) == pc[j] \in {"embed", "write", "writing", "verify", "publish"}

\* The owner of the lease has not been declared abandoned.
LeaseRunning == \A j \in Jobs : file.token = j /\ Staging(j) => attempt[j] = "running"

=============================================================================
