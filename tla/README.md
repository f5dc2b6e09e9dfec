# Formal models of dare-backend

TLA+ specifications of the parts of DARE's backend in which several processes
work on the same rows, model-checked with TLC on small instances and, where it
matters most, proved with TLAPS for every instance. The reference is the code
under `src/`; where a document or comment says something else, the model follows
the code.

Six parts are modelled, each by a module of its own: the ingestion of documents,
wallets and group budgets, the memory writer and its builds, workflow runs and
batches, research runs with their thread, and the turn of a chat. They share no
variable: where one part calls another, the other appears as the outcomes it may
have (a chat turn's debit is paid, refused or fails; a workflow node succeeds or
fails). The common ground is the deployment: several web processes, RQ workers
that take jobs from Redis, asyncio tasks in one process, rows in PostgreSQL.

## The system

A Django application (REST and Socket.IO) with PostgreSQL, Redis, RQ workers for
three queues (`default`, memory, scheduler), a vector database (Weaviate or
Pinecone), and LLM providers. Its parts, the state each keeps, and what makes it
correct:

| Part | State | Operations | What is hard | What must hold |
|---|---|---|---|---|
| **Document ingestion** (`core/services/document_*`, `files/`) | `File` row (status, job id, lease token, generation), OCR request, `VectorIndexAttempt` rows, vectors | upload, refresh, reprocess, approve OCR, run, publish, retire, sweep, trash, delete, clean up | runs overlap when leases expire; workers die; calls fail half way; deletion between batches; the sweep decides from stale reads | what is searched is whole; an abandoned run changes nothing; Processed means searchable; nothing stays in Processing; nothing of a deleted file is left |
| **Billing** (`billing/`, `core/services/billing_service.py`) | wallets, group budgets, transactions, refill policy | debit, settle, refill, fund, allocate, pause | checks outside locks, refill jobs that overlap, balances cached by a socket | a balance is the sum of its rows; budgets are not overspent; only settlements overdraw; a refill stops at its cap |
| **Workflow engine** (`workflows/`, `core/services/workflow_execution_service.py`) | runs, steps, human-validation steps, batches and their counters | start, run a wave, time out, answer, restart, run one step, stop, batch, clean up | two processes execute one run; a kill between a step and the run's status; a stop racing the end | a run left alone is as its steps say; routing and decisions hold; a stopped deliberation stays stopped; batch counts add up |
| **Chat turn** (`conversations/`) | message rows, generation tasks, the ids that may be stopped | tool loop, panel, stop, switch chats, regenerate, finalize, bill | a cancellation strikes any await; charge and save are two transactions; one message regenerated twice at once | no empty placeholder; paid once; a stop is heard and stays possible; deleted stays deleted |
| **Memory** (`memory/`) | records, markers, builds, the launch slot | write a turn, build from history, stop, forget, hold, clear | live turns queue behind a build; killed turn jobs; what changed while the model thought | each turn written once and in order; completed means thorough; stopped stays stopped |
| **Research** (`research/`) | agent runs, session rows with counters, Hermes's agents | start, stream, poll, cancel, report, follow up | intents and ids written from both sides; results applied late; overlapping cancels | the outcome is Hermes's and stands; no cancellation is lost; reports reach the agent |
| **Assistant** (`assistant/`) | proposals with journals | apply, undo, discard, restore | effects changed by others before undo | a proposal is discarded only when nothing of it is applied |
| Parsing, enrichment, ranking | none of their own | extract text and tables, describe images, score | external models | appear in ingestion as what a parse may find and what may fail |
| Exports, sharing, libraries, projects, agents, prompts, users, API keys, MCP, notifications, flags, tools | rows | CRUD, mostly one statement or one transaction each | - | not modelled: no protocol among several steps |

Ingestion interacts with the rest through the `File` row only: conversations,
libraries and search read `status` and `vector_index_key`. Chat turns, workflow
steps and background calls debit wallets through one service
(`finalize_ai_message`, `record_service_usage`); `Wallets` has these callers as
its calls, `ChatTurn` has the debit as a transaction of its turn. A finished chat
turn enqueues the live turn that `Memory` starts from.

## Modules

    VersionedIndex     what one document's search index promises
    Ingestion          the ingestion of one document: state, actions, properties
    IngestionProofs    type correctness
    IndexProofs        the invariant of publication; Ingestion implements VersionedIndex
    RecordProofs       leases, attempt rows, statuses, keys to clean up, the sweep
    Treasury           what moves money, abstractly
    Wallets            wallets, budgets, refill jobs and calls
    WalletProofs       types, books, budgets, overdrafts, caps; Wallets implements Treasury
    Memory             builds, the live turn, the one memory worker
    MemoryProofs       the order of jobs, what the ledger and the slot hold, thorough builds
    Workflows          one run or one batch, any number of executions
    WorkflowProofs     the effect of each step; decisions, stops, batches, rest, routes
    Research           the runs of a thread, its follow-up turns
    ResearchProofs     the outcome of a run stands, no cancellation is lost
    ChatTurn           the turns of one conversation
    ChatProofs         what a turn holds at each await, and what follows
    MC...              each of the six with the values TLC checks it on

### How `Ingestion` corresponds to the code

One file, any number of RQ jobs. A run stages at most one generation, so a job
names its run, its lease token and its generation; `Legacy` is the key of a file
indexed before generations existed (`File.vector_index_key` falls back to the
primary key).

| Variable | Code |
|---|---|
| `file` | the `File` row: `row` (active, trashed, deleted), `status`, `jobId`, `token` (`ingestion_token`), `expired` (`ingestion_started_at` is older than the lease), `recent` (`updated_at` within the sweep's five-minute grace), `active` (`vector_index_key`) |
| `ocr` | `DocumentOcrRequest.status` |
| `attempt` | `VectorIndexAttempt.status` of each generation |
| `store` | what the vector database holds of each key: nothing, some, all |
| `job` | RQ's status of each job, and what the request that made it still has to do |
| `pc`, `run` | where each run is, and its locals (`previous_status`, the OCR status it loaded, the pages found, the key it replaces, ...) |
| `sweep` | what the sweep has read and not yet acted on |
| `cleanup` | the `delete_file_vectors` job |
| `faults` | how many more crashes, failed calls and failed enqueues may come |

A request is two or three steps, because the code commits, then enqueues, then
in most cases writes `job_id` back: `RequestReprocess` and `RequestApproval` up to
their commit, `Enqueue`, `SaveJobId`, and their failures (`UploadNotQueued`,
`ReprocessNotQueued`, `ApprovalNotQueued`, `ApiDies`). `RequestRefresh` is the
management command, which keeps no job id; `RequestSync` a changed SyftBox file.

A run goes through `DocumentIngestionService.process`, one action per
transaction or external call: `Claim`/`NotClaimed` (the conditional update that
takes the lease), `Load`, `Begin` (and the choice of parsing mode), `DropOcr`,
`Parse`/`ReuseParse`, `PlanNothing`/`PlanWithoutVision`/`PlanVision`, `Pause`,
`Stage` (enrichment saved, attempt row created, older attempts abandoned),
`Embed`/`EmbedNothing`, `WriteFirst`/`WriteRest`, `Verify`, `Publish`, `RetireIndex`,
`RetireRow`, `FinishOcr`, `Finalize`, `Release`. Every write that the code
conditions on `owned_file` has `Owns(j)` as its guard, and `Cancel` is the
exception it raises otherwise. `Raise`, `Disconnect`, `LoseBatch`,
`CleaningFails` and `ReleaseFails` are the calls that may fail, each with the
handler that catches it: `Discard` and `Record` in `create_file_embeddings`, `Fail`
in `_process`. `Crash` kills the worker at any step.

The sweep is `SweepWorkers` (list live workers), `SweepFile` (read the row and its
job) and `MarkInterrupted` or `SparedChanged` (lock, compare, write). `Trash`,
`Restore`, `Delete` and `DeleteNotQueued` are the user's; `CleanIndex` and
`CleanupFails` the cleanup job with its three immediate retries.

### Abstractions of `Ingestion`

- Two batches stand for any number of them: what matters is that a deletion can
  fall between two.
- What a parser finds is chosen freely: no scanned pages, few (transcribed at
  once) or many (approval needed). How many pages a transcription got through is
  its outcome, partial or complete, chosen freely.
- A worker that died is missing from the sweep's list; the 90 seconds for which
  RQ still lists it are not modelled, nor is a worker whose heartbeat is late.
- The sweep's read of the row and of its job are one step, because a row that
  changes in between fails the recheck. One sweep at a time.
- An expired lease is possible under a live run: RQ interrupts a run at its
  timeout with an exception that parsers and enrichment catch, it looks for
  overdue children only every half minute, and a child whose parent was killed
  is overdue for ever.
- Failed image descriptions, which alone allow a retry, exist once some run got
  as far as enrichment.
- Left out: the processing journey, the map rows (committed with the
  generation), the stored text as against the index, the pages' cost, a commit
  that is applied though its acknowledgement is lost, media files.

### How `Wallets` corresponds to the code

A transaction of the database is one action: `Transaction.save` and the services
of group wallets hold their row locks from the check to the write, so `Debit`,
`PayFromGroup`, `PayFromSystem`, `Fund`, `Allocate` and `Topup` check and write at
once. What is read without a lock and used later is state of its process: the
wallets a refill job loaded when it began (`refill[r].seen`, with `now`), and the
balances a chat socket caches (`view`: one for the gate before a turn, one for its
settlement). `Judge` decides by what was loaded; the payment is a step of its own.

A call (`call`) is a chat turn, a workflow step or a background call: `Dispatch`,
for turns `Gate` (while streaming) and `Finalize`, then `Price` and `Debit` or
`DebitRaises`; only a background call settles with overdraft. A wallet is opened lazily by
whoever locks it first (`Locked`). The policy of a user is resolved field by field
from override, group and system (`Resolve`). `book` is history: what the rows add
up to. `Treasury` is the abstract specification: money enters as funding, as credit
or with a new purse, leaves one purse as spending, and what leaves a pool arrives
at once in the purse of one of its members.

Left out: users who pay with their own or a gateway key, the gateway's spend limit
and its alerts, public bots' budgets, media turns, prices; amounts are whole units.

### How `Memory` corresponds to the code

One user, a number of turns (a message with its reply) and one worker of the
memory queue, which is how the deployment documents and configures it. A build is
a `MemoryBackfillRun` row: the request (`AskBuild`, `CreateRun`, `CountTurns`,
`EnqueueLaunch`), the launch job (`TakeLaunch`, `Launch`, `FanOut`: one job for every
old turn, oldest first), and the turn jobs. A reply is stored empty before it is
streamed (`NewTurn`) and given its text, and its live job, at the end (`FinishTurn`);
in between a build does not see it. A live turn's job defers itself behind a build
(`TakeLive`). Writing a turn is `WriteTurn` (the checks: a missing user message, the
marker, the ledger; and what pass one recalls), the model call and `Seek` (pass two, the
rows of the keys its decision names), `Persist` (records and ledger), `Mark` (the
reply's marker), `Count` (the build's counter, which ends it); `Raise` is a provider or
database that fails, `Kill` a process that dies. `StopRun`, `Forget`, `AskHold`/`SetHold` and
`AskClear`/`ClearStore` are the user's; hold, release and clear check in one step
and write in another, as their views do.

An orphan is a reply whose user message is gone: its job ends at once, unmarked, and is
counted. All turns speak of one slot, so every new fact meets the older one; what a turn
decides (skip, a decision that stores nothing, a usable or a held fact) is chosen
freely, and so is what pass one recalls. A decision may be `keyed` or not: one that
names its key has the slot looked up, one without a key falls into the slot `note`
(`when:general`) unseen, and a boundary is given a key of its own after the look-up, so
that for both only what pass one recalled is compared. History: `late` are the replies
that were empty when the turns of a build were frozen, `missed` says that a usable fact
was filed without a key beside one that was not recalled. Left out: several facts in one
turn, slots other than that one, date filters, consolidation, edits, import and export,
pins, restatements, embeddings, the user document.

### How `Workflows` corresponds to the code

An execution (`exec`) is a background task of a server process. `Begin` is what lies
between the row of its run and the guard of its walk (for a deliberation: its tracker,
`ensemble_service.py:431-485`); then it walks the run over the waves of its graph:
`LoadResults`, `Plan` (what the wave starts, skips or waits for), for each node `NodeReset`, `NodeStart`, `NodeDone` or `NodeFails`/`TimeOut`
(after which the node's thread still writes: `FailLate`), `Decide`, `Final`. The
synchronous blocks of one process run on one thread, so a block is atomic within
the process; each execution is given a process of its own, and a block that
recomputes the status of a run is two steps (`Block`, `Commit`) for the others.
`Restart`, `Answer`/`TakeAnswer` (human validation) and `SingleStep` (any node of the
graph, a router that has decided included) are requests on a run that exists. A
deliberation is a graph of models and a chairman with a stop (`Stop`, `MarkStopped`,
`Leave`). A batch starts one file task at a time per process (`FileTask`, `CountFile`,
`CheckBatch`); `CleanRun`/`CleanEnd` and `CleanBatch` are the cleanups of what looks
stale. `Abandon` is a stop or an exception at an await that no handler makes good: before
the walk is guarded, in an answer that is not taken, in the tracker of a deliberation
being stopped, in the count or the check of a file. `Kill` is the death of a process,
`LoseBatch` a batch whose tasks never begin. History: `loose` marks a run that two
touched at once, whose execution was killed or abandoned, or whose router failed when
run by hand, since a walk over it last began alone; `stopped` (the stop was recorded),
`passed`, `cleaned` and `lost` (a file's task was killed or abandoned) say what happened.

Left out: start, file and output nodes (rows only when they fail), cyclic and empty
graphs, what a step asks of a model, its tools and billing, the events sent to
browsers, except that a batch may be lost where its start is announced. The blocks that
skip nodes of one wave are one. One run, or one batch, at a time, and a deliberation is
touched by its own execution only. The results loaded for a node run by hand are only
text for its model, and the route a waiting router's row may carry is never read. A
database failure inside the blocks that end a run is not modelled, nor is a creation of
rows that fails half way: for a file it is counted as failed and leaves a row without an
execution, for a live run it is like one abandoned at once. A tracker that fails as a
deliberation is stopped is taken to do so once the nodes that did not hear the stop are
over.

### How `Research` corresponds to the code

`run` is the `ResearchAgentRun` row, `remote` what Hermes (external) has made of it.
A run is carried by one process after another (`proc`): the view that streams a turn
or the job of a Scout (`Start`, `SaveId`, `Recheck`, `Stream`, `Settle`), the job that
waits for its reply (`Poll`, `GiveUp`, `Finish`, `Reply`), and what follows (`Complete`,
`Notify`, `AskFollowup`, `Mark`, `TurnFinished`). A request to cancel is a process of
its own: `Request` writes the intent and looks for Hermes's id, while the run writes the
id and then looks for the intent (`Recheck`). Both make an attempt: `Claim` (a lease of
90 seconds on the row, kept here as `tried`, which may have lapsed), `Stop`, `Ask`,
`Apply`, the last only onto a row that is not terminal. `thread` is the session row
with its messages as counters. `Lost` marks that a run was left without its process
or a turn never reached Hermes.

Left out: redirecting Scouts, the Critic and artifacts, staging and review, proposals,
profile files, costs and the spend cap. The turn that launched the Scouts is over.

### How `ChatTurn` corresponds to the code

A turn is an asyncio task; its `pc` names the await it is in, and a stop cancels
the task there. `Send` and `Regenerate` create the placeholder or take an answer
that is there; `Register` and `Enter` are `_run_generation` and the beginning of
`stream_ai_response`. In the loop: `Open` (old tool calls cleared, a panel set up),
`Prepared`, `Traced`, a round's stream with `UsageFrame` and the credit gate, which a
provisional frame does not pass (`GateOpens`, `GateCloses`), and its end: `StreamEnds`, `Pauses`, `CallsTools`, `TimesOut`,
`StopSurfaces`; then `ToolsDone`, `Capped`, and for a panel `PanelDone`, `Wrapped`. After
it: `Saved`/`SavingFails`, `Check` (the conversation exists, `is_deleted` is read),
`Settle`/`Refused` (the charge, a transaction of its own), `Keep`/`KeepFails` (the
message, another). `Fails` is any other exception, which leaves an apology.

`generation` and `stoppable` are the coordinator's registries, `Stop` looks in both.
Where a stop strikes an await that catches it (`Catching`), what has streamed is
kept; the HTTP stack may absorb it, in which case the loop asks at the next event;
elsewhere nothing catches it and the turn ends (`Struck`). A coordinator whose tab
went to another chat is kept while it streams (`KeepsActive`), otherwise replaced: its
turns are `lost`, and run on. `Disconnect`, `SoftDelete`, `Delete` and `Kill` complete
what may happen. A debit that a stop interrupts may be under way in its thread.

Left out: image and transcription turns, titles, artifacts, voice and edited messages,
public bots, gateway and own keys, several tabs, and the gap in which a tab that
returns quickly is subscribed without a coordinator. Cost is whether there is usage;
the text of a round is chosen at its end.

## What is checked

Nine runs end without an error, four of them with liveness among their properties; three
more end in a counterexample that is a behaviour of the code. Deadlock is not
checked where all requests may have been made and nothing is left to happen, which
is every instance but `lease_left_behind`.

| Run | Instance | Properties |
|---|---|---|
| `overlapping_runs` | an indexed file; two refreshes, expiring leases, sweep, trash, deletion; no crash, an enqueue may fail (790 000 states) | `PublishedIsActive`, `NoOrphanVectors`, `SettledLeaseIsLive`, `SearchNeverInterrupted`, `PublishesOnlyRunning`, `StaleRunsChangeNothing` |
| `failures` | from an upload; refresh, approval, reparse, expiring leases, deletion; a crash and a failed call (549 000) | `ActiveIndexStored`, `VectorsTraceable`, `ProcessedIsSearchable`, `ImplementsIndex` |
| `sweep_verdicts` | from an upload; sync, approval, retry, sweep; a crash and a failed enqueue (1 126 000) | `SweepVerdictHonest` |
| `progress` | from an upload; refresh, sweep, deletion; a crash; with fairness (56 000) | `ProcessingEnds`, `DeletedVectorsGone` |
| `wallets` | a group, its owner outside it and a member; a refill job, a turn or step, a background call; three days (928 000) | `BalanceIsBooked`, `OnlySettlementOverdraws`, `CapHeldUnlessCredited`, `ImplementsTreasury` |
| `memory_build` | two builds, an old turn, an orphan and a live one, one event; with fairness (525 000) | `TypeOK`, `WrittenOnce`, `HistoryInOrder`, `SlotUnambiguous`, `CompletedIsThorough`, `StopHolds`, `BuildEnds`, `LiveTurnsLand` |
| `workflow_runs` | four graphs, two executions, a batch of two files, two events; with fairness (353 000) | `TypeOK`, `RestingRunIsSettled`, `BatchVerdictHonest`, `StoppedStaysFailed`, `RouteObeyed`, `DecisionStands`, `BatchEnds` |
| `research_thread` | up to two Scouts, two turns, two requests, three events less one a Scout; with fairness (306 000) | `OutcomeStands`, `StopNotLost`, `FollowupComes` |
| `chat_turn` | two turns, one round of tools and the forced answer, three events (1 032 000) | `PlaceholderFilled`, `PaidOnce`, `StopHeard`, `DeletionKept`, `StopStaysPossible` |

**Bounds.** Two competitors for every lock, lease, row or registry: two ingestion jobs,
two calls beside a refill job and an owner, two builds, two executions, two turns, two
requests to cancel. A third adds a third competitor of the same kind; every property of
safety but `DeletionKept` is proved for any number. What happens to a system from
outside costs an event (in `Ingestion`: a crash, a failed call, a failed enqueue, each
with its bound), so each fault comes at every step, alone or with one or two others.

- `wallets`: a wallet opens at 1, a call costs 2, the policy refills 2 up to a cap of 2,
  so a turn finds too little, a background call overdraws, and a refill finds the
  budget of 1 or 2 too small, enough, or already spent by an allocation. A period
  of two days, shortened to one by the group's policy, passes within three days.
- `memory_build`: an old turn, an orphan and the live turn make an order; the live reply
  may be empty, finished or written when a build freezes its turns, and a second build
  finds what the first left out. Decisions of the older turns name their key, that of the
  live one does not, so that the slot is looked up and not.
- `workflow_runs`: a human gate beside a step and before another; a router before a
  step; a single step; a deliberation of two models and a chairman. `MaxEvents` counts
  every request after the first and every failure, time-out, stop, kill, cleanup and
  abandoned execution.
- `research_thread`: three events without a Scout, two with one, one with two.
  An agent's own failure is treated by the code like a cancellation it has heard of.
- `chat_turn`: beginning a turn is an event, so one turn meets any two troubles, and
  two turns of one message any one. `MaxRounds = 1` has a round with tools, the cap,
  and the forced answer; more rounds repeat the first.

**Fairness.** `Ingestion` (`FairSpec`): each run and each request that is not killed goes
on (`WF` of `Step(j)` and `Api(j)`), the sweep recurs (the scheduler and every worker's
start-up), the cleanup job is taken by a worker, the grace elapses. `Memory`: the worker
keeps taking jobs, a started request runs on. `Workflows`: the servers do not stop while
a task can go on. `Research`: something goes on while anything can, which is enough
as no step can be taken for ever; that Hermes's agents end is external. Nothing is
assumed of users, of faults, or of leases expiring. `Wallets` and `ChatTurn` have no
fairness: their properties are of safety; the tool loop is bounded by construction.

In words:

- **Search.** What a search of an existing file reads is whole
  (`ActiveIndexStored`), and no step makes it less than whole
  (`SearchNeverInterrupted`, legacy indexes included): a replacement is swapped in
  at once or not at all. `VersionedIndex` says the same abstractly and
  `ImplementsIndex` that ingestion is an instance of it.
- **Leases.** A run that a newer run or the sweep declared abandoned never
  publishes, though publication reads only the lease and not the attempt
  (`PublishesOnlyRunning`). A run without its lease
  changes nothing a user sees (`StaleRunsChangeNothing`, with one exception
  below). A lease on a file that is not being processed belongs to a live run,
  as long as nothing is killed (`SettledLeaseIsLive`).
- **Vectors.** Without failures none is left that nobody will delete, wherever a
  deletion falls (`NoOrphanVectors`, `DeletedVectorsGone`); whatever failed, every
  vector of a file uploaded under generations is under a key that its deletion
  looks at (`VectorsTraceable`). A row still `published` is the active generation or
  is just now being retired (`PublishedIsActive`).
- **Status.** Processed means searchable whatever failed, as long as Redis can be
  reached (`ProcessedIsSearchable`); the sweep writes Processed exactly when the
  index works (`SweepVerdictHonest`, for a file uploaded under generations); no
  file stays in Processing (`ProcessingEnds`).
- **Money.** No interleaving loses a debit or a credit (`BalanceIsBooked`), money moves
  only as `Treasury` says (`ImplementsTreasury`), a stale balance lets a turn start
  but not overdraw (`OnlySettlementOverdraws`), and a refill judged by a stale balance
  lifts a wallet past its cap only by what was credited since
  (`CapHeldUnlessCredited`).
- **Memory.** A turn is ingested once (`WrittenOnce`) and a build writes in the order of
  the conversation although live turns come in between (`HistoryInOrder`); two usable
  facts share a slot only by a person's release or by a decision whose slot was not
  looked up (`SlotUnambiguous`); a completed build left nothing out that had a text when
  it began and a user message (`CompletedIsThorough`), a stopped one stays stopped (`StopHolds`), each ends
  (`BuildEnds`) and releases the live turns behind it (`LiveTurnsLand`).
- **Workflows.** A run at rest is what its steps say, if its last execution had it alone
  and came to its end (`RestingRunIsSettled`); routing holds (`RouteObeyed`), and human
  decisions do against second answers and restarts, if not against running their router
  again by hand (`DecisionStands`); a deliberation whose stop was recorded is not
  revived by nodes that did not hear the stop (`StoppedStaysFailed`), and a batch counts
  each file once and ends unless a file is lost (`BatchVerdictHonest`, `BatchEnds`).
- **Research.** The outcome written is the one Hermes reports and is not overwritten by a
  late answer (`OutcomeStands`), a cancellation does not fall between the row and Hermes
  (`StopNotLost`), and what Scouts report between turns is told to the agent
  (`FollowupComes`).
- **Chat.** No turn leaves an empty placeholder (`PlaceholderFilled`) or is paid twice
  (`PaidOnce`); a stop is heard even if the HTTP stack swallows it (`StopHeard`) and
  stays possible while the user looks elsewhere (`StopStaysPossible`); a message deleted
  while it is written stays deleted (`DeletionKept`).

Each of these fails when the code is changed as a plausible mistake would change
it; the changed operators stand before the ones they would replace.

### Disagreements between the code and what is said of it

Three runs end in a counterexample that is a behaviour of the code:

- `approval_lost` (`ApprovedHasJob`): `prepare` commits awaiting_approval while its
  run still holds the lease. An approval in that window queues a job that cannot
  claim the file and returns; the request stays approved for ever, and a second
  approval is refused as already started.
- `lease_left_behind` (`SettledLeaseIsLive`): a worker killed between its claim and
  its first write leaves a token on a Processed file. The sweep looks at
  Processing files only and an explicit reprocess refuses any file with a token,
  contrary to the sweep's docstring, which leaves it to the reprocess.
- `owner_overdrawn` (`FundedRefillsSucceed`): a refill writes an informational row of 0
  on the owner's wallet, which is refused if a background call has settled that
  wallet below zero. Every member's refill then fails although the group's budget
  covers it.

The models also show the following, for which no run is kept. Each is reached
in a few steps and is why a property above is stated as it is.

Ingestion:

- `reprocess_documents` throws the job id of a refresh away, so the sweep cannot find
  its job, judges by an `updated_at` that the run has not touched yet, and takes the
  lease of a live run, against `docs/explanation/document-ingestion.md:51-53`.
- A reprocess request commits Processing and its job id before enqueueing, with
  `save(update_fields=...)` that leaves `updated_at` alone; a sweep in the gap
  finds no job and no grace, and marks the file interrupted.
- The sweep marks a file whose legacy index works as Failed: `retained` needs a
  generation with a published row. Hence `sweep_verdicts` starts from an upload.
- An approval that could not be queued restores the file's status from the OCR
  status, Processed for a partial transcription though it may have embedded
  nothing and been Needs OCR. Hence no failed enqueue in `failures`.
- A worker killed between deleting retired vectors and closing their row leaves a
  published row without vectors.
- `DropOcr` deletes the OCR request by file alone, whoever has the lease. Hence
  the exception in `StaleRunsChangeNothing`.
- A legacy index whose retirement failed has no attempt row, so a later deletion
  does not look under its key. Hence `failures` starts from an upload.
- The cleanup of a deleted file gives up after three immediate retries.

Wallets:

- A second refill job that loaded its wallets before the first paid pays again, up to
  the cap.
- A group paused after a member was judged still pays that refill.
- A balance cached by a socket refuses a turn after the wallet was refilled.

Memory:

- A stop between a launch job's check and its update is overwritten: the update of the
  launch (`tasks.py:149`) is unconditional. Hence `started` in `StopHolds`.
- A killed turn job leaves its build Running until it is stopped, and live turns circle
  behind it. Hence `lost` in `BuildEnds`, `Stuck` in `LiveTurnsLand`.
- Live turns written before a build was launched are followed by older turns of the
  build. Hence `base` in `HistoryInOrder`.
- A turn skipped because the wallet was empty is marked, and no later build picks it up.
- `clear_store` looks for builds and then deletes: a writer in hand writes after it.
- Releasing a held fact may leave two usable facts in one slot. Hence `released`.
- So may a decision whose slot was not looked up: `ingest.py:99` reads only the slots of
  decisions that name a key, `apply.py:519` gives a fact without one the slot `note`, and
  `apply.py:544` gives a boundary another key after the look-up. Beside an equal slot that
  pass one did not recall, two usable facts stand. Hence `missed`.
- A reply still being streamed when a launch freezes its turns is left out
  (`backfill.py:32`), and if its live job is then not queued, the build may be completed
  with the reply eligible and unwritten. Hence `late` in `CompletedIsThorough`.
- A reply without a user message before it is counted by its build and stays unmarked
  (`tasks.py:76-77`), so that every later build takes it up again. Hence `Orphans`.
- A launch that finds no turn left completes its build although another one is active;
  the unique constraint is on active builds only.

Workflows:

- Two processes on one run, or a cleanup and a kill, leave a run status that disagrees
  with its steps; a kill during a step run by hand leaves a completed run with an open
  step. Hence `loose`.
- The row of a deliberation's run exists from `ensemble_service.py:431`, the `try` that
  fails it begins at `:485`. A stop or an exception in the awaits between leaves the run
  running, all its steps pending and nobody at work on it; so does a tracker that fails
  as the stop is being recorded, and, for other runs, whatever fails between their row and
  their walk. No cleanup looks at a deliberation. Hence the executions that end by
  `Abandon` in `loose`, and `stopped` only where the stop was recorded.
- A router run by hand that returns without routes leaves an ended run running, its row
  open (`structured_output_handler.py:72-78`). Hence the router in `loose`.
- Any node can be run by hand, and a router that has decided is asked again: a human
  decision becomes waiting once more and its route may be overwritten
  (`workflow_execution_service.py:126-153`). Hence the exception in `DecisionStands`.
- A restart that loaded results before a human answer came overwrites the answer.
  Hence the other exception in `DecisionStands`.
- A stop at the very end turns a completed deliberation into a failed one.
- A router that failed lets its successors in, and a restart that then decides for
  another route keeps the successor that completed.
- A step run by hand ignores routing.
- A batch over a graph with a human node always fails at it; a restarted or killed
  batch stays Running until it is stale, and its last check may overwrite the cleanup's
  verdict. So does a batch with a file whose counter or check fails outside the `try` of
  `_run_single`. Hence `lost` in `BatchEnds`.

Research:

- A poll of the run's own process that was read before a confirmed cancellation turns
  the run back to live (for a Scout that then gives up, for good), and its
  siblings and thread wait. Hence `past` in `OutcomeStands`.
- A run cancelled during its start whose attempt hears "still live" has no process
  left: it stays live, and its thread answers 409, until it is cancelled again.
- An event posted during a turn is not followed up: the turn looks at the thread object
  it has held since it began, and only events after the last reply count, against
  `research/models.py:156-163` ("The next turn to finish enqueues the follow-up").
  Hence `untold` counts events posted while no turn was under way.
- A request that dies between its claim and its call of Hermes has stopped nothing until
  its lease runs out and the cancellation is asked for again; `tried` is set at the claim,
  so `StopNotLost` is about who looks for what, not about whether the call is made.
- Two posts, or a post and a follow-up job, both find no active turn, and two run at once.
- A cancellation that finds the record completed before the job that stores the reply
  lets that job return: the reply is never saved.

Chat:

- A stop that strikes an await outside the loop's handlers (old tool calls being
  cleared, a context trace being saved, the announcement of the cap, a panel being
  wrapped up) ends the turn with its placeholder empty, against the docstring of
  `on_stop_generation` ("unwinds the provider stream and finalizes the partial message").
  Hence `halted` in `PlaceholderFilled`.
- A turn that has not reached its loop when the user switches chats loses its
  coordinator and cannot be stopped.
- A turn out of credit is stored without another look: a message deleted meanwhile comes
  back. So does one deleted between the look and the save. Hence `DeletionKept`'s
  exceptions.
- Charge and save are two transactions: an answer may be paid for and not kept.
- A stop during the debit of the credit gate may be followed by the full debit, so both
  are paid. Hence the exception in `PaidOnce`.
- A failure to save sources turns a finished answer into the apology, which is free.
- One message regenerated twice at once shares the registries: a stop may strike the
  other turn in its finalization. Hence `Twins`.

## What is proved

Each theorem holds for every value of the constants that the assumptions allow, and
these only say of what kind they are: in `Ingestion` a finite set of jobs without
`NoJob` and `Legacy`, with any requests and any number of faults; in `Wallets` any users,
groups, refill jobs and calls, with any memberships, owners and prices; in `Memory` any
number of turns, builds and events, and any answers of the model; in `ChatTurn` any
number of turns, rounds and events; in `Research` any Scouts, turns and requests, and any
way an agent may end; in `Workflows` any number of runs, executions, nodes and events,
and any graphs that its two assumptions on graphs allow (below).

| Module | Theorem | States |
|---|---|---|
| `IngestionProofs` | `TypeCorrect` | `[]TypeOK` |
| `IndexProofs` | `ActiveIndexAlwaysStored` | `[]ActiveIndexStored` |
| | `Refinement`, `SearchUninterrupted` | `ImplementsIndex`, `SearchNeverInterrupted` |
| `RecordProofs` | `AbandonedNeverPublish`, `StaleRunsAreSilent` | `PublishesOnlyRunning`, `StaleRunsChangeNothing` |
| | `PublishedRowsAreActive`, `LeaseIsLive` | `[](Unbroken => PublishedIsActive)`, `[](Unbroken => SettledLeaseIsLive)` |
| | `NoVectorIsOrphan` | `[]NoOrphanVectors` |
| | `VectorsAreTraceable` | `[](Unbroken \/ "indexed" \notin Origins => VectorsTraceable)` |
| | `ProcessedIsSearched` | `[](QueueUp => ProcessedIsSearchable)` |
| | `SweepIsHonest` | `SweepVerdictHonest`, if `"indexed" \notin Origins` |
| `WalletProofs` | `TypeCorrect`, `BooksBalance`, `BudgetsHold` | `[]TypeOK`, `[]BalanceIsBooked`, `[]BudgetNeverNegative` |
| | `OverdraftsAreSettlements`, `RefillsFit` | `OnlySettlementOverdraws`, `CapHeldUnlessCredited` |
| | `RefinesTreasury` | `ImplementsTreasury` |
| `ChatProofs` | `TypeCorrect`, `PlaceholderIsFilled`, `PaidAlwaysOnce` | `[]TypeOK`, `[]PlaceholderFilled`, `[]PaidOnce` |
| | `StopIsHeard`, `StopRemainsPossible` | `[]StopHeard`, `StopStaysPossible` |
| `MemoryProofs` | `TypeCorrect`, `IngestedOnce`, `OrderOfHistory` | `[]TypeOK`, `[]WrittenOnce`, `[]HistoryInOrder` |
| | `SlotIsUnambiguous`, `BuildIsThorough`, `StopIsFinal` | `[]SlotUnambiguous`, `[]CompletedIsThorough`, `StopHolds` |
| `ResearchProofs` | `TypeCorrect`, `OutcomeAlwaysStands`, `StopIsNotLost` | `[]TypeOK`, `[]OutcomeStands`, `[]StopNotLost` |
| `WorkflowProofs` | `TypeCorrect`, `DecisionsStand`, `RouteIsObeyed` | `[]TypeOK`, `DecisionStands`, `RouteObeyed` |
| | `VerdictIsHonest`, `StoppedIsFailed` | `[]BatchVerdictHonest`, `[]StoppedStaysFailed` |
| | `RestingIsSettled` | `[]RestingRunIsSettled` |

**Ingestion.** `ActiveIndexStored` is not inductive: a step could retire the active
key, a run could discard or publish what is not whole, a cleanup could be left over
from another life of the file. `IndexInv` adds what excludes each: the active
generation's run has it behind it and will neither write nor discard it again
(`ActiveSettled`), what is being retired is not active and its run is past
publishing, so it cannot come back (`RetiresInactive`), a run at its publication
has verified vectors that nobody else touches (`PublishesWhole`), and a cleanup
exists only for a deleted file (`CleansDeleted`). It in turn needs `RunsOnce`: a job
that RQ has not started has taken no step, so a generation is written by one
run only.

The refinement maps the abstract index to what the vector database holds whole,
the active key and the runs that have not come to publication; it uses the
invariant at each step that touches the store. `SearchUninterrupted` then
follows from the refinement, one abstract step at a time.

`LeaseRunning` says that a lease holder between staging and publication has a
running attempt. It is preserved because the two writes that abandon attempts,
`Stage` of another run and `MarkInterrupted`, require or clear the lease, and it
makes `Publish`, guarded by the lease, publish only running attempts.

What the rows of a file say (`RowsInv`) rests on the same layers, and some of it is true
only of a history in which certain things did not fail. These hypotheses speak of the
state, so that one theorem covers every instance and every moment before the failure:

- `Unbroken`: no worker was killed and no call to a parser, provider, vector store or
  database failed so far. Leases may expire under live runs, runs overlap, Redis refuse
  jobs, and the file be deleted at any step. Without it `SettledLeaseIsLive` is false (the run
  `lease_left_behind`), and so is `PublishedIsActive` (a worker killed between the two
  steps of a retirement).
- `QueueUp`: Redis took every job so far; anything else may have failed. Without it
  an approval that is not queued restores Processed to a file that may have no index.
- `"indexed" \notin Origins`: the file was uploaded under generations. A legacy index
  has no attempt row, so the sweep does not see that it works, and after a failed
  retirement a deletion does not look under its key.

A fault spends a budget that nothing refills (`BudgetFalls`), so that each hypothesis, once
false, stays false, and at each step the proof may assume that the step is not such a
fault. `LeaseHeld` then has every lease in the hands of a run past its claim; no run
ends with it but by a release that fails. `VectorsAccounted` says who answers for each key
that has vectors: it is the active one, its run has yet to publish or discard it, or a run
is retiring it; a deletion turns the first into an entry of the cleanup job
(`ActiveCleaned`). `RecordInv` says the same of attempt rows and needs no hypothesis: a
generation with vectors has its row (`RowKept`), as the row is there before the first
batch, and the active generation's row is published (`ActivePublished`). The sweep reads
that row and not the vectors, so `SweepIsHonest` follows from `ActivePublished` and
`ActiveIndexStored`. `Searchable` adds to `ProcessedIsSearchable` that a status remembered
by a request, to be restored if Redis refuses the job, is not Processed unless the file
is searched. `StaleRunsAreSilent` follows from the guard `Owns` at each write.

**Wallets.** `BalanceIsBooked` and `BudgetNeverNegative` are inductive with the types and
two facts on who pays (`PayersKnown`) and on wallets nobody has opened yet
(`UnopenedEmpty`), since every transaction reads and writes under its locks
(`IInv`). What a refill does was decided by what its job loaded: `PendingFits` says that a
payment not yet made still fits the cap over the balance as loaded, and `RefillsFit`
follows at the step that pays. `RefinesTreasury` takes each of the steps that move
money to one of `Treasury`, the others to a stutter.

**Chat turns.** What a turn may hold depends on the await it is in. `Sane` says for each
place which of result, usage and payment it may have: nothing is paid inside the loop,
what a stop may have caught of the credit gate's debit is paid before the
finalization, and the save comes after the charge; `PaidOnce` follows, and what
`StopHeard` says of an acknowledged stop. `Registered` says that the two registries name
only turns that are known and in their loop, so that a stop never strikes a turn past it
unless two turns share a message, and `Filled` that the row of a turn under way
has a text unless it was deleted for good. Each is stated over all turns at once, since
turns of one message share its row and its place in the registries.

**Memory.** The invariant is built in layers, each proved from those before it:

1. `Base`: types, what jobs there may be, and what the worker holds of its job.
2. `Ordered`: the queue has the turns of a build in the order they were said
   (`QueueSorted`), each after the one in the worker's hand (`BehindWorker`), at most one
   build is active (`OneActive`), and no job of a build exists before its request
   queued it (`Orderly`). A live job that requeues itself leaves the order alone.
3. `Written`: the turn the worker is about to write is not in the ledger (`Unwritten`),
   and all that was written since the launch of a build comes before its
   remaining turns (`WritesLater`). `WrittenOnce` and `HistoryInOrder` are kept by
   `Persist` for these two reasons.
4. `Slot`: until the user releases a held fact or a fact is filed beside one that was not
   looked up, the worker has seen no fact but the one usable there is, and when it is about
   to write under a key it has seen that one, as there is no second writer.
5. `Thorough`: a build owes the turns up to its cutoff that had a text when they were
   frozen, have a user message and carry no marker (`Owed`). What is left of it, in the queue
   or in hand, and what it counted never exceed its total; while they make it up no turn
   was lost, and every turn owed is left (`Covered`). The counter reaches the total only
   when nothing is left, and what is eligible beyond what is owed is excused.

The order of a launch needs that a set of turns has an oldest, which comes from the
well-foundedness of strict inclusion among finite sets.

**Research.** `OutcomeStands` is kept because whoever holds an outcome of a run holds the
one that Hermes has (`Knows`), which does not change until the row is taken for a new
turn, and it is taken only when nobody works on it any more. Before a run has its id
only its own process writes its row, but for the intent (`Young`). `StopNotLost` fails to
be inductive where the run's own process writes "still live" over what a cancellation
wrote before: `Warned` says that a row which is no longer live while that process
reads was written by an attempt, so that one was made. The rest is the order of the two
writes and the two looks, intent and id.

**Workflows.** An execution is described first by what each of its steps does to its own
record, its run's rows and nothing else (`NodeMove`, `PlanMove`, `DecideMove`, ...); the
invariants are then proved from these descriptions.

1. `Base`: types; where the nodes of an execution can be at each of its places; that a
   result is in its hands only once its node is over; that a router whose row is
   completed has a route. `DecisionStands` follows: a step that overwrites a decided
   row runs its router by hand, or belongs to an execution that does not know the decision.
2. `CountOK`, `FilesOK`: each file of a batch is due, begun or counted, once, and each
   success has a run of its own that passed. A task that is killed or abandoned leaves the
   sum below the total for good (`LossMove`). `BatchVerdictHonest` follows by adding them
   up.
3. `Alone`: a run that is not `loose`, and every deliberation, has one execution or the
   cleanup. The properties below are about what one execution knows.
4. `StopOK`: a model that has not heard a stop cannot complete the run again, because
   another row of the run is open or failed. Such a row exists because the chairman is
   asked alone and last: until his wave his own row is pending, and then no other
   model is asked. So the derived status can only be failed.
5. `Settles`: while a run is worked on by one execution, the results this execution
   holds are those of the rows (`NodeKnown`), the status it is about to write is derived
   from the rows as they are (`Says`), and it goes to its end only with nothing left open;
   at rest the row says so. A node run by hand leaves of an ended run what it found but for
   its own row, which is finished or failed, or waits for a person (`SingleOK`); a router that
   fails by hand (`Left`) is the one end that leaves the run loose. `RestingRunIsSettled` is the last part. `RouteObeyed` is what
   `NodeKnown` keeps of a node that was let in: `ShouldExecute` held for the results, and the
   results of the routers are their routes.

Two assumptions on graphs stand for what the prover cannot compute, the recursion of `Wave`
(`get_exec_waves`). TLC evaluates both on each graph of its instance.

- `GraphsAssumption`: waves are numbered from 1 without a gap and an edge leads to a later
  one, which is what `get_exec_waves` computes of an acyclic graph; an edge has a route
  only if it leaves a router, as `execution_routing.py` reads handles of structured-output
  nodes only; and only a router asks its user (`structured_output_handler.py`).
- `ChairmanAssumption`: a deliberation has a node in a later wave than all the others, as the
  ensemble's builder makes every model an input of the chairman.

In the model of a stop, `AllOver` counts a node that has timed out as over although its
thread may still write, as `_run_wave` does, and a stop ends a wave at once if a node of it
has not started, whatever the models that are being asked make of it.

Only model-checked:

- all liveness (`ProcessingEnds`, `DeletedVectorsGone`, `BuildEnds`, `LiveTurnsLand`,
  `BatchEnds`, `FollowupComes`), which is beyond the prover;
- `DeletionKept`, which is about two turns of one message and checked for two. Of three,
  one, by an exception, may take the deleted flag off, the second store the flag it had
  read before, and the third, which looked in between, then undo it.

## Not modelled

- **Assistant.** Each of apply, undo, discard and restore locks its proposal and does its
  work in one transaction, so that what can interleave is whole operations.
- **Parsing, enrichment, vector search and ranking** are functions of their input; they
  appear as what they may find and how they may fail.
- **Exports and restore, users and access codes, API keys, sharing, libraries and
  projects, agents and prompts, MCP connections, notifications, e-mail logs and release
  notes, feature flags, tools, operations**: rows changed by one statement or one
  transaction each, views and administration, and calls of services outside the
  repository. No state of theirs is left between two steps of several actors.
- What each modelled part leaves out is at the end of its section above.

## What is left

1. A sharper `DeletionKept`, with an exception that names the turn whose flag was stored
   late, so that it holds for any number of turns of one message.
2. Extensions of the models: the stored text as against the index, a commit of unknown
   outcome and two sweeps in `Ingestion`; redirected Scouts in `Research`; consolidation
   and edits in `Memory`; the budgets of public bots in `Wallets`.
