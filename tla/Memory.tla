-------------------------------- MODULE Memory --------------------------------
(***************************************************************************)
(* The memory writer of one user: live turns queued after each reply,      *)
(* builds over old turns (one launch job that fans out a job per turn),    *)
(* the single worker of the memory queue, and the user who stops builds,   *)
(* holds, forgets and clears (memory/tasks.py, memory/services).           *)
(*                                                                         *)
(* A turn is a user message with its reply; an orphan is a reply with no   *)
(* user message left before it.  All turns speak about one slot (one kind  *)
(* and key), so every new fact meets the older one.  What a turn decides   *)
(* is a choice: skip it, log a decision that stores nothing, or add a      *)
(* fact, usable or held.  The slot is looked up for a decision that names  *)
(* its key; one without a key falls into the slot "note", and a boundary   *)
(* is given a key of its own afterwards, on what pass one recalled alone.  *)
(***************************************************************************)
EXTENDS Naturals, FiniteSets, Sequences

CONSTANTS
  MaxRun,          \* bound: requests of the user to build memory from old chats
  Says,            \* turn -> what the writer may decide about it
  Keyed,           \* turn -> whether the decision may name the key of the slot
  Orphans,         \* turns whose reply has no user message before it
  Start,           \* replies that exist before memory is switched on
  MaxTurn,         \* bound: replies in all
  MaxEvents        \* bound: kills, provider and queue failures, and the user's
                   \* edits (facts forgotten, held, released, or all cleared)

Turns == 1 .. MaxTurn
Runs == 1 .. MaxRun
NoRun == 0
Decision == {"skip", "note", "active", "held"}
LaunchJob(r) == [kind |-> "launch", run |-> r, turn |-> 0]
TurnJob(r, t) == [kind |-> "turn", run |-> r, turn |-> t]
LiveJob(t) == [kind |-> "live", run |-> NoRun, turn |-> t]
NoJob == [kind |-> "none", run |-> NoRun, turn |-> 0]
Jobs == {NoJob} \cup {LaunchJob(r) : r \in Runs} \cup {LiveJob(t) : t \in Turns}
          \cup {TurnJob(r, t) : r \in Runs, t \in Turns}
Entry == [turn : Turns, run : Runs \cup {NoRun}]

ASSUME MemoryAssumption ==
  /\ MaxRun \in Nat /\ MaxEvents \in Nat
  /\ MaxTurn \in Nat \ {0} /\ Start \in 0 .. MaxTurn
  /\ Says \in [Turns -> SUBSET Decision] /\ Keyed \in [Turns -> SUBSET BOOLEAN]
  /\ Orphans \subseteq Turns

VARIABLES
  newest,   \* turns 1 .. newest exist
  blank,    \* turns whose reply has no text yet
  marked,   \* turns whose reply has memory_write_data
  ledger,   \* MemoryLedgerEntry rows, oldest first: turn and writing build
  fact,     \* turn -> state of the MemoryRecord it added
  run,      \* MemoryBackfillRun rows and the start_run requests behind them
  queue,    \* the RQ queue "memory"
  worker,   \* its one worker
  op,       \* a hold, release or clear request between its check and its write
  released, \* history: whether a held fact was ever released by hand
  missed,   \* history: whether a usable fact was filed without a key beside one
            \* that pass one had not recalled
  events    \* failures and edits so far

vars == <<newest, blank, marked, ledger, fact, run, queue, worker, op, released, missed,
          events>>

Status == {"none", "refused", "queued", "running", "completed", "stopped", "failed"}
FactState == {"none", "active", "held", "superseded", "forgotten", "cleared"}
RunRow == [req : {"idle", "create", "count", "enqueue"}, status : Status, cutoff : Nat,
           total : Nat, done : Nat, started : BOOLEAN,
           base : Nat,        \* history: ledger length when the build was launched
           late : SUBSET Turns, \* history: replies without text when its turns were frozen
           lost : BOOLEAN,    \* history: a process driving the build was killed
           intact : BOOLEAN]  \* history: memory not cleared since it was created
Worker == [pc : {"idle", "launch", "fan", "seek", "persist", "mark", "count"}, job : Jobs,
           left : SUBSET Turns, seen : SUBSET Turns, what : Decision, keyed : BOOLEAN]
Op == [kind : {"none", "clear", "hold", "release"}, turn : Turns \cup {0}]

TypeOK ==
  /\ newest \in 0 .. MaxTurn
  /\ blank \subseteq 1 .. newest /\ marked \subseteq 1 .. newest
  /\ ledger \in Seq(Entry)
  /\ fact \in [Turns -> FactState]
  /\ run \in [Runs -> RunRow]
  /\ queue \in Seq(Jobs)
  /\ worker \in Worker
  /\ op \in Op
  /\ released \in BOOLEAN /\ missed \in BOOLEAN
  /\ events \in 0 .. MaxEvents

Active(r) == run[r].status \in {"queued", "running"}
Building == \E r \in Runs : Active(r)
ActiveFacts == {t \in Turns : fact[t] = "active"}
Logged(t) == \E i \in DOMAIN ledger : ledger[i].turn = t

\* eligible_messages: replies up to the cutoff that have text and carry no marker
Eligible(r) == {t \in 1 .. run[r].cutoff : t \notin marked \cup blank}

Oldest(S) == CHOOSE t \in S : \A u \in S : t <= u

Idle == [pc |-> "idle", job |-> NoJob, left |-> {}, seen |-> {}, what |-> "skip",
         keyed |-> FALSE]
Unrequested == [req |-> "idle", status |-> "none", cutoff |-> 0, total |-> 0, done |-> 0,
                started |-> FALSE, base |-> 0, late |-> {}, lost |-> FALSE, intact |-> TRUE]
NoOp == [kind |-> "none", turn |-> 0]

Init ==
  /\ newest = Start /\ blank = {}
  /\ marked = {} /\ ledger = <<>>
  /\ fact = [t \in Turns |-> "none"]
  /\ run = [r \in Runs |-> Unrequested]
  /\ queue = <<>> /\ worker = Idle
  /\ op = NoOp /\ released = FALSE /\ missed = FALSE
  /\ events = 0

MayHappen == events < MaxEvents /\ events' = events + 1

-----------------------------------------------------------------------------
(* Replies *)

\* an empty reply is stored before the answer is streamed
NewTurn ==
  /\ newest < MaxTurn
  /\ newest' = newest + 1 /\ blank' = blank \cup {newest + 1}
  /\ UNCHANGED <<marked, ledger, fact, run, queue, worker, op, released, missed, events>>

\* the reply is given its text, and the writer job is queued; without memory, after
\* a cut or a failure of the queue, the turn is left for a later build
FinishTurn(t) ==
  /\ t \in blank
  /\ blank' = blank \ {t}
  /\ \/ queue' = Append(queue, LiveJob(t)) /\ UNCHANGED events
     \/ MayHappen /\ UNCHANGED queue
  /\ UNCHANGED <<newest, marked, ledger, fact, run, worker, op, released, missed>>

-----------------------------------------------------------------------------
(* start_run and stop_run *)

AskBuild(r) ==
  /\ run[r] = Unrequested /\ ~Building
  /\ \A q \in 1 .. r - 1 : run[q] # Unrequested
  /\ run' = [run EXCEPT ![r].req = "create", ![r].cutoff = newest]
  /\ UNCHANGED <<newest, blank, marked, ledger, fact, queue, worker, op, released, missed, events>>

\* the unique constraint on the user's active run decides between two requests
CreateRun(r) ==
  /\ run[r].req = "create"
  /\ run' = [run EXCEPT ![r] = IF Building THEN [Unrequested EXCEPT !.status = "refused"]
                               ELSE [@ EXCEPT !.req = "count", !.status = "queued"]]
  /\ UNCHANGED <<newest, blank, marked, ledger, fact, queue, worker, op, released, missed, events>>

\* with nothing to do the request completes the run, whatever became of it
CountTurns(r) ==
  /\ run[r].req = "count"
  /\ LET n == Cardinality(Eligible(r)) IN
     run' = [run EXCEPT ![r] =
       IF n = 0 THEN [@ EXCEPT !.req = "idle", !.status = "completed", !.started = TRUE,
                               !.late = blank \cap 1 .. run[r].cutoff]
       ELSE [@ EXCEPT !.req = "enqueue", !.total = n]]
  /\ UNCHANGED <<newest, blank, marked, ledger, fact, queue, worker, op, released, missed, events>>

EnqueueLaunch(r) ==
  /\ run[r].req = "enqueue"
  /\ \/ /\ queue' = Append(queue, LaunchJob(r))
        /\ run' = [run EXCEPT ![r].req = "idle"]
        /\ UNCHANGED events
     \/ /\ MayHappen
        /\ run' = [run EXCEPT ![r].req = "idle", ![r].status = "failed"]
        /\ UNCHANGED queue
  /\ UNCHANGED <<newest, blank, marked, ledger, fact, worker, op, released, missed>>

\* mutant: a status of another table
StopAsCancelled(r) ==
  /\ Active(r)
  /\ run' = [run EXCEPT ![r].status = "cancelled"]
  /\ UNCHANGED <<newest, blank, marked, ledger, fact, queue, worker, op, released, missed, events>>

StopRun(r) ==
  /\ Active(r)
  /\ run' = [run EXCEPT ![r].status = "stopped"]
  /\ UNCHANGED <<newest, blank, marked, ledger, fact, queue, worker, op, released, missed, events>>

\* the server dies between the request's transactions
KillRequest(r) ==
  /\ run[r].req \in {"count", "enqueue"} /\ MayHappen
  /\ run' = [run EXCEPT ![r].req = "idle", ![r].lost = TRUE]
  /\ UNCHANGED <<newest, blank, marked, ledger, fact, queue, worker, op, released, missed>>

-----------------------------------------------------------------------------
(* The worker: queue_memory_backfill *)

TakeLaunch ==
  /\ worker.pc = "idle" /\ queue # <<>> /\ Head(queue).kind = "launch"
  /\ queue' = Tail(queue)
  /\ LET r == Head(queue).run IN
     IF run[r].status # "queued" THEN UNCHANGED <<run, worker>>
     ELSE /\ worker' = [Idle EXCEPT !.pc = "launch", !.job = Head(queue), !.left = Eligible(r)]
          /\ run' = [run EXCEPT ![r].late = blank \cap 1 .. run[r].cutoff]
  /\ UNCHANGED <<newest, blank, marked, ledger, fact, op, released, missed, events>>

\* mutant: the total the request counted is kept
LaunchKeepsTotal ==
  /\ worker.pc = "launch"
  /\ LET r == worker.job.run IN
     IF worker.left # {} /\ \E q \in Runs \ {r} : Active(q)
     THEN worker' = Idle /\ UNCHANGED run
     ELSE /\ run' = [run EXCEPT ![r].status = IF worker.left = {} THEN "completed"
                                              ELSE "running",
                                ![r].started = TRUE, ![r].base = Len(ledger)]
          /\ worker' = [worker EXCEPT !.pc = "fan"]
  /\ UNCHANGED <<newest, blank, marked, ledger, fact, queue, op, released, missed, events>>

\* an unconditional update: a stop since TakeLaunch is overwritten; the unique
\* constraint refuses a second active run, but not one completed for want of turns
Launch ==
  /\ worker.pc = "launch"
  /\ LET r == worker.job.run IN
     IF worker.left # {} /\ \E q \in Runs \ {r} : Active(q)
     THEN worker' = Idle /\ UNCHANGED run
     ELSE /\ run' = [run EXCEPT ![r].status = IF worker.left = {} THEN "completed"
                                              ELSE "running",
                                ![r].total = Cardinality(worker.left), ![r].started = TRUE,
                                ![r].base = Len(ledger)]
          /\ worker' = [worker EXCEPT !.pc = "fan"]
  /\ UNCHANGED <<newest, blank, marked, ledger, fact, queue, op, released, missed, events>>

FanOut ==
  /\ worker.pc = "fan"
  /\ IF worker.left = {}
     THEN worker' = Idle /\ UNCHANGED queue
     ELSE LET t == Oldest(worker.left) IN
          /\ queue' = Append(queue, TurnJob(worker.job.run, t))
          /\ worker' = [worker EXCEPT !.left = @ \ {t}]
  /\ UNCHANGED <<newest, blank, marked, ledger, fact, run, op, released, missed, events>>

-----------------------------------------------------------------------------
(* The worker: run_memory_backfill_turn and run_memory_writer *)

After(job) == IF job.kind = "turn" THEN [Idle EXCEPT !.pc = "count", !.job = job] ELSE Idle

\* mutant: the marker is trusted alone, the ledger is not asked
WriteTurnMarkerOnly(job) ==
  IF job.turn \in Orphans \cup marked THEN worker' = After(job) /\ UNCHANGED marked
  ELSE /\ \E recalled \in SUBSET ActiveFacts :
            worker' = [Idle EXCEPT !.pc = "seek", !.job = job, !.seen = recalled]
       /\ UNCHANGED marked

\* the writer's checks: a missing user message or an old marker ends the turn, an
\* old ledger row restores the marker, and otherwise pass one recalls some of the
\* usable facts
WriteTurn(job) ==
  IF job.turn \in Orphans \cup marked THEN worker' = After(job) /\ UNCHANGED marked
  ELSE IF Logged(job.turn) THEN worker' = After(job) /\ marked' = marked \cup {job.turn}
  ELSE /\ \E recalled \in SUBSET ActiveFacts :
            worker' = [Idle EXCEPT !.pc = "seek", !.job = job, !.seen = recalled]
       /\ UNCHANGED marked

TakeTurn ==
  /\ worker.pc = "idle" /\ queue # <<>> /\ Head(queue).kind = "turn"
  /\ queue' = Tail(queue)
  /\ IF run[Head(queue).run].status # "running"
     THEN UNCHANGED <<worker, marked>>
     ELSE WriteTurn(Head(queue))
  /\ UNCHANGED <<newest, blank, ledger, fact, run, op, released, missed, events>>

\* mutant: live turns do not wait
TakeLiveAtOnce ==
  /\ worker.pc = "idle" /\ queue # <<>> /\ Head(queue).kind = "live"
  /\ queue' = Tail(queue) /\ WriteTurn(Head(queue))
  /\ UNCHANGED <<newest, blank, ledger, fact, run, op, released, missed, events>>

\* mutant: a failed build still counts as active
TakeLiveBehindFailed ==
  /\ worker.pc = "idle" /\ queue # <<>> /\ Head(queue).kind = "live"
  /\ IF \E r \in Runs : run[r].status \in {"queued", "running", "failed"}
     THEN queue' = Append(Tail(queue), Head(queue)) /\ UNCHANGED <<worker, marked>>
     ELSE queue' = Tail(queue) /\ WriteTurn(Head(queue))
  /\ UNCHANGED <<newest, blank, ledger, fact, run, op, released, missed, events>>

\* a live turn goes to the back of the queue while a build is active
TakeLive ==
  /\ worker.pc = "idle" /\ queue # <<>> /\ Head(queue).kind = "live"
  /\ IF Building
     THEN queue' = Append(Tail(queue), Head(queue)) /\ UNCHANGED <<worker, marked>>
     ELSE queue' = Tail(queue) /\ WriteTurn(Head(queue))
  /\ UNCHANGED <<newest, blank, ledger, fact, run, op, released, missed, events>>

\* mutant: no second pass, the recalled rows are all the slot is checked against
SeekNothing ==
  /\ worker.pc = "seek"
  /\ \E w \in Says[worker.job.turn], keyed \in Keyed[worker.job.turn] :
       worker' = [worker EXCEPT !.pc = IF w = "skip" THEN "mark" ELSE "persist",
                                !.what = w, !.keyed = keyed]
  /\ UNCHANGED <<newest, blank, marked, ledger, fact, run, queue, op, released, missed, events>>

\* the model's proposal is back; pass two reads the rows of the keys it names
Seek ==
  /\ worker.pc = "seek"
  /\ \E w \in Says[worker.job.turn], keyed \in Keyed[worker.job.turn] :
       worker' = [worker EXCEPT !.pc = IF w = "skip" THEN "mark" ELSE "persist",
                                !.what = w, !.keyed = keyed,
                                !.seen = IF keyed THEN @ \cup ActiveFacts ELSE @]
  /\ UNCHANGED <<newest, blank, marked, ledger, fact, run, queue, op, released, missed, events>>

Fail(r) == IF r # NoRun /\ Active(r) THEN [run EXCEPT ![r].status = "failed"] ELSE run

\* apply_decisions: a new fact, usable or held, retires one fact that filled its
\* slot when the archive was read
Collisions(what, seen) ==
  IF what \in {"active", "held"} /\ seen # {} THEN {{o} : o \in seen} ELSE {{}}

\* _persist: the new row, the retirement and the ledger rows commit together
Persist ==
  LET t == worker.job.turn
      adds == worker.what \in {"active", "held"} IN
  /\ worker.pc = "persist"
  /\ \E old \in Collisions(worker.what, worker.seen) :
     IF \E o \in old : fact[o] = "cleared"
     THEN \* the row it replaces is gone: the foreign key refuses the commit
          /\ run' = Fail(worker.job.run)
          /\ worker' = Idle
          /\ UNCHANGED <<fact, ledger, missed>>
     ELSE /\ fact' = [u \in Turns |->
                        IF adds /\ u = t THEN worker.what
                        ELSE IF u \in old /\ fact[u] # "forgotten" THEN "superseded"
                        ELSE fact[u]]
          /\ ledger' = Append(ledger, [turn |-> t, run |-> worker.job.run])
          /\ worker' = [Idle EXCEPT !.pc = "mark", !.job = worker.job]
          /\ missed' = (missed \/ /\ worker.what = "active" /\ ~worker.keyed
                                  /\ ~(ActiveFacts \subseteq worker.seen))
          /\ UNCHANGED run
  /\ UNCHANGED <<newest, blank, marked, queue, op, released, events>>

Mark ==
  /\ worker.pc = "mark"
  /\ marked' = marked \cup {worker.job.turn}
  /\ worker' = After(worker.job)
  /\ UNCHANGED <<newest, blank, ledger, fact, run, queue, op, released, missed, events>>

\* mutant: the status is not read again under the lock
CountBlindly ==
  /\ worker.pc = "count"
  /\ LET r == worker.job.run IN
     run' = [run EXCEPT ![r].done = @ + 1,
                        ![r].status = IF run[r].done + 1 >= run[r].total
                                      THEN "completed" ELSE @]
  /\ worker' = Idle
  /\ UNCHANGED <<newest, blank, marked, ledger, fact, queue, op, released, missed, events>>

\* the row is locked and read again: a stopped build stays stopped
Count ==
  /\ worker.pc = "count"
  /\ LET r == worker.job.run IN
     run' = IF run[r].status # "running" THEN run
            ELSE [run EXCEPT ![r].done = @ + 1,
                             ![r].status = IF run[r].done + 1 >= run[r].total
                                           THEN "completed" ELSE @]
  /\ worker' = Idle
  /\ UNCHANGED <<newest, blank, marked, ledger, fact, queue, op, released, missed, events>>

\* mutant: a turn that failed is counted as processed
RaiseCounted ==
  /\ worker.pc \in {"fan", "seek", "persist", "mark"} /\ MayHappen
  /\ worker' = After(worker.job)
  /\ UNCHANGED <<newest, blank, marked, ledger, fact, run, queue, op, released, missed>>

\* the provider, the queue or the job's time limit fails where it is caught: the
\* turn of a build fails the build, a live turn is simply lost
Raise ==
  /\ worker.pc \in {"fan", "seek", "persist", "mark"} /\ MayHappen
  /\ run' = Fail(worker.job.run)
  /\ worker' = Idle
  /\ UNCHANGED <<newest, blank, marked, ledger, fact, queue, op, released, missed>>

\* the work horse is killed, or fails where nothing catches it
Kill ==
  /\ worker.pc # "idle" /\ MayHappen
  /\ run' = IF worker.job.run \in Runs THEN [run EXCEPT ![worker.job.run].lost = TRUE] ELSE run
  /\ worker' = Idle
  /\ UNCHANGED <<newest, blank, marked, ledger, fact, queue, op, released, missed>>

-----------------------------------------------------------------------------
(* The user's store: forget_item, set_hold, clear_store *)

Forget(t) ==
  /\ fact[t] \in {"active", "held", "superseded"}
  /\ MayHappen
  /\ fact' = [fact EXCEPT ![t] = "forgotten"]
  /\ UNCHANGED <<newest, blank, marked, ledger, run, queue, worker, op, released, missed>>

\* set_hold reads the row and refuses a superseded one ...
AskHold(t, kind) ==
  /\ op = NoOp
  /\ fact[t] = IF kind = "hold" THEN "active" ELSE "held"
  /\ MayHappen
  /\ op' = [kind |-> kind, turn |-> t]
  /\ UNCHANGED <<newest, blank, marked, ledger, fact, run, queue, worker, released, missed>>

\* ... and then saves the state it wants; a deleted row stays deleted
SetHold ==
  /\ op.kind \in {"hold", "release"}
  /\ fact' = [fact EXCEPT ![op.turn] =
                IF @ \in {"forgotten", "cleared"} THEN @
                ELSE IF op.kind = "hold" THEN "held" ELSE "active"]
  /\ released' = (released \/ op.kind = "release")
  /\ op' = NoOp
  /\ UNCHANGED <<newest, blank, marked, ledger, run, queue, worker, missed, events>>

\* clear_store looks for an active build ...
AskClear ==
  /\ op = NoOp /\ ~Building
  /\ MayHappen
  /\ op' = [kind |-> "clear", turn |-> 0]
  /\ UNCHANGED <<newest, blank, marked, ledger, fact, run, queue, worker, released, missed>>

\* ... and deletes in a transaction of its own
ClearStore ==
  /\ op.kind = "clear"
  /\ marked' = {} /\ ledger' = <<>>
  /\ fact' = [t \in Turns |-> IF fact[t] = "none" THEN "none" ELSE "cleared"]
  /\ run' = [r \in Runs |-> IF run[r] = Unrequested THEN Unrequested
                          ELSE [run[r] EXCEPT !.base = 0, !.intact = FALSE]]
  /\ op' = NoOp
  /\ UNCHANGED <<newest, blank, queue, worker, released, missed, events>>

-----------------------------------------------------------------------------
Request(r) == AskBuild(r) \/ CreateRun(r) \/ CountTurns(r) \/ EnqueueLaunch(r)
                \/ StopRun(r) \/ KillRequest(r)
Work == TakeLaunch \/ Launch \/ FanOut \/ TakeTurn \/ TakeLive \/ Seek \/ Persist
          \/ Mark \/ Count
Store == \/ \E t \in Turns : Forget(t) \/ AskHold(t, "hold") \/ AskHold(t, "release")
         \/ SetHold \/ AskClear \/ ClearStore

Replies == NewTurn \/ \E t \in Turns : FinishTurn(t)

Next == Replies \/ (\E r \in Runs : Request(r)) \/ Work \/ Raise \/ Kill \/ Store

\* The worker keeps taking jobs, and a started request runs on unless killed.
\* Nothing makes the user act, and nothing must fail.
Fairness ==
  /\ WF_vars(Work)
  /\ \A r \in Runs : WF_vars(CreateRun(r) \/ CountTurns(r) \/ EnqueueLaunch(r))

Spec == Init /\ [][Next]_vars /\ Fairness

-----------------------------------------------------------------------------
(* Properties *)

\* A turn is ingested once, however many jobs name it and wherever a worker died
\* between its ledger rows and its marker (run_memory_writer's two checks).
WrittenOnce == \A i, j \in DOMAIN ledger : ledger[i].turn = ledger[j].turn => i = j

\* From the launch of a build to its last turn, memory is written in the order of
\* the conversation: a turn of the build never lands on top of a newer one, except
\* on what was written before the launch (the deferral of live turns and the
\* order of the fan-out, so that old facts do not overwrite new ones).
HistoryInOrder ==
  \A i, j \in DOMAIN ledger :
    i < j /\ ledger[j].run # NoRun /\ i > run[ledger[j].run].base
      => ledger[i].turn < ledger[j].turn

\* The writer never leaves two usable facts in one slot: it takes a person who
\* releases a held fact to do that, or a decision whose slot is not looked up, for it
\* names no key or is a boundary given another one, beside a fact that pass one had
\* not recalled (apply_decisions' collision seek, on rows read before the write).
SlotUnambiguous == ~released /\ ~missed => \A t, u \in ActiveFacts : t = u

\* A completed build left none of its old turns out, whatever was stopped, failed
\* or started beside it, unless the memory was cleared since: only a reply that was
\* still being streamed when the turns were frozen, or that has no user message, may
\* still be eligible (processed_turns against total_turns, frozen at the launch).
CompletedIsThorough ==
  \A r \in Runs : run[r].status = "completed" /\ run[r].intact
                     => Eligible(r) \subseteq run[r].late \cup Orphans

\* A build that was stopped after its launch never comes back to life, and is
\* never declared failed or completed by the turn that was in hand.
StopHolds ==
  [][\A r \in Runs : run[r].status = "stopped" /\ run[r].started
                       => run'[r].status = "stopped"]_vars

\* A build ends: it completes, fails or is stopped, unless a process driving it
\* was killed.
BuildEnds == \A r \in Runs : Active(r) ~> (~Active(r) \/ run[r].lost)

\* A queued live turn is taken up in the end: it does not circle behind builds for
\* ever, unless one whose process was killed stays active.
Pending(t) == worker.job = LiveJob(t) \/ \E i \in DOMAIN queue : queue[i] = LiveJob(t)
Stuck == \E r \in Runs : Active(r) /\ run[r].lost
LiveTurnsLand ==
  \A t \in Start + 1 .. MaxTurn : (Pending(t) ~> ~Pending(t)) \/ <>[]Stuck
=============================================================================
