------------------------------- MODULE Research -------------------------------
(***************************************************************************)
(* Research runs on Hermes, an agent runtime that DARE reaches over HTTP:  *)
(* the one path of every run (start, stream, settle), the cancellation of  *)
(* a run by its owner under a lease for one attempt at a time, and a chat  *)
(* thread in which Scouts report and the agent is asked to follow up       *)
(* (research/services: run_service, cancellation_service, chat_service,    *)
(* thread_service, scout_service).                                         *)
(*                                                                         *)
(* A run is carried by one process after another: the view that streams a  *)
(* chat turn and then a queued job that waits for its reply, or the job of *)
(* a Scout.  What it remembers between two statements is in proc; a        *)
(* request to cancel is a process of its own.                              *)
(***************************************************************************)
EXTENDS Naturals, FiniteSets

CONSTANTS
  Scouts,      \* Scout runs launched from the thread
  Turns,       \* bound: chat turns of the thread at one time, one run each
  Requests,    \* bound: requests of the owner to cancel a run at one time
  Ends,        \* external: how an agent may end by itself
  Launches,    \* bound: the sets of Scouts that may be launched
  MaxEvents    \* bound, by the Scouts launched: messages posted, requests to cancel,
               \* calls that fail, processes that die, waits that run out

ASSUME ResearchAssumption ==
  /\ Scouts \cap Turns = {} /\ (Scouts \cup Turns) \cap Requests = {}
  /\ IsFiniteSet(Scouts)
  /\ Ends \subseteq {"completed", "failed"}
  /\ Launches \subseteq SUBSET Scouts /\ MaxEvents \in [Launches -> Nat]

VARIABLES
  run,       \* ResearchAgentRun rows
  remote,    \* external: what became of the run on Hermes
  proc,      \* the process that carries a run, or a request to cancel
  thread,    \* the ResearchSession row and its messages, as counters
  jobs,      \* queued run_thread_followup_job's
  events     \* what may still happen: see MaxEvents

vars == <<run, remote, proc, thread, jobs, events>>

Runs == Scouts \cup Turns
Actors == Runs \cup Requests
NoRun == "NoRun"
Truth == {"completed", "failed", "cancelled"}    \* TERMINAL_RUN_STATUSES
Status == {"none", "live", "unknown"} \cup Truth \* live: LIVE_RUN_STATUSES
Remote == {"none", "live", "stopping"} \cup Truth
Record == {"none", "live", "unreachable"} \cup Truth

TypeOK ==
  /\ run \in [Runs -> [status : Status, hid : BOOLEAN, intent : BOOLEAN,
                       tried : BOOLEAN,
                       past : {"open", "ended", "reopened"}]]
  /\ remote \in [Runs -> Remote]
  /\ proc \in [Actors -> [pc : {"idle", "ready", "start", "save", "recheck", "claim",
                                "stop", "ask", "apply", "stream", "settle", "waiting",
                                "finish", "reply", "complete", "finished", "notify",
                                "siblings", "flag", "end"},
                          run : Runs \cup {NoRun}, rec : Record,
                          flag : BOOLEAN, prompt : Nat, waits : BOOLEAN]]
  /\ thread \in [pending : BOOLEAN, posted : Nat, upto : Nat,
                 untold : SUBSET Nat, lost : BOOLEAN]
  /\ jobs \in Nat
  /\ events \in Nat

NewRun(status) ==
  [status |-> status,
   hid |-> FALSE,       \* hermes_run_id is saved
   intent |-> FALSE,    \* cancellation_requested_at
   tried |-> FALSE,     \* cancellation_last_attempt_at is set
   past |-> "open"]     \* history: "ended" once its status was an outcome,
                        \* "reopened" when its process then wrote what it had
                        \* last heard of it
NewProc(pc, r, waits) ==
  [pc |-> pc, run |-> r,
   rec |-> "none",      \* the last run record read from Hermes
   flag |-> FALSE,      \* followup_pending on the thread object in memory
   prompt |-> 0,        \* how many events the prompt of the turn tells of
   waits |-> waits]     \* polls the record until the wait runs out

\* launch_scouts: the runs are committed with their jobs.  The turn that launched
\* them is over, and every event before them is answered.
Init ==
  \E launched \in Launches :
  /\ run = [r \in Runs |-> NewRun(IF r \in launched THEN "live" ELSE "none")]
  /\ remote = [r \in Runs |-> "none"]
  /\ proc = [a \in Actors |-> IF a \in launched THEN NewProc("start", a, TRUE)
                              ELSE NewProc("idle", NoRun, FALSE)]
  /\ thread = [pending |-> FALSE,   \* followup_pending
               posted |-> 0,        \* events
               upto |-> 0,          \* events older than the agent's last reply
               untold |-> {},       \* history: events posted while no turn was under
                                    \* way, and that no prompt sent to Hermes tells of
               lost |-> FALSE]      \* history: a run was left without its process, or
                                    \* a turn never reached Hermes
  /\ jobs = 0 /\ events = MaxEvents[launched]

ActiveTurn == \E r \in Turns : run[r].status = "live"
UnderWay(r) == proc[r].pc \notin {"idle", "end"}
Event == events > 0 /\ events' = events - 1

\* The next statement of a process; one that is over remembers nothing.
Goto(a, pc) ==
  proc' = [proc EXCEPT ![a] =
             IF pc = "end" THEN NewProc(pc, NoRun, FALSE)
             ELSE [@ EXCEPT !.pc = pc, !.rec = "none"]]
\* A status written to the row of a run by a process that looked before.
Write(r, status, past) ==
  run' = [run EXCEPT ![r].status = status,
                     ![r].past = IF status \in Truth THEN "ended" ELSE past]
Lost(when) ==
  thread' = IF when THEN [thread EXCEPT !.lost = TRUE, !.untold = {}] ELSE thread

-----------------------------------------------------------------------------
(* Turns of the thread *)

\* A row for the next turn of the thread.
Unused(r) ==
  /\ proc[r].pc \in {"idle", "end"} /\ run[r].status # "live"
  /\ \A q \in Requests : proc[q].run # r
Free(r) == r = CHOOSE t \in Turns : Unused(t)
\* start_turn begins: the message is there and the prompt is written, with the
\* thread so far, before the row of the run is.
Prepare(r) ==
  /\ run' = [run EXCEPT ![r] = NewRun("none")]
  /\ remote' = [remote EXCEPT ![r] = "none"]
  /\ proc' = [proc EXCEPT ![r] = [NewProc("ready", r, FALSE) EXCEPT
                !.flag = thread.pending, !.prompt = thread.posted]]

\* The view of a message refuses it while a turn is live.
Post(r) ==
  /\ Unused(r) /\ Free(r) /\ ~ActiveTurn /\ Event
  /\ Prepare(r)
  /\ UNCHANGED <<thread, jobs>>

\* run_followup: nothing to do while a turn is live or when all is answered.
Followup(r) ==
  /\ jobs > 0 /\ Unused(r) /\ Free(r)
  /\ jobs' = jobs - 1
  /\ IF ActiveTurn \/ thread.posted = thread.upto
     THEN UNCHANGED <<run, remote, proc>>
     ELSE Prepare(r)
  /\ UNCHANGED <<thread, events>>

CreateTurn(r) ==
  /\ proc[r].pc = "ready"
  /\ run' = [run EXCEPT ![r].status = "live"]
  /\ Goto(r, "start")
  /\ UNCHANGED <<remote, thread, jobs, events>>

-----------------------------------------------------------------------------
(* start: a run reaches Hermes, or does not *)

\* Where a run goes that did not start: a Scout's job still notifies its thread,
\* a turn raises TurnStartFailed.
Unstarted(r) == IF r \in Scouts THEN "notify" ELSE "end"

\* cancelled_before_start, and then start_run
Start(r) ==
  /\ proc[r].pc = "start"
  /\ IF run[r].intent
     THEN /\ Write(r, "cancelled", run[r].past)
          /\ Goto(r, Unstarted(r)) /\ Lost(r \in Turns)
          /\ UNCHANGED remote
     ELSE /\ remote' = [remote EXCEPT ![r] = "live"]
          /\ thread' = [thread EXCEPT !.untold = @ \ 1 .. proc[r].prompt]
          /\ proc' = [proc EXCEPT ![r].pc = "save", ![r].prompt = 0]
          /\ UNCHANGED run
  /\ UNCHANGED <<jobs, events>>

\* Three attempts fail, or the answer of one that did not is lost.
StartFails(r) ==
  /\ proc[r].pc = "start" /\ ~run[r].intent /\ Event
  /\ \E orphan \in BOOLEAN : remote' = IF orphan THEN [remote EXCEPT ![r] = "live"] ELSE remote
  /\ Write(r, "failed", run[r].past)
  /\ Goto(r, Unstarted(r)) /\ Lost(r \in Turns)
  /\ UNCHANGED jobs

SaveId(r) ==
  /\ proc[r].pc = "save"
  /\ run' = [run EXCEPT ![r].hid = TRUE]
  /\ Goto(r, "recheck")
  /\ UNCHANGED <<remote, thread, jobs, events>>

\* mutant: a run that has started does not look for a cancellation again.
RecheckNothing(r) ==
  /\ proc[r].pc = "recheck"
  /\ Goto(r, "stream")
  /\ UNCHANGED <<run, remote, thread, jobs, events>>

Recheck(r) ==
  /\ proc[r].pc = "recheck"
  /\ Goto(r, IF run[r].intent THEN "claim" ELSE "stream")
  /\ UNCHANGED <<run, remote, thread, jobs, events>>

-----------------------------------------------------------------------------
(* Cancellation, by a request of the owner or by the process of the run *)

\* _record_intent; the request ends here when the run has no hermes_run_id, for
\* the run will look when it has one.
Request(q, r) ==
  /\ proc[q].pc \in {"idle", "end"} /\ run[r].status # "none" /\ Event
  /\ IF run[r].status \in Truth
     THEN Goto(q, "end") /\ UNCHANGED run
     ELSE /\ run' = [run EXCEPT ![r].intent = TRUE]
          /\ IF run[r].hid
             THEN proc' = [proc EXCEPT ![q] = NewProc("claim", r, FALSE)]
             ELSE Goto(q, "end")
  /\ UNCHANGED <<remote, thread, jobs>>

\* Where an actor goes after an attempt to cancel, or none.
Attempted(a) == IF a \in Runs THEN Unstarted(a) ELSE "end"

\* _claim_attempt: not within ninety seconds of the last.
Claim(a) ==
  LET r == proc[a].run IN
  /\ proc[a].pc = "claim"
  /\ \/ /\ run[r].status \in Truth \/ ~run[r].hid \/ run[r].tried
        /\ Goto(a, Attempted(a)) /\ UNCHANGED run /\ Lost(a \in Runs)
     \/ /\ run[r].status \notin Truth /\ run[r].hid
        /\ run' = [run EXCEPT ![r].tried = TRUE]
        /\ Goto(a, "stop") /\ UNCHANGED thread
  /\ UNCHANGED <<remote, jobs, events>>

Stop(a) ==
  LET r == proc[a].run IN
  /\ proc[a].pc = "stop"
  /\ \/ /\ remote' = [remote EXCEPT ![r] = IF @ = "live" THEN "stopping" ELSE @]
        /\ UNCHANGED events
     \/ Event /\ UNCHANGED remote
  /\ Goto(a, "ask")
  /\ UNCHANGED <<run, thread, jobs>>

\* get_run: the record as Hermes has it now, or none.
Heard(r) == IF remote[r] \in Truth THEN remote[r] ELSE "live"

\* _terminal_run_result
Ask(a) ==
  /\ proc[a].pc = "ask"
  /\ \/ /\ proc' = [proc EXCEPT ![a].pc = "apply", ![a].rec = Heard(proc[a].run)]
        /\ UNCHANGED events
     \/ /\ Event
        /\ proc' = [proc EXCEPT ![a].pc = "apply", ![a].rec = "unreachable"]
  /\ UNCHANGED <<run, remote, thread, jobs>>

\* What a record that is no outcome says of a run.
Unsettled(rec) == IF rec = "live" THEN "live" ELSE "unknown"

\* mutant: what a late answer says is written over an outcome.
ApplyAnyway(a) ==
  LET r == proc[a].run   rec == proc[a].rec IN
  /\ proc[a].pc = "apply"
  /\ Write(r, IF rec \in Truth THEN rec ELSE Unsettled(rec), run[r].past)
  /\ Goto(a, Attempted(a))
  /\ Lost(a \in Runs /\ rec \notin Truth)
  /\ UNCHANGED <<remote, jobs, events>>

\* _apply_results: an outcome is written whatever the row says, anything else
\* only over a row without one.
Apply(a) ==
  LET r == proc[a].run   rec == proc[a].rec IN
  /\ proc[a].pc = "apply"
  /\ CASE rec \in Truth -> Write(r, rec, run[r].past)
       [] rec \notin Truth /\ run[r].status \notin Truth ->
            Write(r, Unsettled(rec), run[r].past)
       [] OTHER -> UNCHANGED run
  /\ Goto(a, Attempted(a))
  /\ Lost(a \in Runs /\ rec \notin Truth)
  /\ UNCHANGED <<remote, jobs, events>>

-----------------------------------------------------------------------------
(* RunStream and await_result: the outcome of a run that reached Hermes *)

\* Where a run goes once its final text is known.
Text(r) == IF r \in Turns THEN "reply" ELSE "complete"

\* The stream ends with the text.
Stream(r) ==
  /\ proc[r].pc = "stream" /\ remote[r] = "completed"
  /\ Goto(r, Text(r))
  /\ UNCHANGED <<run, remote, thread, jobs, events>>

\* Where a run goes that has an outcome without a text.
Settled(r) == IF r \in Scouts THEN "notify" ELSE "finished"

\* A text ends the reading, and so does any record for who does not wait.
Read(r, rec) ==
  CASE rec = "completed" -> Goto(r, Text(r))
    [] rec = "live" /\ proc[r].waits -> Goto(r, "waiting")
    [] OTHER -> proc' = [proc EXCEPT ![r].pc = "settle", ![r].rec = rec]

\* Or it goes quiet, breaks or ends without one, and the record is read
\* (await_result).  A run that waits reads it again; what finds it still at work
\* then changes nothing, and a read that fails is forgotten.
Poll(r) ==
  /\ proc[r].pc = "stream" \/ (proc[r].pc = "waiting" /\ remote[r] \in Truth)
  /\ \/ UNCHANGED events /\ Read(r, Heard(r))
     \/ proc[r].pc = "stream" /\ Event /\ Read(r, "unreachable")
  /\ UNCHANGED <<run, remote, thread, jobs>>

\* settle as await_result calls it with what it has read, whatever the row says.
\* The view of a turn leaves a run still at work to a job.
Settle(r) ==
  LET rec == proc[r].rec IN
  /\ proc[r].pc = "settle"
  /\ Write(r, IF rec \in Truth THEN rec ELSE Unsettled(rec),
           IF run[r].past = "ended" THEN "reopened" ELSE run[r].past)
  /\ Goto(r, IF rec = "live" THEN "finish" ELSE Settled(r))
  /\ UNCHANGED <<remote, thread, jobs, events>>

\* The wait runs out: the run stays as it was last heard of.
GiveUp(r) ==
  /\ proc[r].pc = "waiting" /\ Event
  /\ Write(r, "live", IF run[r].past = "ended" THEN "reopened" ELSE run[r].past)
  /\ Goto(r, Settled(r)) /\ Lost(TRUE)
  /\ UNCHANGED <<remote, jobs>>

\* finish_turn: the job does nothing when the run is no longer live; otherwise it
\* reads the record as after a stream without a text, and waits.
Finish(r) ==
  /\ proc[r].pc = "finish"
  /\ IF run[r].status # "live"
     THEN Goto(r, "end")
     ELSE proc' = [proc EXCEPT ![r].pc = "stream", ![r].waits = TRUE,
                               ![r].flag = thread.pending]
  /\ UNCHANGED <<run, remote, thread, jobs, events>>

\* _save_reply, and then complete
Reply(r) ==
  /\ proc[r].pc = "reply"
  /\ thread' = [thread EXCEPT !.upto = thread.posted]
  /\ Goto(r, "complete")
  /\ UNCHANGED <<run, remote, jobs, events>>

Complete(r) ==
  /\ proc[r].pc = "complete"
  /\ Write(r, "completed", run[r].past)
  /\ Goto(r, Settled(r))
  /\ UNCHANGED <<remote, thread, jobs, events>>

-----------------------------------------------------------------------------
(* on_run_finished *)

\* notify_thread and on_run_finished of a Scout: the event, if its run has ended.
Notify(r) ==
  /\ proc[r].pc = "notify"
  /\ IF run[r].status = "live"
     THEN Goto(r, "end") /\ UNCHANGED thread
     ELSE LET n == thread.posted + 1
              told == thread.lost \/ \E t \in Turns : UnderWay(t) IN
          /\ thread' = [thread EXCEPT !.posted = n,
                                      !.untold = IF told THEN @ ELSE @ \cup {n}]
          /\ proc' = [proc EXCEPT ![r].pc = "siblings", ![r].flag = thread.pending]
  /\ UNCHANGED <<run, remote, jobs, events>>

\* mutant: a sibling that did not complete is still waited for.
AskFollowupAll(r) ==
  /\ proc[r].pc = "siblings"
  /\ LET last == \A s \in Scouts \ {r} : run[s].status \in {"none", "completed"} IN
     /\ Goto(r, IF last /\ ActiveTurn /\ ~proc[r].flag THEN "flag" ELSE "end")
     /\ jobs' = IF last /\ ~ActiveTurn THEN jobs + 1 ELSE jobs
  /\ UNCHANGED <<run, remote, thread, events>>

\* The last Scout asks for a follow-up (request_followup): now, or with a mark on
\* the thread for the end of the live turn.
AskFollowup(r) ==
  /\ proc[r].pc = "siblings"
  /\ LET last == \A s \in Scouts \ {r} : run[s].status # "live" IN
     /\ Goto(r, IF last /\ ActiveTurn /\ ~proc[r].flag THEN "flag" ELSE "end")
     /\ jobs' = IF last /\ ~ActiveTurn THEN jobs + 1 ELSE jobs
  /\ UNCHANGED <<run, remote, thread, events>>

Mark(r) ==
  /\ proc[r].pc = "flag"
  /\ thread' = [thread EXCEPT !.pending = TRUE]
  /\ Goto(r, "end")
  /\ UNCHANGED <<run, remote, jobs, events>>

\* on_run_finished of a turn, which looks at the mark on the thread it holds
TurnFinished(r) ==
  /\ proc[r].pc = "finished"
  /\ IF proc[r].flag
     THEN thread' = [thread EXCEPT !.pending = FALSE] /\ jobs' = jobs + 1
     ELSE UNCHANGED <<thread, jobs>>
  /\ Goto(r, "end")
  /\ UNCHANGED <<run, remote, events>>

-----------------------------------------------------------------------------
(* Hermes and mishaps *)

\* External: an agent ends by itself, or because it was stopped.
RemoteEnds(r) ==
  /\ remote[r] \in {"live", "stopping"}
  /\ \E end \in Ends \cup IF remote[r] = "stopping" THEN {"cancelled"} ELSE {} :
       remote' = [remote EXCEPT ![r] = end]
  /\ UNCHANGED <<run, proc, thread, jobs, events>>

\* A worker or a server process dies, or the browser leaves a streamed turn.
Die(a) ==
  /\ proc[a].pc \notin {"idle", "finish", "end"} /\ Event
  /\ Goto(a, "end")
  /\ Lost(a \in Runs \/ proc[a].pc = "claim")
  /\ UNCHANGED <<run, remote, jobs>>

-----------------------------------------------------------------------------
Drive(r) == \/ Start(r) \/ SaveId(r) \/ Recheck(r)
            \/ Stream(r) \/ Poll(r) \/ Settle(r) \/ Complete(r)
DriveTurn(r) == CreateTurn(r) \/ Finish(r) \/ Reply(r) \/ TurnFinished(r)
DriveScout(r) == Notify(r) \/ AskFollowup(r) \/ Mark(r)
Attempt(a) == Claim(a) \/ Stop(a) \/ Ask(a) \/ Apply(a)

\* What goes on by itself: processes that have begun, queued jobs, and agents.
Steps ==
  \/ \E r \in Runs : Drive(r) \/ RemoteEnds(r)
  \/ \E r \in Turns : DriveTurn(r) \/ Followup(r)
  \/ \E r \in Scouts : DriveScout(r)
  \/ \E a \in Actors : Attempt(a)

Next ==
  \/ Steps
  \/ \E r \in Turns : Post(r)
  \/ \E q \in Requests, r \in Runs : Request(q, r)
  \/ \E r \in Runs : StartFails(r) \/ GiveUp(r)
  \/ \E a \in Actors : Die(a)

Spec == Init /\ [][Next]_vars
\* Something goes on while anything can; nobody has to post or to cancel, and
\* nothing has to fail.  No step can be taken for ever, so this is enough.
FairSpec == Spec /\ WF_vars(Steps)

-----------------------------------------------------------------------------
(* Properties *)

\* The outcome of a run that reached Hermes is the one Hermes reports, whoever
\* wrote it: a stop that was acknowledged is not yet a cancellation.  And an
\* outcome once written stands against requests to cancel, however late their
\* answers are applied; only the run's own process can write over it what it
\* heard before (settle does not look at the row).
OutcomeStands ==
  \A r \in Runs :
    /\ run[r].status \in Truth /\ run[r].hid => run[r].status = remote[r]
    /\ run[r].past = "ended" => run[r].status \in Truth

\* The process of a run that is past its second look at the cancellation, or is
\* before its first.
Looked(r) == proc[r].pc \notin {"recheck", "claim"}

\* No request to cancel falls between the row and Hermes: when a live run has an
\* id and an intent, a stop was attempted, or somebody is about to (the request
\* reads the id after it wrote the intent, and the run reads the intent after it
\* wrote the id).
StopNotLost ==
  \A r \in Runs :
    run[r].status = "live" /\ run[r].hid /\ run[r].intent =>
      \/ run[r].tried
      \/ ~Looked(r)
      \/ \E q \in Requests : proc[q].run = r /\ proc[q].pc = "claim"
      \/ thread.lost

\* What a Scout reports while no turn is under way, the agent is told in some
\* turn, however the Scouts' endings, the user's messages and the follow-up jobs
\* interleave, unless a run was abandoned or a turn did not start.
FollowupComes ==
  \A i \in 1 .. Cardinality(Scouts) : i \in thread.untold ~> i \notin thread.untold

=============================================================================
