------------------------------ MODULE Workflows ------------------------------
(***************************************************************************)
(* Workflow runs: the walk of an execution over the waves of its graph,    *)
(* the status of a run derived from its steps, human validation, single    *)
(* steps, restarts, deliberations of several models with their time-outs   *)
(* and stop, batches of files, and the cleanup of stale runs and batches   *)
(* (workflow_execution_service.py and workflows/services).                 *)
(*                                                                         *)
(* The synchronous blocks of a server process run on its one thread, so a  *)
(* block of an execution is atomic for the others of that process; every   *)
(* execution is given a process of its own.  Between processes a block     *)
(* that recomputes a run is two steps: it writes and reads steps, and then *)
(* it writes the status of the run.                                        *)
(***************************************************************************)
EXTENDS Naturals, FiniteSets

CONSTANTS
  Nodes,       \* the executable nodes a graph may have, numbered in their order
  Drawn,       \* graphs drawn in the editor
  Ensembles,   \* graphs built for deliberations
  MaxFiles,    \* bound: files of a batch over a drawn graph
  MaxRun,      \* bound: workflow runs
  MaxExec,     \* bound: executions at one time
  MaxEvents    \* bound: what may happen after the first start: restarts, answers
               \* and single steps, failures, kills, time-outs, stops and cleanups

Routes == {"yes", "no"}
Plain == "plain"       \* an edge without a source handle
Graph == [nodes : SUBSET Nodes, router : SUBSET Nodes, human : SUBSET Nodes,
          edge : SUBSET [from : Nodes, to : Nodes, route : Routes \cup {Plain}]]

ASSUME WorkflowsAssumption ==
  /\ Nodes \subseteq Nat /\ IsFiniteSet(Nodes)
  /\ Drawn \cup Ensembles \subseteq Graph
  /\ \A g \in Ensembles : g.router = {}
  /\ MaxFiles \in [Drawn -> 0 .. MaxRun]
  /\ MaxRun \in Nat \ {0} /\ MaxExec \in Nat \ {0}
  /\ MaxEvents \in Nat

VARIABLES
  run,      \* WorkflowRun rows
  step,     \* WorkflowRunStep rows: run -> node -> status
  route,    \* the selected_route in the metadata of a router's row
  exec,     \* executions: background tasks of the server processes
  cleaner,  \* a cleanup of a stale run between its blocks: the run, or NoRun
  batch,    \* the BatchRun row and the file tasks not begun
  events    \* requests and failures so far

vars == <<run, step, route, exec, cleaner, batch, events>>

Runs == 1 .. MaxRun
NoRun == 0
Execs == 1 .. MaxExec
NoNode == 0
Finished == {"completed", "skipped"}
Open == {"pending", "running", "waiting"}   \* waiting: PENDING_HUMAN_INPUT
RunStatus == {"running", "waiting", "completed", "failed"}
StepStatus == {"absent"} \cup Open \cup Finished \cup {"failed"}
Result == {"none", "skipped", "done", "failed", "waiting"} \cup Routes
Kind == {"none", "live", "single", "file", "ensemble"}

NoGraph == [nodes |-> {}, router |-> {}, human |-> {}, edge |-> {}]
NoRow == [kind |-> "none", graph |-> NoGraph, status |-> "running", partial |-> FALSE,
          ended |-> FALSE,
          loose |-> FALSE,     \* history: since a walk over it last began alone, it was
                               \* touched by two at once, its execution was killed or
                               \* abandoned, or a router run by hand failed
          stopped |-> FALSE,   \* history: the stop of its deliberation was recorded
          passed |-> FALSE]    \* history: its file task succeeded
Idle == [pc |-> "idle", run |-> NoRun, file |-> FALSE, ok |-> TRUE, stop |-> FALSE,
         wave |-> 0, node |-> NoNode, pick |-> Plain, write |-> "none",
         got |-> [n \in Nodes |-> "none"], at |-> [n \in Nodes |-> "off"]]
NoBatch == [status |-> "none", graph |-> NoGraph, total |-> 0, due |-> 0, completed |-> 0, failed |-> 0,
            stale |-> FALSE,   \* get_latest_summary has found it stale
            cleaned |-> FALSE,  \* history: failed as stale
            lost |-> FALSE]     \* history: a file's task was killed or abandoned

ExecPc == {"idle", "setup", "answer", "load", "plan", "nodes", "final", "end",
           "single", "stopping", "stopped", "count", "check"}
NodePc == {"off", "reset", "start", "begun", "ask", "late", "over"}

TypeOK ==
  /\ run \in [Runs -> [kind : Kind, graph : Drawn \cup Ensembles \cup {NoGraph},
                       status : RunStatus, partial : BOOLEAN, ended : BOOLEAN,
                       loose : BOOLEAN, stopped : BOOLEAN, passed : BOOLEAN]]
  /\ step \in [Runs -> [Nodes -> StepStatus]]
  /\ route \in [Runs -> [Nodes -> Routes \cup {Plain}]]
  /\ exec \in [Execs -> [pc : ExecPc, run : Runs \cup {NoRun}, file : BOOLEAN,
                         ok : BOOLEAN, stop : BOOLEAN, wave : Nat,
                         node : Nodes \cup {NoNode}, pick : Routes \cup {Plain},
                         write : RunStatus \cup {"none"}, got : [Nodes -> Result],
                         at : [Nodes -> NodePc]]]
  /\ cleaner \in Runs \cup {NoRun}
  /\ batch \in [status : {"none", "running", "completed", "failed"},
                graph : Drawn \cup {NoGraph}, total : Nat, due : Nat, completed : Nat, failed : Nat, stale : BOOLEAN,
                cleaned : BOOLEAN, lost : BOOLEAN]
  /\ events \in 0 .. MaxEvents

Least(S) == CHOOSE n \in S : \A m \in S : n <= m
NodesOf(r) == run[r].graph.nodes

\* get_exec_waves of an acyclic graph: a node's wave follows those it depends on
Wave(g) ==
  LET Before(n) == {m \in g.nodes : \E e \in g.edge : e.from = m /\ e.to = n}
      wave[n \in g.nodes] ==
        IF Before(n) = {} THEN 1
        ELSE 1 + CHOOSE w \in {wave[m] : m \in Before(n)} :
                   \A m \in Before(n) : wave[m] <= w
  IN wave

\* Drawn graphs are acyclic, so their waves are numbered from 1 without a gap and
\* every edge leads to a later one; only a router has routes, and only a router
\* may ask its user.
ASSUME GraphsAssumption ==
  \A g \in Drawn \cup Ensembles :
    /\ g.human \subseteq g.router /\ g.router \subseteq g.nodes
    /\ \A e \in g.edge : /\ e.from \in g.nodes /\ e.to \in g.nodes
                         /\ Wave(g)[e.from] < Wave(g)[e.to]
                         /\ e.route # Plain => e.from \in g.router
    /\ \A n \in g.nodes : /\ Wave(g)[n] \in Nat \ {0}
                          /\ \A w \in 1 .. Wave(g)[n] : \E m \in g.nodes : Wave(g)[m] = w

\* a deliberation ends in its chairman, who reads what all the others wrote
ASSUME ChairmanAssumption ==
  \A g \in Ensembles : \E c \in g.nodes : \A n \in g.nodes \ {c} : Wave(g)[n] < Wave(g)[c]

InWave(r, w) == {n \in NodesOf(r) : Wave(run[r].graph)[n] = w}
Busy(r) == cleaner = r \/ \E x \in Execs : exec[x].run = r

Init ==
  /\ run = [r \in Runs |-> NoRow]
  /\ step = [r \in Runs |-> [n \in Nodes |-> "absent"]]
  /\ route = [r \in Runs |-> [n \in Nodes |-> Plain]]
  /\ exec = [x \in Execs |-> Idle]
  /\ cleaner = NoRun /\ batch = NoBatch
  /\ events = 0

MayHappen == events < MaxEvents /\ events' = events + 1

-----------------------------------------------------------------------------
(* RunStatusManager and the blocks of an execution *)

\* _derive_status
Derive(row, partial) ==
  LET S == {row[n] : n \in Nodes} \ {"absent"} IN
  IF S = {} THEN "running"
  ELSE IF "waiting" \in S THEN "waiting"
  ELSE IF "failed" \in S THEN "failed"
  ELSE IF "running" \in S THEN "running"
  ELSE IF S \subseteq Finished \/ (partial /\ S \cap Finished # {}) THEN "completed"
  ELSE "running"

\* mark_failed
FailOpen(row) == [n \in Nodes |-> IF row[n] \in Open THEN "failed" ELSE row[n]]

\* the first step of a block of x, which goes on as e: steps written and read
Block(x, row, e) ==
  /\ step' = [step EXCEPT ![exec[x].run] = row]
  /\ exec' = [exec EXCEPT ![x] = [e EXCEPT !.write = Derive(row, run[e.run].partial)]]

\* the same for mark_failed, which forces the run to fail
FailBlock(x, e) ==
  /\ step' = [step EXCEPT ![e.run] = FailOpen(@)]
  /\ exec' = [exec EXCEPT ![x] = [e EXCEPT !.write = "failed"]]

Row(x) == step[exec[x].run]
At(x, pc) == exec[x].pc = pc /\ exec[x].write = "none"
OverWith(x, n, result) == [exec[x] EXCEPT !.at[n] = "over", !.got[n] = result]

\* the second step: the status, and ended_at where a run is finalized
Commit(x) ==
  /\ exec[x].write # "none"
  /\ LET e == exec[x] IN
     /\ run' = [run EXCEPT ![e.run].status = e.write,
                           ![e.run].ended = @ \/ e.pc \in {"end", "stopped"},
                           ![e.run].stopped = @ \/ e.pc = "stopped",
                           ![e.run].passed = @ \/ (e.pc = "end" /\ e.file /\ e.ok)]
     /\ exec' = [exec EXCEPT ![x] =
          IF e.pc # "end"
          THEN [e EXCEPT !.write = "none",
                         !.at = [n \in Nodes |-> IF @[n] = "begun" THEN "ask" ELSE @[n]]]
          ELSE IF e.file THEN [Idle EXCEPT !.pc = "count", !.file = TRUE, !.ok = e.ok]
          ELSE Idle]
  /\ UNCHANGED <<step, route, cleaner, batch, events>>

-----------------------------------------------------------------------------
(* Requests *)

\* the lowest free place for an execution
Place(x) == exec[x] = Idle /\ \A y \in 1 .. x - 1 : exec[y] # Idle
\* runs share nothing, so one is enough besides the files of a batch
Fresh == batch = NoBatch /\ run[1] = NoRow
NextRun(r) == run[r] = NoRow /\ \A q \in 1 .. r - 1 : run[q] # NoRow

\* create_full_run and create_partial_run: rows for the steps, none for routers
Create(r, kind, g) ==
  /\ NextRun(r)
  /\ run' = [run EXCEPT ![r] = [NoRow EXCEPT !.kind = kind, !.graph = g,
                                             !.partial = kind = "single"]]
  /\ step' = [step EXCEPT ![r] = [n \in Nodes |->
                IF n \in g.nodes \ g.router THEN "pending" ELSE "absent"]]

\* start of the live executor, or a deliberation, which creates its run itself
NewRun(x, r, g) ==
  /\ Place(x) /\ Fresh
  /\ Create(r, IF g \in Ensembles THEN "ensemble" ELSE "live", g)
  /\ exec' = [exec EXCEPT ![x] = [Idle EXCEPT !.pc = "setup", !.run = r]]
  /\ UNCHANGED <<route, cleaner, batch, events>>

\* start with a run that exists: nothing asks whether it is being executed.
\* Found as the workflow's partial run it is first converted to a full one.
Restart(x, r, convert) ==
  /\ Place(x) /\ MayHappen
  /\ run[r].kind \notin {"none", "ensemble"}
  /\ convert => run[r].partial /\ ~run[r].ended
  /\ run' = [run EXCEPT ![r].partial = @ /\ ~convert, ![r].loose = Busy(r)]
  /\ exec' = [exec EXCEPT ![x] = [Idle EXCEPT !.pc = "setup", !.run = r,
                !.write = IF convert THEN Derive(step[r], FALSE) ELSE "none"]]
  /\ UNCHANGED <<step, route, cleaner, batch>>

\* submit_validation of a node its user sees waiting
Answer(x, r, n, q) ==
  /\ Place(x) /\ MayHappen
  /\ n \in run[r].graph.human /\ step[r][n] = "waiting"
  /\ run' = [run EXCEPT ![r].loose = Busy(r)]
  /\ exec' = [exec EXCEPT ![x] = [Idle EXCEPT !.pc = "answer", !.run = r, !.node = n,
                                              !.pick = q]]
  /\ UNCHANGED <<step, route, cleaner, batch>>

\* a node run by hand, in a new partial run or in a run that exists: a step is
\* reset first, a router is not, even when it has decided.  The results loaded for
\* it are only text for its model.
Missing(r, n, row) ==
  {e \in run[r].graph.edge : /\ e.to = n /\ e.from \notin run[r].graph.router
                             /\ row[e.from] \notin Finished}
SingleStep(x, r, n) ==
  /\ Place(x) /\ MayHappen
  /\ run[r].kind \notin {"none", "ensemble"}
  /\ n \in NodesOf(r) /\ Missing(r, n, step[r]) = {}
  /\ run' = [run EXCEPT ![r].loose = @ \/ Busy(r)]
  /\ exec' = [exec EXCEPT ![x] = [Idle EXCEPT !.pc = "single", !.run = r, !.node = n,
                !.at[n] = IF n \in run[r].graph.router THEN "start" ELSE "reset"]]
  /\ UNCHANGED <<step, route, cleaner, batch>>

NewPartial(r, g) ==
  /\ Fresh /\ Create(r, "single", g)
  /\ UNCHANGED <<route, exec, cleaner, batch, events>>

StartBatch(n, g) ==
  /\ Fresh /\ n <= MaxFiles[g]
  /\ batch' = [NoBatch EXCEPT !.status = "running", !.graph = g, !.total = n, !.due = n]
  /\ UNCHANGED <<run, step, route, exec, cleaner, events>>

-----------------------------------------------------------------------------
(* The walk of an execution *)

\* what lies between the row of a run and the guard of its walk is done: the room
\* of a live run, the row of a file's run, the tracker of a deliberation
Begin(x) ==
  /\ At(x, "setup")
  /\ exec' = [exec EXCEPT ![x].pc = "load"]
  /\ UNCHANGED <<run, step, route, cleaner, batch, events>>

\* mutant: the status is not part of the update's condition
TakeAnswerBlindly(x) ==
  /\ At(x, "answer")
  /\ LET e == exec[x] IN
     /\ Block(x, [Row(x) EXCEPT ![e.node] = "completed"],
              [Idle EXCEPT !.pc = "load", !.run = e.run])
     /\ route' = [route EXCEPT ![e.run][e.node] = e.pick]
  /\ UNCHANGED <<run, cleaner, batch, events>>

\* complete_human_validation: only a waiting step takes the answer
TakeAnswer(x) ==
  /\ At(x, "answer")
  /\ LET e == exec[x] IN
     IF step[e.run][e.node] = "waiting"
     THEN /\ Block(x, [Row(x) EXCEPT ![e.node] = "completed"],
                   [Idle EXCEPT !.pc = "load", !.run = e.run])
          /\ route' = [route EXCEPT ![e.run][e.node] = e.pick]
     ELSE exec' = [exec EXCEPT ![x] = Idle] /\ UNCHANGED <<step, route>>
  /\ UNCHANGED <<run, cleaner, batch, events>>

\* load_existing_results
LoadResults(x) ==
  /\ At(x, "load")
  /\ LET r == exec[x].run
         Loaded(n) == IF step[r][n] = "skipped" THEN "skipped"
                      ELSE IF step[r][n] # "completed" THEN "none"
                      ELSE IF n \in run[r].graph.router THEN route[r][n] ELSE "done" IN
     exec' = [exec EXCEPT ![x].pc = "plan", ![x].wave = 1,
                          ![x].got = [n \in Nodes |-> Loaded(n)]]
  /\ UNCHANGED <<run, step, route, cleaner, batch, events>>

\* mutant: any predecessor that was not skipped lets the node in
ShouldExecuteAny(g, n, got) ==
  LET incoming == {e \in g.edge : e.to = n} IN
  incoming = {} \/ \E e \in incoming : got[e.from] \notin {"none", "skipped"}

\* should_execute
ShouldExecute(g, n, got) ==
  LET incoming == {e \in g.edge : e.to = n}
      routed == {e \in incoming : e.route # Plain /\ got[e.from] \in Routes}
      Valid(e) == got[e.from] \notin {"none", "skipped"} IN
  \/ incoming = {}
  \/ n \notin g.router /\ routed # {} /\ \E e \in routed : got[e.from] = e.route
  \/ (n \in g.router \/ routed = {}) /\ \E e \in incoming : Valid(e)

\* the next wave, or the end of the walk: a success when no node failed in it
Onward(e) ==
  IF InWave(e.run, e.wave + 1) # {}
  THEN [e EXCEPT !.pc = "plan", !.wave = @ + 1, !.at = Idle.at]
  ELSE [e EXCEPT !.pc = "final", !.ok = \A n \in Nodes : e.got[n] # "failed"]

\* a wave: nodes done before are left alone, the rest is run or skipped.  The
\* blocks that mark the skipped ones are taken as one.
Plan(x) ==
  LET e == exec[x]
      due == {n \in InWave(e.run, e.wave) : e.got[n] \in {"none", "skipped"}}
      runs == {n \in due : ShouldExecute(run[e.run].graph, n, e.got)}
      marked == {n \in due \ runs : Row(x)[n] # "absent"}
      planned == [e EXCEPT !.got = [n \in Nodes |-> IF n \in due \ runs THEN "skipped"
                                                    ELSE e.got[n]],
                           !.at = [n \in Nodes |-> IF n \in runs THEN "start" ELSE "off"]]
      on == IF runs = {} THEN Onward(planned) ELSE [planned EXCEPT !.pc = "nodes"] IN
  /\ At(x, "plan")
  /\ IF marked = {} THEN exec' = [exec EXCEPT ![x] = on] /\ UNCHANGED step
     ELSE Block(x, [n \in Nodes |-> IF n \in marked THEN "skipped" ELSE Row(x)[n]], on)
  /\ UNCHANGED <<run, route, cleaner, batch, events>>

AtNode(x, n, at) ==
  /\ exec[x].pc \in {"nodes", "single", "stopping", "stopped"}
  /\ exec[x].at[n] = at /\ exec[x].write = "none"

\* a step run by hand is reset first
NodeReset(x, n) ==
  /\ AtNode(x, n, "reset")
  /\ Block(x, [Row(x) EXCEPT ![n] = "pending"], [exec[x] EXCEPT !.at[n] = "start"])
  /\ UNCHANGED <<run, route, cleaner, batch, events>>

NodeStart(x, n) ==
  /\ AtNode(x, n, "start")
  /\ Block(x, [Row(x) EXCEPT ![n] = "running"], [exec[x] EXCEPT !.at[n] = "begun"])
  /\ UNCHANGED <<run, route, cleaner, batch, events>>

\* the model has answered: a step completes, a router has chosen, or asks its user
NodeDone(x, n) ==
  /\ AtNode(x, n, "ask")
  /\ LET r == exec[x].run
         g == run[r].graph IN
     IF n \in g.human
     THEN /\ Block(x, [Row(x) EXCEPT ![n] = "waiting"], OverWith(x, n, "waiting"))
          /\ UNCHANGED route
     ELSE \E result \in IF n \in g.router THEN Routes ELSE {"done"} :
            /\ Block(x, [Row(x) EXCEPT ![n] = "completed"], OverWith(x, n, result))
            /\ route' = IF n \in g.router THEN [route EXCEPT ![r][n] = result] ELSE route
  /\ UNCHANGED <<run, cleaner, batch, events>>

\* an exception marks the row; a router without data or routes leaves it as it is
NodeFails(x, n) ==
  /\ MayHappen /\ \/ AtNode(x, n, "start")
                  \/ AtNode(x, n, "ask")
  /\ \/ Block(x, [Row(x) EXCEPT ![n] = "failed"], OverWith(x, n, "failed"))
     \/ /\ n \in run[exec[x].run].graph.router
        /\ exec' = [exec EXCEPT ![x] = OverWith(x, n, "failed")]
        /\ UNCHANGED step
  /\ UNCHANGED <<run, route, cleaner, batch>>

\* a node of a deliberation overruns; a block it has begun still runs to its end
TimeOut(x, n) ==
  /\ exec[x].pc = "nodes" /\ run[exec[x].run].kind = "ensemble" /\ MayHappen
  /\ exec[x].at[n] \in {"start", "begun", "ask"}
  /\ exec' = [exec EXCEPT ![x].at[n] = "late", ![x].got[n] = "failed"]
  /\ UNCHANGED <<run, step, route, cleaner, batch>>

\* the results of a wave are looked at when its last node is over
AllOver(x) == \A n \in Nodes : exec[x].at[n] \in {"off", "late", "over"}
WaveOver(x) == At(x, "nodes") /\ ~exec[x].stop /\ AllOver(x)

\* mark_node_failed
FailLate(x, n) ==
  /\ WaveOver(x) /\ exec[x].at[n] = "late"
  /\ Block(x, [Row(x) EXCEPT ![n] = "failed"], [exec[x] EXCEPT !.at[n] = "over"])
  /\ UNCHANGED <<run, route, cleaner, batch, events>>

\* a node waits for its user: the execution ends and the run stays open, or in a
\* batch the node fails and the run with it; otherwise the walk goes on
Decide(x) ==
  LET e == exec[x]
      waiting == {n \in Nodes : e.at[n] = "over" /\ e.got[n] = "waiting"}
      n == Least(waiting)
      lost == [e EXCEPT !.pc = "final", !.ok = FALSE] IN
  /\ WaveOver(x) /\ \A m \in Nodes : e.at[m] # "late"
  /\ IF waiting = {} THEN exec' = [exec EXCEPT ![x] = Onward(e)] /\ UNCHANGED step
     ELSE IF run[e.run].kind # "file" THEN exec' = [exec EXCEPT ![x] = Idle] /\ UNCHANGED step
     ELSE IF Row(x)[n] = "waiting" THEN Block(x, [Row(x) EXCEPT ![n] = "failed"], lost)
     ELSE exec' = [exec EXCEPT ![x] = lost] /\ UNCHANGED step
  /\ UNCHANGED <<run, route, cleaner, batch, events>>

\* mutant: a failed run is recomputed and its open steps are left
FinalRecomputes(x) ==
  /\ At(x, "final")
  /\ Block(x, Row(x), [exec[x] EXCEPT !.pc = "end"])
  /\ UNCHANGED <<run, route, cleaner, batch, events>>

\* finalize_run and mark_run_failed
Final(x) ==
  /\ At(x, "final")
  /\ IF exec[x].ok THEN Block(x, Row(x), [exec[x] EXCEPT !.pc = "end"])
     ELSE FailBlock(x, [exec[x] EXCEPT !.pc = "end"])
  /\ UNCHANGED <<run, route, cleaner, batch, events>>

\* an exception outside the nodes
Break(x) ==
  /\ MayHappen /\ \E pc \in {"load", "plan"} : At(x, pc)
  /\ exec' = [exec EXCEPT ![x].pc = "final", ![x].ok = FALSE]
  /\ UNCHANGED <<run, step, route, cleaner, batch>>

\* What no handler makes good: a stop or an exception between the row of a run and
\* the guard of its walk, an answer that is not taken, a deliberation whose tracker
\* fails as it is stopped (the nodes that did not hear the stop are over by then),
\* a file that is not counted or not checked.  The execution ends, its run stays.
Abandon(x) ==
  LET e == exec[x] IN
  /\ MayHappen /\ e.write = "none" /\ AllOver(x)
  /\ e.pc = "nodes" => e.stop
  /\ e.pc \in {"setup", "answer", "nodes", "stopping", "count", "check"}
  /\ exec' = [exec EXCEPT ![x] = Idle]
  /\ run' = IF e.run = NoRun THEN run ELSE [run EXCEPT ![e.run].loose = TRUE]
  /\ batch' = [batch EXCEPT !.lost = @ \/ e.file]
  /\ UNCHANGED <<step, route, cleaner>>

\* a node run by hand is over; a router that failed leaves its run as it is then
SingleEnd(x) ==
  LET e == exec[x]
      left == e.node \in run[e.run].graph.router /\ e.got[e.node] = "failed" IN
  /\ At(x, "single") /\ e.at[e.node] = "over"
  /\ exec' = [exec EXCEPT ![x] = Idle]
  /\ run' = IF left THEN [run EXCEPT ![e.run].loose = TRUE] ELSE run
  /\ UNCHANGED <<step, route, cleaner, batch, events>>

-----------------------------------------------------------------------------
(* A deliberation is stopped by its user *)

\* The stop reaches every node of the wave: a node inside its model's stream may
\* take it for the end of the answer, any other is cut off.  One node cut off ends
\* the wait for the wave at once, and the others go on by themselves.
Stop(x) ==
  LET e == exec[x]
      asking == {n \in Nodes : e.at[n] = "ask"}
      waits == e.pc = "nodes" /\ e.write = "none" IN
  /\ e.pc \in {"load", "plan", "nodes", "final", "end"}
  /\ run[e.run].kind = "ensemble" /\ ~e.stop /\ MayHappen
  /\ \E deaf \in SUBSET asking :
       exec' = [exec EXCEPT ![x].stop = TRUE,
         ![x].pc = IF waits /\ \A n \in Nodes : e.at[n] # "start" /\ (n \in asking => n \in deaf)
                   THEN "nodes" ELSE "stopping",
         ![x].at = [n \in Nodes |-> IF e.at[n] = "off" \/ n \in deaf THEN e.at[n]
                                    ELSE "over"]]
  /\ UNCHANGED <<run, step, route, cleaner, batch>>

\* mutant: only the run is failed, its open steps are left
MarkStoppedRun(x) ==
  /\ \/ At(x, "stopping")
     \/ At(x, "nodes") /\ exec[x].stop /\ AllOver(x)
  /\ exec' = [exec EXCEPT ![x].pc = "stopped", ![x].write = "failed"]
  /\ UNCHANGED <<run, step, route, cleaner, batch, events>>

\* mark_run_failed of the ensemble service
MarkStopped(x) ==
  /\ \/ At(x, "stopping")
     \/ At(x, "nodes") /\ exec[x].stop /\ AllOver(x)
  /\ FailBlock(x, [exec[x] EXCEPT !.pc = "stopped"])
  /\ UNCHANGED <<run, route, cleaner, batch, events>>

Leave(x) ==
  /\ At(x, "stopped") /\ AllOver(x)
  /\ exec' = [exec EXCEPT ![x] = Idle]
  /\ UNCHANGED <<run, step, route, cleaner, batch, events>>

-----------------------------------------------------------------------------
(* Stale runs: get_latest_run and get_existing_partial_run *)

\* started long ago and still running, as far as its row tells
CleanRun(r) ==
  /\ cleaner = NoRun /\ MayHappen
  /\ run[r].kind \notin {"none", "ensemble"} /\ run[r].status = "running"
  /\ cleaner' = r
  /\ step' = [step EXCEPT ![r] = FailOpen(@)]
  /\ run' = [run EXCEPT ![r].loose = @ \/ Busy(r)]
  /\ UNCHANGED <<route, exec, batch>>

CleanEnd ==
  /\ cleaner # NoRun
  /\ run' = [run EXCEPT ![cleaner].status = "failed", ![cleaner].ended = TRUE]
  /\ cleaner' = NoRun
  /\ UNCHANGED <<step, route, exec, batch, events>>

-----------------------------------------------------------------------------
(* Batches: _run_single, _finalize and get_latest_summary *)

FileTask(x, r) ==
  /\ Place(x) /\ batch.due > 0
  /\ batch' = [batch EXCEPT !.due = @ - 1]
  /\ \/ /\ Create(r, "file", batch.graph)
        /\ exec' = [exec EXCEPT ![x] = [Idle EXCEPT !.pc = "setup", !.run = r,
                                                    !.file = TRUE]]
        /\ UNCHANGED events
     \/ /\ MayHappen
        /\ exec' = [exec EXCEPT ![x] = [Idle EXCEPT !.pc = "count", !.file = TRUE,
                                                    !.ok = FALSE]]
        /\ UNCHANGED <<run, step>>
  /\ UNCHANGED <<route, cleaner>>

\* mutant: only a success is counted
CountSuccess(x) ==
  /\ At(x, "count")
  /\ batch' = IF exec[x].ok THEN [batch EXCEPT !.completed = @ + 1] ELSE batch
  /\ exec' = [exec EXCEPT ![x].pc = "check"]
  /\ UNCHANGED <<run, step, route, cleaner, events>>

CountFile(x) ==
  /\ At(x, "count")
  /\ batch' = IF exec[x].ok THEN [batch EXCEPT !.completed = @ + 1]
              ELSE [batch EXCEPT !.failed = @ + 1]
  /\ exec' = [exec EXCEPT ![x].pc = "check"]
  /\ UNCHANGED <<run, step, route, cleaner, events>>

\* mutant: a third verdict
CheckPartial(x) ==
  /\ At(x, "check")
  /\ batch' = IF batch.completed + batch.failed < batch.total THEN batch
              ELSE [batch EXCEPT !.status = IF batch.failed = 0 THEN "completed"
                      ELSE IF batch.completed = 0 THEN "failed" ELSE "partial"]
  /\ exec' = [exec EXCEPT ![x] = Idle]
  /\ UNCHANGED <<run, step, route, cleaner, events>>

\* mutant: the files still to come are not waited for
CheckAtOnce(x) ==
  /\ At(x, "check")
  /\ batch' = [batch EXCEPT !.status = IF batch.failed > 0 THEN "failed" ELSE "completed"]
  /\ exec' = [exec EXCEPT ![x] = Idle]
  /\ UNCHANGED <<run, step, route, cleaner, events>>

CheckBatch(x) ==
  /\ At(x, "check")
  /\ batch' = IF batch.completed + batch.failed < batch.total THEN batch
              ELSE [batch EXCEPT !.status = IF batch.failed > 0 THEN "failed"
                                            ELSE "completed"]
  /\ exec' = [exec EXCEPT ![x] = Idle]
  /\ UNCHANGED <<run, step, route, cleaner, events>>

CleanBatch ==
  \/ /\ batch.status = "running" /\ ~batch.stale /\ MayHappen
     /\ batch' = [batch EXCEPT !.stale = TRUE]
     /\ UNCHANGED <<run, step, route, exec, cleaner>>
  \/ /\ batch.stale
     /\ batch' = [batch EXCEPT !.status = "failed", !.stale = FALSE, !.cleaned = TRUE]
     /\ UNCHANGED <<run, step, route, exec, cleaner, events>>

\* the process dies before a file's task has begun, or announcing the batch fails
LoseBatch ==
  /\ batch.due > 0 /\ batch.due = batch.total /\ MayHappen
  /\ batch' = [batch EXCEPT !.due = 0, !.lost = TRUE]
  /\ UNCHANGED <<run, step, route, exec, cleaner>>

\* a server process dies, with all the file tasks of a batch when it ran them
Kill(x) ==
  /\ exec[x] # Idle /\ MayHappen
  /\ LET lost == IF exec[x].file THEN {y \in Execs : exec[y].file} ELSE {x} IN
     /\ exec' = [y \in Execs |-> IF y \in lost THEN Idle ELSE exec[y]]
     /\ run' = [r \in Runs |->
          IF \E y \in lost : exec[y].run = r THEN [run[r] EXCEPT !.loose = TRUE] ELSE run[r]]
     /\ batch' = IF exec[x].file THEN [batch EXCEPT !.due = 0, !.lost = TRUE] ELSE batch
  /\ UNCHANGED <<step, route, cleaner>>

-----------------------------------------------------------------------------
NodeGoes(x, n) == NodeReset(x, n) \/ NodeStart(x, n) \/ NodeDone(x, n) \/ FailLate(x, n)
Goes(x) ==
  \/ Begin(x) \/ Commit(x) \/ TakeAnswer(x) \/ LoadResults(x) \/ Plan(x)
  \/ \E n \in Nodes : NodeGoes(x, n)
  \/ Decide(x) \/ Final(x) \/ SingleEnd(x)
  \/ MarkStopped(x) \/ Leave(x) \/ CountFile(x) \/ CheckBatch(x)
Requests ==
  \/ \E x \in Execs, r \in Runs :
       \/ \E g \in Drawn \cup Ensembles : NewRun(x, r, g)
       \/ \E convert \in BOOLEAN : Restart(x, r, convert)
       \/ \E n \in Nodes, q \in Routes : Answer(x, r, n, q)
       \/ \E n \in Nodes : SingleStep(x, r, n)
  \/ \E r \in Runs, g \in Drawn : NewPartial(r, g)
  \/ \E n \in Runs, g \in Drawn : StartBatch(n, g)
Troubles ==
  \/ \E x \in Execs : Break(x) \/ Stop(x) \/ Abandon(x) \/ Kill(x)
  \/ \E x \in Execs, n \in Nodes : NodeFails(x, n) \/ TimeOut(x, n)
  \/ LoseBatch \/ \E r \in Runs : CleanRun(r)

Tasks ==
  \/ \E x \in Execs : Goes(x)
  \/ \E x \in Execs, r \in Runs : FileTask(x, r)

Next == Tasks \/ CleanEnd \/ CleanBatch \/ Requests \/ Troubles

\* the servers do not stop while a task can go on: their event loops serve every
\* task, and a call of a model ends in an answer or an exception
Fairness == WF_vars(Tasks)

Spec == Init /\ [][Next]_vars /\ Fairness

-----------------------------------------------------------------------------
\* At rest a run is what its steps say: it waits for an answer, or it has ended
\* with no step left open, completed only if every step is finished.  Exempt are
\* runs touched by two at once, runs whose execution was killed or ended where
\* nothing would fail the run (before its walk was guarded, or as a stop was about
\* to be recorded), and runs whose router failed when run by hand, until a walk
\* begins over them alone (run_status.py, finalize_run).
RestingRunIsSettled ==
  \A r \in Runs : LET S == {step[r][n] : n \in Nodes} IN
    run[r].kind # "none" /\ ~Busy(r) /\ ~run[r].loose =>
      /\ run[r].status = Derive(step[r], run[r].partial) \/ run[r].status = "failed"
      /\ run[r].status = "completed" /\ ~run[r].partial => S \subseteq Finished \cup {"absent"}
      /\ \/ run[r].partial
         \/ run[r].status = "waiting"
         \/ run[r].ended /\ S \cap Open = {}

\* A batch counts each file once, is called completed only when every file's
\* execution succeeded, and failed only when one did not or it was found stale
\* (batch_executor.py _finalize).
BatchVerdictHonest ==
  LET passed == Cardinality({r \in Runs : run[r].passed}) IN
  /\ batch.completed + batch.failed + batch.due <= batch.total
  /\ batch.completed <= passed
  /\ batch.status = "completed" => passed = batch.total
  /\ batch.status = "failed" /\ ~batch.cleaned => passed < batch.total

\* A deliberation whose stop was recorded stays failed, whatever the nodes that did not
\* hear the stop still write (ensemble_service.py:492).
StoppedStaysFailed == \A r \in Runs : run[r].stopped => run[r].status = "failed"

\* A node is not started behind a router that has decided for another route; a
\* plain edge beside the routed one does not let it in.  Exempt are steps run by
\* hand and runs touched by two at once (execution_routing.py).
RouteObeyed ==
  [][\A r \in Runs : \A n \in NodesOf(r) \ run[r].graph.router :
       LET routed == {e \in run[r].graph.edge : e.to = n /\ e.route # Plain
                                                /\ step[r][e.from] = "completed"} IN
       step[r][n] # "running" /\ step'[r][n] = "running" /\ ~run[r].loose
         /\ (\A x \in Execs : exec[x].run = r => exec[x].pc # "single")
       => routed = {} \/ \E e \in routed : route[r][e.from] = e.route]_vars

\* A human decision stands: neither a second answer nor a restart changes it.
\* It is taken back only by running the router again by hand, which is never
\* refused, or by a walk that had read the run before it was decided
\* (complete_human_validation, load_existing_results, execute_single_step).
DecisionStands ==
  [][\A r \in Runs : \A n \in run[r].graph.human :
       step[r][n] = "completed" =>
         \/ step'[r][n] = "completed" /\ route'[r][n] = route[r][n]
         \/ \E x \in Execs : /\ exec[x].run = r
                              /\ \/ exec[x].pc = "single" /\ exec[x].node = n
                                 \/ /\ exec[x].pc \in {"plan", "nodes"}
                                    /\ exec[x].got[n] \notin Routes]_vars

\* A batch ends unless the process that runs it is killed or an error outside what
\* is handled leaves a file uncounted or unchecked.
BatchEnds == (batch.status = "running") ~> (batch.status # "running" \/ batch.lost)
==============================================================================
