--------------------------- MODULE WorkflowProofs ---------------------------
(***************************************************************************)
(* What the rows of a workflow run, a deliberation and a batch say is so:  *)
(* the effect of every step of an execution, the invariants, the theorems. *)
(***************************************************************************)
EXTENDS Workflows, FiniteSetTheorems, WellFoundedInduction, TLAPS

-----------------------------------------------------------------------------
(* The records of Workflows.                                                 *)

RunRow == [kind : Kind, graph : Drawn \cup Ensembles \cup {NoGraph},
           status : RunStatus, partial : BOOLEAN, ended : BOOLEAN,
           loose : BOOLEAN, stopped : BOOLEAN, passed : BOOLEAN]
ExecRow == [pc : ExecPc, run : Runs \cup {NoRun}, file : BOOLEAN,
            ok : BOOLEAN, stop : BOOLEAN, wave : Nat,
            node : Nodes \cup {NoNode}, pick : Routes \cup {Plain},
            write : RunStatus \cup {"none"}, got : [Nodes -> Result],
            at : [Nodes -> NodePc]]
BatchRow == [status : {"none", "running", "completed", "failed"},
             graph : Drawn \cup {NoGraph}, total : Nat, due : Nat, completed : Nat,
             failed : Nat, stale : BOOLEAN, cleaned : BOOLEAN, lost : BOOLEAN]
Rows == [Nodes -> StepStatus]

\* The type of the state, by its records.
LEMMA Typed ==
  TypeOK <=> /\ run \in [Runs -> RunRow]
             /\ step \in [Runs -> Rows]
             /\ route \in [Runs -> [Nodes -> Routes \cup {Plain}]]
             /\ exec \in [Execs -> ExecRow]
             /\ cleaner \in Runs \cup {NoRun}
             /\ batch \in BatchRow
             /\ events \in 0 .. MaxEvents
  BY DEF TypeOK, RunRow, ExecRow, BatchRow, Rows

\* A derived status is a status.
LEMMA Derived ==
  ASSUME NEW row, NEW partial
  PROVE  Derive(row, partial) \in RunStatus
  BY DEF Derive, RunStatus

\* mark_failed leaves a row of steps.
LEMMA FailedOpen ==
  ASSUME NEW row \in Rows
  PROVE  FailOpen(row) \in Rows
  BY DEF FailOpen, Rows, StepStatus

\* A free place is an execution record.
LEMMA IdleTyped == Idle \in ExecRow
  BY DEF Idle, ExecRow, ExecPc, NodePc, Result, NoRun, NoNode, Plain

-----------------------------------------------------------------------------
(* The effect of the helpers.                                                *)

Others(x) == \A y \in Execs \ {x} : exec'[y] = exec[y]

\* A block writes the steps of its run and has its status to write.
LEMMA BlockEffect ==
  ASSUME TypeOK, NEW x \in Execs, exec[x].run \in Runs, NEW row \in Rows, NEW e \in ExecRow,
         Block(x, row, e)
  PROVE  /\ exec' \in [Execs -> ExecRow] /\ step' \in [Runs -> Rows]
         /\ Others(x) /\ \A q \in Runs \ {exec[x].run} : step'[q] = step[q]
         /\ step'[exec[x].run] = row
         /\ exec'[x].write = Derive(row, run[e.run].partial)
         /\ exec'[x].pc = e.pc /\ exec'[x].run = e.run /\ exec'[x].file = e.file
         /\ exec'[x].ok = e.ok /\ exec'[x].stop = e.stop /\ exec'[x].wave = e.wave
         /\ exec'[x].node = e.node /\ exec'[x].pick = e.pick
         /\ exec'[x].got = e.got /\ exec'[x].at = e.at
  <1> DEFINE w == Derive(row, run[e.run].partial)
  <1> USE Typed
  <1>1. w \in RunStatus
    BY Derived
  <1>2. exec' = [exec EXCEPT ![x] = [e EXCEPT !.write = w]]
    BY DEF Block
  <1> HIDE DEF w
  <1>3. [e EXCEPT !.write = w] \in ExecRow
    BY <1>1 DEF ExecRow
  <1>4. exec'[x] = [e EXCEPT !.write = w] /\ Others(x) /\ exec' \in [Execs -> ExecRow]
    BY <1>2, <1>3 DEF Others
  <1>5. step' = [step EXCEPT ![exec[x].run] = row]
    BY DEF Block
  <1>6. /\ step' \in [Runs -> Rows] /\ step'[exec[x].run] = row
        /\ \A q \in Runs \ {exec[x].run} : step'[q] = step[q]
    BY <1>5
  <1> QED  BY <1>4, <1>6 DEF ExecRow, w

\* So does mark_failed, of every open step.
LEMMA FailBlockEffect ==
  ASSUME TypeOK, NEW x \in Execs, exec[x].run \in Runs, NEW e \in ExecRow,
         e.run = exec[x].run, FailBlock(x, e)
  PROVE  /\ exec' \in [Execs -> ExecRow] /\ step' \in [Runs -> Rows]
         /\ Others(x) /\ \A q \in Runs \ {exec[x].run} : step'[q] = step[q]
         /\ step'[exec[x].run] = FailOpen(Row(x))
         /\ exec'[x].write = "failed"
         /\ exec'[x].pc = e.pc /\ exec'[x].run = e.run /\ exec'[x].file = e.file
         /\ exec'[x].ok = e.ok /\ exec'[x].stop = e.stop /\ exec'[x].wave = e.wave
         /\ exec'[x].node = e.node /\ exec'[x].pick = e.pick
         /\ exec'[x].got = e.got /\ exec'[x].at = e.at
  <1> USE Typed
  <1>1. exec' = [exec EXCEPT ![x] = [e EXCEPT !.write = "failed"]]
    BY DEF FailBlock
  <1>2. [e EXCEPT !.write = "failed"] \in ExecRow
    BY DEF ExecRow, RunStatus
  <1>3. /\ exec'[x] = [e EXCEPT !.write = "failed"] /\ Others(x)
        /\ exec' \in [Execs -> ExecRow]
    BY <1>1, <1>2 DEF Others
  <1>4. step' = [step EXCEPT ![exec[x].run] = FailOpen(@)]
    BY DEF FailBlock
  <1>5. FailOpen(Row(x)) \in Rows
    BY FailedOpen DEF Row
  <1>6. /\ step' \in [Runs -> Rows] /\ step'[exec[x].run] = FailOpen(Row(x))
        /\ \A q \in Runs \ {exec[x].run} : step'[q] = step[q]
    BY <1>4, <1>5 DEF Row
  <1> QED  BY <1>3, <1>6 DEF ExecRow

-----------------------------------------------------------------------------
(* The base of the invariants: what executions and rows are.                 *)

OnRun(x) == exec[x].pc \notin {"idle", "count", "check"}
GraphOf(x) == run[exec[x].run].graph
WaveOf(x, n) == Wave(GraphOf(x))[n]
Walking == {"setup", "load", "plan", "nodes", "final", "end"}
Stopping == {"stopping", "stopped"}

\* An execution away from a run is that of a file to count, one on a run has a
\* run of its kind.
ExecOK(x) ==
  LET e == exec[x] IN
  /\ e.pc = "idle" => e = Idle
  /\ e.pc \in {"count", "check"} => e.run = NoRun /\ e.write = "none" /\ e.file
  /\ OnRun(x) => e.run \in Runs /\ run[e.run].kind # "none"
  /\ e.pc = "answer" => e.node \in GraphOf(x).human /\ e.pick \in Routes /\ e.write = "none"
  /\ e.pc = "single" => e.node \in GraphOf(x).nodes
  /\ e.pc \in {"answer", "single"} => run[e.run].kind # "ensemble"
  /\ e.pc \in Stopping => run[e.run].kind = "ensemble"
  /\ OnRun(x) /\ e.file => run[e.run].kind = "file" /\ e.pc \in Walking
  /\ e.pc = "end" => e.write # "none"
  /\ OnRun(x) /\ e.stop => run[e.run].kind = "ensemble"

\* Where its nodes can be, and that an open node has no route yet.
AtOK(x) ==
  LET e == exec[x] IN
  \A n \in Nodes :
    /\ e.at[n] # "off" => OnRun(x) /\ n \in GraphOf(x).nodes
    /\ e.pc \in {"setup", "answer", "load", "plan"} => e.at[n] = "off"
    /\ e.pc \in {"final", "end"} => e.at[n] \in {"off", "over"}
    /\ e.pc = "nodes" => e.at[n] # "reset" /\ (e.at[n] # "off" => WaveOf(x, n) = e.wave)
    /\ e.pc \in Stopping => e.at[n] \in {"off", "ask", "late", "over"}
    /\ e.pc = "single" => e.at[n] # "late" /\ (n # e.node => e.at[n] = "off")
    /\ e.at[n] = "begun" => e.write # "none"
    /\ e.at[n] \notin {"off", "over"} => e.got[n] \notin Routes

\* Only the nodes of a run's graph have rows, only those of a person wait, and a
\* router that has completed has chosen.
RowsOK(r) ==
  /\ run[r].kind = "none" => run[r] = NoRow
  /\ run[r].kind # "none" => run[r].graph \in Drawn \cup Ensembles
  /\ run[r].kind = "ensemble" => run[r].graph \in Ensembles
  /\ \A n \in Nodes :
       /\ step[r][n] # "absent" => n \in NodesOf(r)
       /\ step[r][n] = "waiting" => n \in run[r].graph.human
       /\ step[r][n] = "completed" /\ n \in run[r].graph.router => route[r][n] \in Routes

Base ==
  /\ TypeOK
  /\ \A x \in Execs : ExecOK(x) /\ AtOK(x)
  /\ \A r \in Runs : RowsOK(r)
  /\ cleaner # NoRun => run[cleaner].kind \notin {"none", "ensemble"}
  /\ batch.due > 0 => batch.graph \in Drawn

-----------------------------------------------------------------------------
(* The effect of every step of an execution.                                 *)

\* A node's step moves that node of that execution, and its row.
NodeStep(x, n) ==
  LET e == exec[x]
      r == exec[x].run IN
  /\ exec' \in [Execs -> ExecRow] /\ step' \in [Runs -> Rows]
  /\ route' \in [Runs -> [Nodes -> Routes \cup {Plain}]]
  /\ Others(x) /\ UNCHANGED <<run, cleaner, batch>>
  /\ r \in Runs /\ OnRun(x) /\ e.write = "none"
  /\ exec'[x].pc = e.pc /\ exec'[x].run = r /\ exec'[x].file = e.file
  /\ exec'[x].ok = e.ok /\ exec'[x].stop = e.stop /\ exec'[x].wave = e.wave
  /\ exec'[x].node = e.node /\ exec'[x].pick = e.pick
  /\ \A m \in Nodes \ {n} : /\ exec'[x].at[m] = e.at[m] /\ exec'[x].got[m] = e.got[m]
                            /\ step'[r][m] = step[r][m] /\ route'[r][m] = route[r][m]
  /\ \A q \in Runs \ {r} : step'[q] = step[q] /\ route'[q] = route[q]
  /\ \/ exec'[x].write = Derive(step'[r], run[r].partial)
     \/ exec'[x].write = "none" /\ UNCHANGED step

NodeMove(x, n) ==
  LET e == exec[x]
      f == exec'[x]
      r == exec[x].run
      g == run[exec[x].run].graph IN
  \/ /\ e.at[n] = "reset" /\ f.at[n] = "start" /\ f.got[n] = e.got[n] /\ f.write # "none"
     /\ step'[r][n] = "pending" /\ UNCHANGED route
  \/ /\ e.at[n] = "start" /\ f.at[n] = "begun" /\ f.got[n] = e.got[n] /\ f.write # "none"
     /\ step'[r][n] = "running" /\ UNCHANGED route
  \/ /\ e.at[n] = "ask" /\ f.at[n] = "over" /\ n \in g.human /\ f.got[n] = "waiting"
     /\ step'[r][n] = "waiting" /\ f.write # "none" /\ UNCHANGED route
  \/ /\ e.at[n] = "ask" /\ f.at[n] = "over" /\ n \notin g.human
     /\ step'[r][n] = "completed" /\ f.write # "none"
     /\ \/ n \in g.router /\ f.got[n] \in Routes /\ route'[r][n] = f.got[n]
        \/ n \notin g.router /\ f.got[n] = "done" /\ UNCHANGED route
  \/ /\ e.at[n] \in {"start", "ask"} /\ f.at[n] = "over" /\ f.got[n] = "failed"
     /\ \/ step'[r][n] = "failed" /\ f.write # "none"
        \/ n \in g.router /\ UNCHANGED step
     /\ UNCHANGED route
  \/ /\ e.at[n] = "late" /\ f.at[n] = "over" /\ f.got[n] = e.got[n]
     /\ step'[r][n] = "failed" /\ f.write # "none" /\ e.pc = "nodes" /\ ~e.stop
     /\ UNCHANGED route

\* e is f but for node n.
Like(e, f, n) ==
  /\ e.pc = f.pc /\ e.run = f.run /\ e.file = f.file /\ e.ok = f.ok /\ e.stop = f.stop
  /\ e.wave = f.wave /\ e.node = f.node /\ e.pick = f.pick
  /\ \A m \in Nodes \ {n} : e.at[m] = f.at[m] /\ e.got[m] = f.got[m]

\* A node moves and its execution stays as it was,
LEMMA AtLike ==
  ASSUME NEW f \in ExecRow, NEW n \in Nodes, NEW a \in NodePc,
         NEW e, e = [f EXCEPT !.at[n] = a]
  PROVE  e \in ExecRow /\ Like(e, f, n) /\ e.at[n] = a /\ e.got[n] = f.got[n]
  BY DEF ExecRow, Like

Overs(e, f, n, b) == e = [f EXCEPT !.at[n] = "over", !.got[n] = b]

\* and so when it is over with a result.
LEMMA OverLike ==
  ASSUME NEW f \in ExecRow, NEW n \in Nodes, NEW b \in Result, NEW e, Overs(e, f, n, b)
  PROVE  e \in ExecRow /\ Like(e, f, n) /\ e.at[n] = "over" /\ e.got[n] = b
  <1> USE DEF ExecRow, NodePc
  <1> DEFINE d == [f EXCEPT !.at[n] = "over"]
  <1>1. /\ d \in ExecRow /\ d.pc = f.pc /\ d.run = f.run /\ d.file = f.file /\ d.ok = f.ok
        /\ d.stop = f.stop /\ d.wave = f.wave /\ d.node = f.node /\ d.pick = f.pick
        /\ d.at = [f.at EXCEPT ![n] = "over"] /\ d.got = f.got
    OBVIOUS
  <1>2. e = [d EXCEPT !.got[n] = b]
    BY SMTT(30) DEF Overs
  <1> HIDE DEF d
  <1> QED  BY <1>1, <1>2 DEF Like

\* No route is written but that of node n.
RouteOf(x, n) ==
  /\ route' \in [Runs -> [Nodes -> Routes \cup {Plain}]]
  /\ \A q \in Runs : \A m \in Nodes :
       q # exec[x].run \/ m # n => route'[q][m] = route[q][m]

\* The block of a node: its row is written, and the status to write is derived.
LEMMA NodeBlock ==
  ASSUME TypeOK, NEW x \in Execs, NEW n \in Nodes, NEW w \in StepStatus, NEW e \in ExecRow,
         exec[x].run \in Runs, OnRun(x), exec[x].write = "none", Like(e, exec[x], n),
         Block(x, [Row(x) EXCEPT ![n] = w], e), UNCHANGED <<run, cleaner, batch>>,
         RouteOf(x, n)
  PROVE  /\ NodeStep(x, n)
         /\ exec'[x].at[n] = e.at[n] /\ exec'[x].got[n] = e.got[n]
         /\ exec'[x].write # "none" /\ step'[exec[x].run][n] = w
  <1> USE Typed
  <1> DEFINE row == [Row(x) EXCEPT ![n] = w]
  <1>1. row \in Rows /\ row[n] = w /\ \A m \in Nodes \ {n} : row[m] = step[exec[x].run][m]
    BY DEF Row, Rows
  <1>2. Block(x, row, e)
    OBVIOUS
  <1> HIDE DEF row
  <1>3. /\ exec' \in [Execs -> ExecRow] /\ step' \in [Runs -> Rows]
        /\ Others(x) /\ \A q \in Runs \ {exec[x].run} : step'[q] = step[q]
        /\ step'[exec[x].run] = row
        /\ exec'[x].write = Derive(row, run[e.run].partial)
        /\ exec'[x].pc = e.pc /\ exec'[x].run = e.run /\ exec'[x].file = e.file
        /\ exec'[x].ok = e.ok /\ exec'[x].stop = e.stop /\ exec'[x].wave = e.wave
        /\ exec'[x].node = e.node /\ exec'[x].pick = e.pick
        /\ exec'[x].got = e.got /\ exec'[x].at = e.at
    BY <1>1, <1>2, BlockEffect
  <1>4. exec'[x].write # "none"
    <2>1. Derive(row, run[e.run].partial) \in RunStatus
      BY Derived
    <2>2. exec'[x].write = Derive(row, run[e.run].partial)
      BY <1>3
    <2> QED  BY <2>1, <2>2 DEF RunStatus
  <1>5. \A q \in Runs \ {exec[x].run} : route'[q] = route[q]
    <2> SUFFICES ASSUME NEW q \in Runs \ {exec[x].run}
                 PROVE  route'[q] = route[q]
      OBVIOUS
    <2> USE DEF RouteOf
    <2>1. route'[q] \in [Nodes -> Routes \cup {Plain}] /\ route[q] \in [Nodes -> Routes \cup {Plain}]
      OBVIOUS
    <2> QED  BY <2>1
  <1>6. /\ exec'[x].pc = exec[x].pc /\ exec'[x].run = exec[x].run /\ exec'[x].file = exec[x].file
        /\ exec'[x].ok = exec[x].ok /\ exec'[x].stop = exec[x].stop
        /\ exec'[x].wave = exec[x].wave /\ exec'[x].node = exec[x].node
        /\ exec'[x].pick = exec[x].pick
        /\ \A m \in Nodes \ {n} : /\ exec'[x].at[m] = exec[x].at[m]
                                  /\ exec'[x].got[m] = exec[x].got[m]
                                  /\ step'[exec[x].run][m] = step[exec[x].run][m]
                                  /\ route'[exec[x].run][m] = route[exec[x].run][m]
    BY <1>1, <1>3 DEF Like, RouteOf
  <1>7. exec'[x].write = Derive(step'[exec[x].run], run[exec[x].run].partial)
    BY <1>3 DEF Like
  <1> QED  BY <1>1, <1>3, <1>4, <1>5, <1>6, <1>7 DEF NodeStep, RouteOf

\* A node goes on, or fails.
LEMMA NodeEffect ==
  ASSUME Base, NEW x \in Execs, NEW n \in Nodes, NodeGoes(x, n) \/ NodeFails(x, n)
  PROVE  NodeStep(x, n) /\ NodeMove(x, n)
  <1> USE Typed DEF Base
  <1>1. OnRun(x) /\ exec[x].run \in Runs /\ exec[x].write = "none"
    BY DEF NodeGoes, NodeReset, NodeStart, NodeDone, NodeFails, FailLate, AtNode, WaveOver, At,
           OnRun, ExecOK
  <1>2. exec[x] \in ExecRow
    OBVIOUS
  <1>3. UNCHANGED route => RouteOf(x, n)
    BY DEF RouteOf
  <1>4. CASE NodeReset(x, n)
    <2> DEFINE e == [exec[x] EXCEPT !.at[n] = "start"]
    <2>1. e \in ExecRow /\ Like(e, exec[x], n) /\ e.at[n] = "start" /\ e.got[n] = exec[x].got[n]
      BY <1>2, AtLike DEF NodePc
    <2>2. Block(x, [Row(x) EXCEPT ![n] = "pending"], e) /\ exec[x].at[n] = "reset"
          /\ UNCHANGED <<run, route, cleaner, batch>>
      BY <1>4 DEF NodeReset, AtNode
    <2> HIDE DEF e
    <2>3. "pending" \in StepStatus
      BY DEF StepStatus, Open
    <2> QED  BY <1>1, <1>3, <2>1, <2>2, <2>3, NodeBlock DEF NodeMove
  <1>5. CASE NodeStart(x, n)
    <2> DEFINE e == [exec[x] EXCEPT !.at[n] = "begun"]
    <2>1. e \in ExecRow /\ Like(e, exec[x], n) /\ e.at[n] = "begun" /\ e.got[n] = exec[x].got[n]
      BY <1>2, AtLike DEF NodePc
    <2>2. Block(x, [Row(x) EXCEPT ![n] = "running"], e) /\ exec[x].at[n] = "start"
          /\ UNCHANGED <<run, route, cleaner, batch>>
      BY <1>5 DEF NodeStart, AtNode
    <2> HIDE DEF e
    <2>3. "running" \in StepStatus
      BY DEF StepStatus, Open
    <2> QED  BY <1>1, <1>3, <2>1, <2>2, <2>3, NodeBlock DEF NodeMove
  <1>6. CASE NodeDone(x, n) /\ n \in run[exec[x].run].graph.human
    <2> DEFINE e == OverWith(x, n, "waiting")
    <2>1. e \in ExecRow /\ Like(e, exec[x], n) /\ e.at[n] = "over" /\ e.got[n] = "waiting"
      <3>1. "waiting" \in Result
        BY DEF Result
      <3>2. Overs(e, exec[x], n, "waiting")
        BY DEF Overs, OverWith
      <3> HIDE DEF e
      <3> QED  BY <1>2, <3>1, <3>2, OverLike
    <2>2. Block(x, [Row(x) EXCEPT ![n] = "waiting"], e) /\ exec[x].at[n] = "ask"
          /\ UNCHANGED <<run, route, cleaner, batch>>
      BY <1>6 DEF NodeDone, AtNode
    <2> HIDE DEF e
    <2>3. "waiting" \in StepStatus
      BY DEF StepStatus, Open
    <2> QED  BY <1>1, <1>3, <1>6, <2>1, <2>2, <2>3, NodeBlock DEF NodeMove
  <1>7. CASE NodeDone(x, n) /\ n \notin run[exec[x].run].graph.human
    <2> DEFINE r == exec[x].run
               g == run[exec[x].run].graph
    <2>1. PICK result \in IF n \in g.router THEN Routes ELSE {"done"} :
             /\ Block(x, [Row(x) EXCEPT ![n] = "completed"], OverWith(x, n, result))
             /\ route' = IF n \in g.router THEN [route EXCEPT ![r][n] = result] ELSE route
      BY <1>7 DEF NodeDone
    <2> DEFINE e == OverWith(x, n, result)
    <2>2. e \in ExecRow /\ Like(e, exec[x], n) /\ e.at[n] = "over" /\ e.got[n] = result
      <3>1. result \in Result
        BY <2>1 DEF Result
      <3>2. Overs(e, exec[x], n, result)
        BY DEF Overs, OverWith
      <3> HIDE DEF e
      <3> QED  BY <1>2, <3>1, <3>2, OverLike
    <2>3. exec[x].at[n] = "ask" /\ UNCHANGED <<run, cleaner, batch>>
      BY <1>7 DEF NodeDone, AtNode
    <2>4. RouteOf(x, n)
      BY <1>1, <2>1 DEF Routes, RouteOf
    <2>9. n \in g.router => route'[r][n] = result
      BY <1>1, <2>1
    <2> HIDE DEF e
    <2>5. "completed" \in StepStatus
      BY DEF StepStatus, Finished
    <2>6. Block(x, [Row(x) EXCEPT ![n] = "completed"], e)
      BY <2>1 DEF e
    <2>7. /\ NodeStep(x, n) /\ exec'[x].at[n] = "over" /\ exec'[x].got[n] = result
          /\ exec'[x].write # "none" /\ step'[r][n] = "completed"
      BY SMTT(30), <1>1, <2>2, <2>3, <2>4, <2>5, <2>6, NodeBlock
    <2>8. /\ n \in g.router => result \in Routes
          /\ n \notin g.router => result = "done" /\ UNCHANGED route
      BY <2>1
    <2> QED  BY <1>7, <2>3, <2>7, <2>8, <2>9 DEF NodeMove
  <1>8. CASE NodeFails(x, n)
    <2> DEFINE e == OverWith(x, n, "failed")
    <2>1. e \in ExecRow /\ Like(e, exec[x], n) /\ e.at[n] = "over" /\ e.got[n] = "failed"
      <3>1. "failed" \in Result
        BY DEF Result
      <3>2. Overs(e, exec[x], n, "failed")
        BY DEF Overs, OverWith
      <3> HIDE DEF e
      <3> QED  BY <1>2, <3>1, <3>2, OverLike
    <2>2. exec[x].at[n] \in {"start", "ask"} /\ UNCHANGED <<run, route, cleaner, batch>>
      BY <1>8 DEF NodeFails, AtNode
    <2>3. CASE Block(x, [Row(x) EXCEPT ![n] = "failed"], e)
      <3> HIDE DEF e
      <3>1. "failed" \in StepStatus
        BY DEF StepStatus
      <3> QED  BY <1>1, <1>3, <2>1, <2>2, <2>3, <3>1, NodeBlock DEF NodeMove
    <2>4. CASE /\ n \in run[exec[x].run].graph.router
               /\ exec' = [exec EXCEPT ![x] = e] /\ UNCHANGED step
      <3> HIDE DEF e
      <3>1. exec' \in [Execs -> ExecRow] /\ exec'[x] = e /\ Others(x)
        BY <2>1, <2>4 DEF Others
      <3>2. e.write = "none"
        BY <1>1, <1>2 DEF e, OverWith, ExecRow
      <3> QED  BY <1>1, <2>1, <2>2, <2>4, <3>1, <3>2 DEF NodeMove, NodeStep, Like
    <2> QED  BY <1>8, <2>3, <2>4 DEF NodeFails
  <1>9. CASE FailLate(x, n)
    <2> DEFINE e == [exec[x] EXCEPT !.at[n] = "over"]
    <2>1. e \in ExecRow /\ Like(e, exec[x], n) /\ e.at[n] = "over" /\ e.got[n] = exec[x].got[n]
      BY <1>2, AtLike DEF NodePc
    <2>2. /\ Block(x, [Row(x) EXCEPT ![n] = "failed"], e) /\ exec[x].at[n] = "late"
          /\ exec[x].pc = "nodes" /\ ~exec[x].stop /\ UNCHANGED <<run, route, cleaner, batch>>
      BY <1>9 DEF FailLate, WaveOver, At
    <2> HIDE DEF e
    <2>3. "failed" \in StepStatus
      BY DEF StepStatus
    <2> QED  BY <1>1, <1>3, <2>1, <2>2, <2>3, NodeBlock DEF NodeMove
  <1> QED  BY SMTT(30), <1>4, <1>5, <1>6, <1>7, <1>8, <1>9 DEF NodeGoes

\* A step of x that leaves the rows of the runs alone.
Steps(x) ==
  /\ exec' \in [Execs -> ExecRow] /\ step' \in [Runs -> Rows]
  /\ route' \in [Runs -> [Nodes -> Routes \cup {Plain}]]
  /\ Others(x) /\ UNCHANGED <<run, cleaner, batch>>
  /\ exec[x].run \in Runs /\ OnRun(x)
  /\ \A q \in Runs \ {exec[x].run} : step'[q] = step[q] /\ route'[q] = route[q]

\* x is at its run, its nodes and its wave as before.
Stays(x) ==
  /\ exec'[x].run = exec[x].run /\ exec'[x].file = exec[x].file
  /\ exec'[x].node = exec[x].node /\ exec'[x].pick = exec[x].pick

CommitMove(x) ==
  LET e == exec[x]
      f == exec'[x]
      r == exec[x].run IN
  /\ exec' \in [Execs -> ExecRow] /\ run' \in [Runs -> RunRow]
  /\ Others(x) /\ UNCHANGED <<step, route, cleaner, batch>>
  /\ r \in Runs /\ OnRun(x) /\ e.write # "none"
  /\ \A q \in Runs \ {r} : run'[q] = run[q]
  /\ run'[r].kind = run[r].kind /\ run'[r].graph = run[r].graph
  /\ run'[r].partial = run[r].partial /\ run'[r].loose = run[r].loose
  /\ run'[r].status = e.write
  /\ run'[r].ended <=> run[r].ended \/ e.pc \in {"end", "stopped"}
  /\ run'[r].stopped <=> run[r].stopped \/ e.pc = "stopped"
  /\ run'[r].passed <=> run[r].passed \/ (e.pc = "end" /\ e.file /\ e.ok)
  /\ f.write = "none"
  /\ \/ /\ e.pc # "end" /\ f.pc = e.pc /\ Stays(x) /\ f.ok = e.ok /\ f.stop = e.stop
        /\ f.wave = e.wave /\ f.got = e.got
        /\ \A n \in Nodes : f.at[n] = IF e.at[n] = "begun" THEN "ask" ELSE e.at[n]
     \/ /\ e.pc = "end" /\ e.file /\ f.pc = "count" /\ f.file /\ f.ok = e.ok /\ f.run = NoRun
        /\ \A n \in Nodes : f.at[n] = "off"
     \/ e.pc = "end" /\ ~e.file /\ f = Idle

AnswerMove(x) ==
  LET e == exec[x]
      f == exec'[x]
      r == exec[x].run IN
  /\ Steps(x) /\ e.pc = "answer" /\ e.write = "none"
  /\ \/ /\ step[r][e.node] = "waiting" /\ step'[r] = [step[r] EXCEPT ![e.node] = "completed"]
        /\ route'[r] = [route[r] EXCEPT ![e.node] = e.pick]
        /\ f.pc = "load" /\ f.run = r /\ ~f.file /\ ~f.stop /\ f.wave = 0
        /\ f.write = Derive(step'[r], run[r].partial)
        /\ \A n \in Nodes : f.at[n] = "off" /\ f.got[n] = "none"
     \/ step[r][e.node] # "waiting" /\ f = Idle /\ UNCHANGED <<step, route>>

LoadMove(x) ==
  LET e == exec[x]
      f == exec'[x]
      r == exec[x].run IN
  /\ Steps(x) /\ UNCHANGED <<step, route>> /\ e.pc = "load" /\ e.write = "none"
  /\ f.pc = "plan" /\ f.wave = 1 /\ Stays(x) /\ f.ok = e.ok /\ f.stop = e.stop
  /\ f.write = "none" /\ f.at = e.at
  /\ \A n \in Nodes :
       f.got[n] = IF step[r][n] = "skipped" THEN "skipped"
                  ELSE IF step[r][n] # "completed" THEN "none"
                  ELSE IF n \in run[r].graph.router THEN route[r][n] ELSE "done"

\* The commit of an execution.
LEMMA CommitEffect ==
  ASSUME Base, NEW x \in Execs, Commit(x)
  PROVE  CommitMove(x)
  <1> USE Typed DEF Base
  <1> DEFINE e == exec[x]
             r == exec[x].run
             row == [run[r] EXCEPT !.status = e.write,
                        !.ended = @ \/ e.pc \in {"end", "stopped"},
                        !.stopped = @ \/ e.pc = "stopped",
                        !.passed = @ \/ (e.pc = "end" /\ e.file /\ e.ok)]
             on == [e EXCEPT !.write = "none",
                        !.at = [n \in Nodes |-> IF @[n] = "begun" THEN "ask" ELSE @[n]]]
             counted == [Idle EXCEPT !.pc = "count", !.file = TRUE, !.ok = e.ok]
             f == IF e.pc # "end" THEN on ELSE IF e.file THEN counted ELSE Idle
  <1>1. e \in ExecRow /\ e.write # "none" /\ e.pc # "idle" /\ r \in Runs /\ OnRun(x)
    BY SMTT(30) DEF Commit, ExecOK, OnRun, Idle
  <1>2. run' = [run EXCEPT ![r] = row]
    BY ZenonT(40), <1>1 DEF Commit
  <1>3. exec' = [exec EXCEPT ![x] = f] /\ UNCHANGED <<step, route, cleaner, batch>>
    BY DEF Commit
  <1>4. run[r] \in RunRow
    BY <1>1
  <1>5. /\ row \in RunRow /\ row.kind = run[r].kind /\ row.graph = run[r].graph
        /\ row.partial = run[r].partial /\ row.loose = run[r].loose
        /\ row.status = e.write
        /\ row.ended <=> run[r].ended \/ e.pc \in {"end", "stopped"}
        /\ row.stopped <=> run[r].stopped \/ e.pc = "stopped"
        /\ row.passed <=> run[r].passed \/ (e.pc = "end" /\ e.file /\ e.ok)
    <2> HIDE Typed DEF Base
    <2>1. e.write \in RunStatus /\ e.file \in BOOLEAN /\ e.ok \in BOOLEAN
      BY <1>1 DEF ExecRow
    <2> DEFINE ended == run[r].ended \/ e.pc \in {"end", "stopped"}
               stopped == run[r].stopped \/ e.pc = "stopped"
               passed == run[r].passed \/ (e.pc = "end" /\ e.file /\ e.ok)
    <2>2. row \in RunRow
      <3>1. row = [run[r] EXCEPT !.status = e.write, !.ended = ended,
                                 !.stopped = stopped, !.passed = passed]
        OBVIOUS
      <3>2. ended \in BOOLEAN /\ stopped \in BOOLEAN /\ passed \in BOOLEAN
        BY <1>4, <2>1 DEF RunRow
      <3> HIDE DEF row, ended, stopped, passed
      <3> QED  BY ZenonT(60), <1>4, <2>1, <3>1, <3>2 DEF RunRow
    <2>3. /\ row.kind = run[r].kind /\ row.graph = run[r].graph
          /\ row.partial = run[r].partial /\ row.loose = run[r].loose
          /\ row.status = e.write
      BY <1>4 DEF RunRow
    <2>4. /\ row.ended <=> run[r].ended \/ e.pc \in {"end", "stopped"}
          /\ row.stopped <=> run[r].stopped \/ e.pc = "stopped"
          /\ row.passed <=> run[r].passed \/ (e.pc = "end" /\ e.file /\ e.ok)
      BY <1>4, <2>1 DEF RunRow
    <2> QED  BY <2>2, <2>3, <2>4
  <1>6. /\ on \in ExecRow /\ on.write = "none" /\ on.pc = e.pc /\ on.run = e.run
        /\ on.file = e.file /\ on.ok = e.ok /\ on.stop = e.stop /\ on.wave = e.wave
        /\ on.node = e.node /\ on.pick = e.pick /\ on.got = e.got
        /\ \A n \in Nodes : on.at[n] = IF e.at[n] = "begun" THEN "ask" ELSE e.at[n]
    BY <1>1 DEF ExecRow, NodePc
  <1>7. /\ counted \in ExecRow /\ counted.write = "none" /\ counted.pc = "count"
        /\ counted.file /\ counted.ok = e.ok /\ counted.run = NoRun
        /\ \A n \in Nodes : counted.at[n] = "off"
    BY ZenonT(60), <1>1, IdleTyped DEF ExecRow, Idle, ExecPc
  <1>8. Idle \in ExecRow /\ Idle.write = "none"
    BY IdleTyped DEF Idle
  <1> HIDE DEF row, on, counted
  <1>9. exec'[x] = f /\ Others(x) /\ exec' \in [Execs -> ExecRow]
    BY <1>3, <1>6, <1>7, <1>8 DEF Others
  <1>10. /\ run'[r] = row /\ run' \in [Runs -> RunRow]
         /\ \A q \in Runs \ {r} : run'[q] = run[q]
    BY <1>1, <1>2, <1>5
  <1>11. CASE e.pc # "end"
    BY <1>1, <1>3, <1>5, <1>6, <1>9, <1>10, <1>11 DEF CommitMove, Stays
  <1>12. CASE e.pc = "end" /\ e.file
    BY <1>1, <1>3, <1>5, <1>7, <1>9, <1>10, <1>12 DEF CommitMove
  <1>13. CASE e.pc = "end" /\ ~e.file
    BY <1>1, <1>3, <1>5, <1>8, <1>9, <1>10, <1>13 DEF CommitMove
  <1>14. e.file \in BOOLEAN
    BY <1>1 DEF ExecRow
  <1> QED  BY <1>11, <1>12, <1>13, <1>14

\* The answer of a user.
LEMMA AnswerEffect ==
  ASSUME Base, NEW x \in Execs, TakeAnswer(x)
  PROVE  AnswerMove(x)
  <1> USE Typed DEF Base
  <1> DEFINE e == exec[x]
             r == exec[x].run
             on == [Idle EXCEPT !.pc = "load", !.run = e.run]
             row == [Row(x) EXCEPT ![e.node] = "completed"]
  <1>1. /\ e \in ExecRow /\ e.pc = "answer" /\ e.write = "none" /\ r \in Runs /\ OnRun(x)
        /\ e.node \in GraphOf(x).human /\ e.pick \in Routes
        /\ UNCHANGED <<run, cleaner, batch>>
    BY DEF TakeAnswer, At, ExecOK, OnRun
  <1>2. /\ on \in ExecRow /\ on.pc = "load" /\ on.run = r /\ ~on.file /\ ~on.stop /\ on.wave = 0
        /\ \A n \in Nodes : on.at[n] = "off" /\ on.got[n] = "none"
    BY ZenonT(40), <1>1, IdleTyped DEF ExecRow, Idle, ExecPc
  <1>3. CASE step[r][e.node] = "waiting"
    <2>1. /\ Block(x, row, on)
          /\ route' = [route EXCEPT ![r][e.node] = e.pick]
      BY <1>1, <1>3 DEF TakeAnswer
    <2>2. row \in Rows
      BY <1>1 DEF Row, Rows, StepStatus, Finished
    <2>3. /\ route' \in [Runs -> [Nodes -> Routes \cup {Plain}]]
          /\ route'[r] = [route[r] EXCEPT ![e.node] = e.pick]
          /\ \A q \in Runs \ {r} : route'[q] = route[q]
      BY <1>1, <2>1
    <2>4. row = [step[r] EXCEPT ![e.node] = "completed"]
      BY DEF Row
    <2> HIDE DEF on, row
    <2>5. /\ exec' \in [Execs -> ExecRow] /\ step' \in [Runs -> Rows]
          /\ Others(x) /\ \A q \in Runs \ {r} : step'[q] = step[q]
          /\ step'[r] = row
          /\ exec'[x].write = Derive(row, run[on.run].partial)
          /\ exec'[x].pc = on.pc /\ exec'[x].run = on.run /\ exec'[x].file = on.file
          /\ exec'[x].stop = on.stop /\ exec'[x].wave = on.wave
          /\ exec'[x].got = on.got /\ exec'[x].at = on.at
      BY <1>1, <1>2, <2>1, <2>2, BlockEffect
    <2> QED  BY <1>1, <1>2, <1>3, <2>3, <2>4, <2>5 DEF AnswerMove, Steps
  <1>4. CASE step[r][e.node] # "waiting"
    <2>1. exec' = [exec EXCEPT ![x] = Idle] /\ UNCHANGED <<step, route>>
      BY <1>4 DEF TakeAnswer
    <2>2. exec'[x] = Idle /\ Others(x) /\ exec' \in [Execs -> ExecRow]
      BY <2>1, IdleTyped DEF Others
    <2> QED  BY <1>1, <1>4, <2>1, <2>2 DEF AnswerMove, Steps
  <1> QED  BY <1>3, <1>4

\* The results an execution takes from the rows of its run.
LEMMA LoadEffect ==
  ASSUME Base, NEW x \in Execs, LoadResults(x)
  PROVE  LoadMove(x)
  <1> USE Typed DEF Base
  <1> DEFINE e == exec[x]
             r == exec[x].run
             Loaded(n) == IF step[r][n] = "skipped" THEN "skipped"
                          ELSE IF step[r][n] # "completed" THEN "none"
                          ELSE IF n \in run[r].graph.router THEN route[r][n] ELSE "done"
             all == [n \in Nodes |-> Loaded(n)]
             f == [e EXCEPT !.pc = "plan", !.wave = 1, !.got = all]
  <1>1. /\ e \in ExecRow /\ e.pc = "load" /\ e.write = "none" /\ r \in Runs /\ OnRun(x)
        /\ UNCHANGED <<run, step, route, cleaner, batch>>
    BY DEF LoadResults, At, ExecOK, OnRun
  <1>2. ASSUME NEW n \in Nodes PROVE Loaded(n) \in Result
    BY <1>1 DEF RowsOK, Result
  <1>3. all \in [Nodes -> Result] /\ \A n \in Nodes : all[n] = Loaded(n)
    BY <1>2
  <1>4. exec' = [exec EXCEPT ![x] = f]
    BY DEF LoadResults
  <1> HIDE DEF all
  <1>5. /\ f \in ExecRow /\ f.pc = "plan" /\ f.wave = 1 /\ f.run = r /\ f.file = e.file
        /\ f.node = e.node /\ f.pick = e.pick /\ f.ok = e.ok /\ f.stop = e.stop
        /\ f.write = "none" /\ f.at = e.at /\ f.got = all
    BY <1>1, <1>3 DEF ExecRow, ExecPc
  <1> HIDE DEF f
  <1>6. exec'[x] = f /\ Others(x) /\ exec' \in [Execs -> ExecRow]
    BY <1>4, <1>5 DEF Others
  <1> QED  BY <1>1, <1>3, <1>5, <1>6 DEF LoadMove, Steps, Stays

\* The nodes of its wave an execution has to look at, those it runs and those it skips.
Due(x) == {n \in InWave(exec[x].run, exec[x].wave) : exec[x].got[n] \in {"none", "skipped"}}
Ready(x) == {n \in Due(x) : ShouldExecute(GraphOf(x), n, exec[x].got)}
Skips(x) == Due(x) \ Ready(x)

\* f is e in its next wave, or at its end.
Onwards(f, e) ==
  /\ f.run = e.run /\ f.file = e.file /\ f.node = e.node /\ f.pick = e.pick
  /\ f.stop = e.stop /\ f.write = e.write /\ f.got = e.got
  /\ \/ /\ InWave(e.run, e.wave + 1) # {} /\ f.pc = "plan" /\ f.wave = e.wave + 1
        /\ f.ok = e.ok /\ \A n \in Nodes : f.at[n] = "off"
     \/ /\ InWave(e.run, e.wave + 1) = {} /\ f.pc = "final" /\ f.wave = e.wave /\ f.at = e.at
        /\ f.ok <=> \A n \in Nodes : e.got[n] # "failed"

\* The next wave.
LEMMA OnwardEffect ==
  ASSUME NEW e \in ExecRow, NEW f, f = Onward(e)
  PROVE  f \in ExecRow /\ Onwards(f, e)
  <1> USE DEF ExecRow
  <1>1. CASE InWave(e.run, e.wave + 1) # {}
    <2>1. f = [e EXCEPT !.pc = "plan", !.wave = @ + 1, !.at = Idle.at]
      BY <1>1 DEF Onward
    <2>2. Idle.at \in [Nodes -> NodePc] /\ \A n \in Nodes : Idle.at[n] = "off"
      BY DEF Idle, NodePc
    <2>3. /\ f \in ExecRow /\ f.run = e.run /\ f.file = e.file /\ f.node = e.node
          /\ f.pick = e.pick /\ f.stop = e.stop /\ f.write = e.write /\ f.got = e.got
          /\ f.pc = "plan" /\ f.wave = e.wave + 1 /\ f.at = Idle.at /\ f.ok = e.ok
      <3> DEFINE w == e.wave + 1
                 a == Idle.at
      <3>1. w \in Nat /\ f = [e EXCEPT !.pc = "plan", !.wave = w, !.at = a]
        BY <2>1
      <3>2. a \in [Nodes -> NodePc]
        BY <2>2
      <3> HIDE DEF w, a
      <3>3. f \in ExecRow /\ f.wave = w /\ f.at = a
        BY ZenonT(40), <3>1, <3>2 DEF ExecPc
      <3>4. /\ f.run = e.run /\ f.file = e.file /\ f.node = e.node
            /\ f.pick = e.pick /\ f.stop = e.stop /\ f.write = e.write /\ f.got = e.got
            /\ f.pc = "plan" /\ f.ok = e.ok
        BY <3>1
      <3> QED  BY <3>3, <3>4 DEF w, a
    <2> QED  BY <1>1, <2>2, <2>3 DEF Onwards
  <1>2. CASE InWave(e.run, e.wave + 1) = {}
    <2> DEFINE ok == \A n \in Nodes : e.got[n] # "failed"
    <2>1. f = [e EXCEPT !.pc = "final", !.ok = ok]
      BY <1>2 DEF Onward
    <2>2. ok \in BOOLEAN
      OBVIOUS
    <2>3. /\ f \in ExecRow /\ f.run = e.run /\ f.file = e.file /\ f.node = e.node
          /\ f.pick = e.pick /\ f.stop = e.stop /\ f.write = e.write /\ f.got = e.got
          /\ f.pc = "final" /\ f.wave = e.wave /\ f.at = e.at /\ f.ok = ok
      <3> HIDE DEF ok
      <3> QED  BY ZenonT(40), <2>1, <2>2 DEF ExecPc
    <2>4. f.ok <=> \A n \in Nodes : e.got[n] # "failed"
      <3>1. f.ok <=> ok
        <4> HIDE DEF ok
        <4> QED  BY <2>2, <2>3
      <3> QED  BY <3>1, Zenon
    <2> HIDE DEF ok
    <2> QED  BY <1>2, <2>3, <2>4 DEF Onwards
  <1> QED  BY <1>1, <1>2

PlanMove(x) ==
  LET e == exec[x]
      f == exec'[x]
      r == exec[x].run IN
  /\ Steps(x) /\ UNCHANGED route /\ e.pc = "plan" /\ e.write = "none"
  /\ Stays(x) /\ f.stop = e.stop
  /\ \A n \in Nodes : f.got[n] = IF n \in Skips(x) THEN "skipped" ELSE e.got[n]
  /\ \A n \in Nodes : step'[r][n] = IF n \in Skips(x) /\ step[r][n] # "absent"
                                    THEN "skipped" ELSE step[r][n]
  /\ \/ f.write = Derive(step'[r], run[r].partial)
     \/ f.write = "none" /\ UNCHANGED step
  /\ \/ /\ Ready(x) # {} /\ f.pc = "nodes" /\ f.wave = e.wave /\ f.ok = e.ok
        /\ \A n \in Nodes : f.at[n] = IF n \in Ready(x) THEN "start" ELSE "off"
     \/ /\ Ready(x) = {} /\ \A n \in Nodes : f.at[n] = "off"
        /\ \/ /\ InWave(r, e.wave + 1) # {} /\ f.pc = "plan" /\ f.wave = e.wave + 1
              /\ f.ok = e.ok
           \/ /\ InWave(r, e.wave + 1) = {} /\ f.pc = "final" /\ f.wave = e.wave
              /\ f.ok <=> \A n \in Nodes : f.got[n] # "failed"

\* A wave is planned.
LEMMA PlanEffect ==
  ASSUME Base, NEW x \in Execs, Plan(x)
  PROVE  PlanMove(x)
  <1> USE Typed DEF Base
  <1> DEFINE e == exec[x]
             r == exec[x].run
             got == [n \in Nodes |-> IF n \in Skips(x) THEN "skipped" ELSE e.got[n]]
             at == [n \in Nodes |-> IF n \in Ready(x) THEN "start" ELSE "off"]
             marked == {n \in Skips(x) : Row(x)[n] # "absent"}
             planned == [e EXCEPT !.got = got, !.at = at]
             on == IF Ready(x) = {} THEN Onward(planned) ELSE [planned EXCEPT !.pc = "nodes"]
             row == [n \in Nodes |-> IF n \in marked THEN "skipped" ELSE Row(x)[n]]
  <1>1. /\ e \in ExecRow /\ e.pc = "plan" /\ e.write = "none" /\ r \in Runs /\ OnRun(x)
        /\ UNCHANGED <<run, route, cleaner, batch>>
    BY SMTT(30) DEF Plan, At, ExecOK, OnRun
  <1>2. IF marked = {} THEN exec' = [exec EXCEPT ![x] = on] /\ UNCHANGED step
        ELSE Block(x, row, on)
    BY DEF Plan, Due, Ready, Skips, GraphOf
  <1>3. /\ got \in [Nodes -> Result] /\ at \in [Nodes -> NodePc]
        /\ \A n \in Nodes : got[n] = IF n \in Skips(x) THEN "skipped" ELSE e.got[n]
        /\ \A n \in Nodes : at[n] = IF n \in Ready(x) THEN "start" ELSE "off"
    BY <1>1 DEF ExecRow, Result, NodePc
  <1>4. /\ row \in Rows
        /\ \A n \in Nodes : row[n] = IF n \in Skips(x) /\ step[r][n] # "absent"
                                     THEN "skipped" ELSE step[r][n]
    BY <1>1 DEF Rows, Row, StepStatus, Finished
  <1> HIDE DEF got, at
  <1>5. /\ planned \in ExecRow /\ planned.pc = e.pc /\ planned.run = r /\ planned.file = e.file
        /\ planned.node = e.node /\ planned.pick = e.pick /\ planned.ok = e.ok
        /\ planned.stop = e.stop /\ planned.wave = e.wave /\ planned.write = "none"
        /\ planned.got = got /\ planned.at = at
    BY <1>1, <1>3 DEF ExecRow
  <1> HIDE DEF planned
  <1>6. /\ on \in ExecRow /\ on.run = r /\ on.file = e.file /\ on.node = e.node
        /\ on.pick = e.pick /\ on.stop = e.stop /\ on.write = "none" /\ on.got = got
        /\ \/ /\ Ready(x) # {} /\ on.pc = "nodes" /\ on.wave = e.wave /\ on.ok = e.ok
              /\ on.at = at
           \/ /\ Ready(x) = {} /\ \A n \in Nodes : on.at[n] = "off"
              /\ \/ /\ InWave(r, e.wave + 1) # {} /\ on.pc = "plan" /\ on.wave = e.wave + 1
                    /\ on.ok = e.ok
                 \/ /\ InWave(r, e.wave + 1) = {} /\ on.pc = "final" /\ on.wave = e.wave
                    /\ on.ok <=> \A n \in Nodes : got[n] # "failed"
    <2>1. CASE Ready(x) # {}
      <3>1. on = [planned EXCEPT !.pc = "nodes"]
        BY <2>1
      <3> QED  BY <1>5, <2>1, <3>1 DEF ExecRow, ExecPc
    <2>2. CASE Ready(x) = {}
      <3>1. on = Onward(planned)
        BY <2>2
      <3> HIDE DEF on
      <3>2. on \in ExecRow /\ Onwards(on, planned)
        BY <1>5, <3>1, OnwardEffect
      <3> QED  BY <1>3, <1>5, <2>2, <3>2 DEF Onwards
    <2> QED  BY <2>1, <2>2
  <1> HIDE DEF on, row
  <1>7. CASE marked = {}
    <2>1. exec' = [exec EXCEPT ![x] = on] /\ UNCHANGED step
      BY <1>2, <1>7
    <2>2. exec'[x] = on /\ Others(x) /\ exec' \in [Execs -> ExecRow]
      BY <1>6, <2>1 DEF Others
    <2>3. \A n \in Nodes : step'[r][n] = IF n \in Skips(x) /\ step[r][n] # "absent"
                                         THEN "skipped" ELSE step[r][n]
      BY <1>7, <2>1 DEF Row
    <2> QED  BY <1>1, <1>3, <1>6, <2>1, <2>2, <2>3 DEF PlanMove, Steps, Stays
  <1>8. CASE marked # {}
    <2>1. Block(x, row, on)
      BY <1>2, <1>8
    <2>2. /\ exec' \in [Execs -> ExecRow] /\ step' \in [Runs -> Rows]
          /\ Others(x) /\ \A q \in Runs \ {r} : step'[q] = step[q]
          /\ step'[r] = row
          /\ exec'[x].write = Derive(row, run[on.run].partial)
          /\ exec'[x].pc = on.pc /\ exec'[x].run = on.run /\ exec'[x].file = on.file
          /\ exec'[x].ok = on.ok /\ exec'[x].stop = on.stop /\ exec'[x].wave = on.wave
          /\ exec'[x].node = on.node /\ exec'[x].pick = on.pick
          /\ exec'[x].got = on.got /\ exec'[x].at = on.at
      BY <1>1, <1>4, <1>6, <2>1, BlockEffect
    <2> QED  BY <1>1, <1>3, <1>4, <1>6, <2>2 DEF PlanMove, Steps, Stays
  <1> QED  BY SMTT(30), <1>7, <1>8

\* The least of some nodes is one of them.
LEMMA LeastIn ==
  ASSUME NEW S \in SUBSET Nodes, S # {}
  PROVE  Least(S) \in S
  <1> DEFINE R == StrictSubsetOrdering(Nodes)
             Upto(n) == {m \in Nodes : m <= n}
             T == {Upto(n) : n \in S}
  <1>1. \A n \in Nodes : n \in Nat
    BY WorkflowsAssumption
  <1>2. T \subseteq FiniteSubsetsOf(Nodes) /\ T # {}
    <2>1. ASSUME NEW n \in S
          PROVE  Upto(n) \in SUBSET Nodes /\ IsFiniteSet(Upto(n))
      BY WorkflowsAssumption, FS_Subset
    <2> HIDE DEF Upto
    <2> QED  BY <2>1 DEF FiniteSubsetsOf
  <1>3. IsWellFoundedOn(R, FiniteSubsetsOf(Nodes))
    BY FS_StrictSubsetOrderingWellFounded
  <1> HIDE DEF T, R
  <1>4. PICK y \in T : \A z \in T : ~(<<z, y>> \in R)
    BY <1>2, <1>3, WFMin
  <1>5. PICK n \in S : y = Upto(n)
    BY DEF T
  <1>6. ASSUME NEW m \in S
        PROVE  n <= m
    <2>1. Upto(m) \in T /\ Upto(m) \in SUBSET Nodes /\ Upto(n) \in SUBSET Nodes
      BY DEF T
    <2>2. ~(Upto(m) \subseteq Upto(n)) \/ Upto(m) = Upto(n)
      BY <1>4, <1>5, <2>1 DEF R, StrictSubsetOrdering
    <2>3. m < n => Upto(m) \subseteq Upto(n) /\ n \in Upto(n) /\ n \notin Upto(m)
      BY <1>1
    <2> QED  BY <1>1, <2>2, <2>3
  <1>7. \E k \in S : \A m \in S : k <= m
    BY <1>6
  <1> QED  BY <1>7 DEF Least

DecideMove(x) ==
  LET e == exec[x]
      f == exec'[x]
      r == exec[x].run IN
  /\ Steps(x) /\ UNCHANGED route /\ e.pc = "nodes" /\ e.write = "none" /\ ~e.stop
  /\ \A n \in Nodes : e.at[n] \in {"off", "over"}
  /\ \/ /\ \A n \in Nodes : e.at[n] = "over" => e.got[n] # "waiting"
        /\ UNCHANGED step /\ Onwards(f, e)
     \/ /\ run[r].kind # "file" /\ f = Idle /\ UNCHANGED step
        /\ \E n \in Nodes : e.at[n] = "over" /\ e.got[n] = "waiting"
     \/ \E n \in Nodes :
          /\ e.at[n] = "over" /\ e.got[n] = "waiting" /\ run[r].kind = "file"
          /\ f.pc = "final" /\ ~f.ok /\ Stays(x) /\ f.stop = e.stop /\ f.wave = e.wave
          /\ f.got = e.got /\ f.at = e.at
          /\ \/ /\ step[r][n] = "waiting" /\ step'[r] = [step[r] EXCEPT ![n] = "failed"]
                /\ f.write = Derive(step'[r], run[r].partial)
             \/ UNCHANGED step /\ f.write = "none"

\* What follows a wave.
LEMMA DecideEffect ==
  ASSUME Base, NEW x \in Execs, Decide(x)
  PROVE  DecideMove(x)
  <1> USE Typed DEF Base
  <1> DEFINE e == exec[x]
             r == exec[x].run
             waiting == {n \in Nodes : e.at[n] = "over" /\ e.got[n] = "waiting"}
             n == Least(waiting)
             lost == [e EXCEPT !.pc = "final", !.ok = FALSE]
             row == [Row(x) EXCEPT ![n] = "failed"]
  <1>1. /\ e \in ExecRow /\ e.pc = "nodes" /\ e.write = "none" /\ ~e.stop
        /\ r \in Runs /\ OnRun(x)
        /\ UNCHANGED <<run, route, cleaner, batch>>
    BY DEF Decide, WaveOver, At, ExecOK, OnRun
  <1>2. \A m \in Nodes : e.at[m] \in {"off", "over"}
    BY DEF Decide, WaveOver, AllOver
  <1>3. IF waiting = {} THEN exec' = [exec EXCEPT ![x] = Onward(e)] /\ UNCHANGED step
        ELSE IF run[r].kind # "file" THEN exec' = [exec EXCEPT ![x] = Idle] /\ UNCHANGED step
        ELSE IF Row(x)[n] = "waiting" THEN Block(x, row, lost)
        ELSE exec' = [exec EXCEPT ![x] = lost] /\ UNCHANGED step
    BY DEF Decide
  <1>4. /\ lost \in ExecRow /\ lost.pc = "final" /\ ~lost.ok /\ lost.run = r
        /\ lost.file = e.file /\ lost.node = e.node /\ lost.pick = e.pick
        /\ lost.stop = e.stop /\ lost.wave = e.wave /\ lost.write = "none"
        /\ lost.got = e.got /\ lost.at = e.at
    BY <1>1 DEF ExecRow, ExecPc
  <1>5. waiting # {} => n \in Nodes /\ e.at[n] = "over" /\ e.got[n] = "waiting"
    <2> HIDE DEF n
    <2>1. waiting \in SUBSET Nodes
      OBVIOUS
    <2> SUFFICES ASSUME waiting # {} PROVE n \in waiting
      OBVIOUS
    <2> HIDE DEF waiting
    <2> QED  BY <2>1, LeastIn DEF n
  <1> HIDE DEF lost, n
  <1>6. CASE waiting = {}
    <2> DEFINE o == Onward(e)
    <2>1. exec' = [exec EXCEPT ![x] = o] /\ UNCHANGED step
      BY <1>3, <1>6
    <2>2. o \in ExecRow /\ Onwards(o, e)
      BY <1>1, OnwardEffect
    <2> HIDE DEF o
    <2>3. exec'[x] = o /\ Others(x) /\ exec' \in [Execs -> ExecRow]
      BY <2>1, <2>2 DEF Others
    <2>4. \A m \in Nodes : e.at[m] = "over" => e.got[m] # "waiting"
      BY <1>6
    <2> HIDE DEF waiting
    <2> QED  BY <1>1, <1>2, <2>1, <2>2, <2>3, <2>4 DEF DecideMove, Steps
  <1>7. CASE waiting # {} /\ run[r].kind # "file"
    <2>1. exec' = [exec EXCEPT ![x] = Idle] /\ UNCHANGED step
      BY <1>3, <1>7
    <2>2. exec'[x] = Idle /\ Others(x) /\ exec' \in [Execs -> ExecRow]
      BY <2>1, IdleTyped DEF Others
    <2> HIDE DEF waiting
    <2> QED  BY <1>1, <1>2, <1>5, <1>7, <2>1, <2>2 DEF DecideMove, Steps
  <1>8. CASE waiting # {} /\ run[r].kind = "file" /\ Row(x)[n] = "waiting"
    <2>1. Block(x, row, lost)
      BY <1>3, <1>8
    <2>2. row \in Rows
      BY <1>1 DEF Row, Rows, StepStatus
    <2>3. row = [step[r] EXCEPT ![n] = "failed"] /\ step[r][n] = "waiting"
      BY <1>8 DEF Row
    <2> HIDE DEF row, waiting
    <2>4. /\ exec' \in [Execs -> ExecRow] /\ step' \in [Runs -> Rows]
          /\ Others(x) /\ \A q \in Runs \ {r} : step'[q] = step[q]
          /\ step'[r] = row
          /\ exec'[x].write = Derive(row, run[lost.run].partial)
          /\ exec'[x].pc = lost.pc /\ exec'[x].run = lost.run /\ exec'[x].file = lost.file
          /\ exec'[x].ok = lost.ok /\ exec'[x].stop = lost.stop /\ exec'[x].wave = lost.wave
          /\ exec'[x].node = lost.node /\ exec'[x].pick = lost.pick
          /\ exec'[x].got = lost.got /\ exec'[x].at = lost.at
      BY <1>1, <1>4, <2>1, <2>2, BlockEffect
    <2>5. /\ exec'[x].pc = "final" /\ ~exec'[x].ok /\ Stays(x) /\ exec'[x].stop = e.stop
          /\ exec'[x].wave = e.wave /\ exec'[x].got = e.got /\ exec'[x].at = e.at
          /\ exec'[x].write = Derive(step'[r], run[r].partial)
      BY <1>4, <2>4 DEF Stays
    <2>6. step[r][n] = "waiting" /\ step'[r] = [step[r] EXCEPT ![n] = "failed"]
      BY <2>3, <2>4
    <2>7. Steps(x)
      BY <1>1, <2>4 DEF Steps
    <2> QED  BY <1>1, <1>2, <1>5, <1>8, <2>5, <2>6, <2>7 DEF DecideMove
  <1>9. CASE waiting # {} /\ run[r].kind = "file" /\ Row(x)[n] # "waiting"
    <2>1. exec' = [exec EXCEPT ![x] = lost] /\ UNCHANGED step
      BY <1>3, <1>9
    <2>2. exec'[x] = lost /\ Others(x) /\ exec' \in [Execs -> ExecRow]
      BY <1>4, <2>1 DEF Others
    <2> HIDE DEF waiting
    <2> QED  BY <1>1, <1>2, <1>4, <1>5, <1>9, <2>1, <2>2 DEF DecideMove, Steps, Stays
  <1> QED  BY <1>6, <1>7, <1>8, <1>9

FinalMove(x) ==
  LET e == exec[x]
      f == exec'[x]
      r == exec[x].run IN
  /\ Steps(x) /\ UNCHANGED route /\ e.pc = "final" /\ e.write = "none"
  /\ f.pc = "end" /\ Stays(x) /\ f.ok = e.ok /\ f.stop = e.stop /\ f.wave = e.wave
  /\ f.got = e.got /\ f.at = e.at
  /\ \/ e.ok /\ step'[r] = step[r] /\ f.write = Derive(step[r], run[r].partial)
     \/ ~e.ok /\ step'[r] = FailOpen(step[r]) /\ f.write = "failed"

\* The end of a walk.
LEMMA FinalEffect ==
  ASSUME Base, NEW x \in Execs, Final(x)
  PROVE  FinalMove(x)
  <1> USE Typed DEF Base
  <1> DEFINE e == exec[x]
             r == exec[x].run
             on == [e EXCEPT !.pc = "end"]
             row == step[r]
  <1>1. /\ e \in ExecRow /\ e.pc = "final" /\ e.write = "none" /\ r \in Runs /\ OnRun(x)
        /\ UNCHANGED <<run, route, cleaner, batch>>
        /\ IF e.ok THEN Block(x, row, on) ELSE FailBlock(x, on)
    BY DEF Final, At, ExecOK, OnRun, Row
  <1>2. /\ on \in ExecRow /\ on.pc = "end" /\ on.ok = e.ok /\ on.run = r
        /\ on.file = e.file /\ on.node = e.node /\ on.pick = e.pick
        /\ on.stop = e.stop /\ on.wave = e.wave /\ on.got = e.got /\ on.at = e.at
    BY <1>1 DEF ExecRow, ExecPc
  <1>3. row \in Rows
    BY <1>1
  <1>4. e.ok \in BOOLEAN
    BY <1>1 DEF ExecRow
  <1> HIDE DEF on, row
  <1>5. CASE e.ok
    <2>1. /\ exec' \in [Execs -> ExecRow] /\ step' \in [Runs -> Rows]
          /\ Others(x) /\ \A q \in Runs \ {r} : step'[q] = step[q]
          /\ step'[r] = row
          /\ exec'[x].write = Derive(row, run[on.run].partial)
          /\ exec'[x].pc = on.pc /\ exec'[x].run = on.run /\ exec'[x].file = on.file
          /\ exec'[x].ok = on.ok /\ exec'[x].stop = on.stop /\ exec'[x].wave = on.wave
          /\ exec'[x].node = on.node /\ exec'[x].pick = on.pick
          /\ exec'[x].got = on.got /\ exec'[x].at = on.at
      <3>1. Block(x, row, on)
        BY <1>1, <1>5
      <3> QED  BY <1>1, <1>2, <1>3, <3>1, BlockEffect
    <2> QED  BY ZenonT(40), <1>1, <1>2, <1>3, <1>5, <2>1 DEF FinalMove, Steps, Stays, row
  <1>6. CASE ~e.ok
    <2>1. /\ exec' \in [Execs -> ExecRow] /\ step' \in [Runs -> Rows]
          /\ Others(x) /\ \A q \in Runs \ {r} : step'[q] = step[q]
          /\ step'[r] = FailOpen(Row(x))
          /\ exec'[x].write = "failed"
          /\ exec'[x].pc = on.pc /\ exec'[x].run = on.run /\ exec'[x].file = on.file
          /\ exec'[x].ok = on.ok /\ exec'[x].stop = on.stop /\ exec'[x].wave = on.wave
          /\ exec'[x].node = on.node /\ exec'[x].pick = on.pick
          /\ exec'[x].got = on.got /\ exec'[x].at = on.at
      BY <1>1, <1>2, <1>6, FailBlockEffect
    <2> QED  BY <1>1, <1>2, <1>6, <2>1 DEF FinalMove, Steps, Stays, Row
  <1> QED  BY <1>4, <1>5, <1>6

\* A router run by hand has failed: its execution leaves the run as it is.
Left(x) == exec[x].node \in GraphOf(x).router /\ exec[x].got[exec[x].node] = "failed"

\* A node run by hand, or a stopped deliberation, is over.
EndMove(x) ==
  /\ Steps(x) /\ UNCHANGED <<step, route>> /\ exec'[x] = Idle /\ exec[x].write = "none"
  /\ \/ exec[x].pc = "single" /\ exec[x].at[exec[x].node] = "over" /\ ~Left(x)
     \/ exec[x].pc = "stopped" /\ \A n \in Nodes : exec[x].at[n] \in {"off", "late", "over"}

\* The end of such an execution.
LEMMA EndEffect ==
  ASSUME Base, NEW x \in Execs, (SingleEnd(x) /\ ~Left(x)) \/ Leave(x)
  PROVE  EndMove(x)
  <1> USE Typed DEF Base
  <1>1. exec' = [exec EXCEPT ![x] = Idle] /\ UNCHANGED <<run, step, route, cleaner, batch>>
    BY DEF SingleEnd, Leave, Left, GraphOf
  <1>2. /\ exec[x].write = "none" /\ exec[x].run \in Runs /\ OnRun(x)
        /\ \/ exec[x].pc = "single" /\ exec[x].at[exec[x].node] = "over" /\ ~Left(x)
           \/ exec[x].pc = "stopped" /\ \A n \in Nodes : exec[x].at[n] \in {"off", "late", "over"}
    BY DEF SingleEnd, Leave, At, AllOver, ExecOK, OnRun
  <1>3. exec'[x] = Idle /\ Others(x) /\ exec' \in [Execs -> ExecRow]
    BY <1>1, IdleTyped DEF Others
  <1> QED  BY <1>1, <1>2, <1>3 DEF EndMove, Steps

BeginMove(x) ==
  LET e == exec[x]
      f == exec'[x] IN
  /\ Steps(x) /\ UNCHANGED <<step, route>> /\ e.pc = "setup" /\ e.write = "none"
  /\ f.pc = "load" /\ Stays(x) /\ f.ok = e.ok /\ f.stop = e.stop /\ f.wave = e.wave
  /\ f.write = "none" /\ f.got = e.got /\ f.at = e.at

\* The guarded part of a walk begins.
LEMMA BeginEffect ==
  ASSUME Base, NEW x \in Execs, Begin(x)
  PROVE  BeginMove(x)
  <1> USE Typed DEF Base
  <1> DEFINE e == exec[x]
             on == [e EXCEPT !.pc = "load"]
  <1>1. /\ e \in ExecRow /\ e.pc = "setup" /\ e.write = "none"
        /\ e.run \in Runs /\ OnRun(x)
        /\ exec' = [exec EXCEPT ![x] = on] /\ UNCHANGED <<run, step, route, cleaner, batch>>
    BY DEF Begin, At, ExecOK, OnRun
  <1>2. /\ on \in ExecRow /\ on.pc = "load" /\ on.ok = e.ok /\ on.run = e.run
        /\ on.file = e.file /\ on.node = e.node /\ on.pick = e.pick /\ on.write = "none"
        /\ on.stop = e.stop /\ on.wave = e.wave /\ on.got = e.got /\ on.at = e.at
    BY <1>1 DEF ExecRow, ExecPc
  <1> HIDE DEF on
  <1>3. exec'[x] = on /\ Others(x) /\ exec' \in [Execs -> ExecRow]
    BY <1>1, <1>2 DEF Others
  <1> QED  BY <1>1, <1>2, <1>3 DEF BeginMove, Steps, Stays

StoppedMove(x) ==
  LET e == exec[x]
      f == exec'[x]
      r == exec[x].run IN
  /\ Steps(x) /\ UNCHANGED route /\ e.write = "none"
  /\ \/ e.pc = "stopping"
     \/ e.pc = "nodes" /\ e.stop /\ \A n \in Nodes : e.at[n] \in {"off", "late", "over"}
  /\ f.pc = "stopped" /\ Stays(x) /\ f.ok = e.ok /\ f.stop = e.stop /\ f.wave = e.wave
  /\ f.got = e.got /\ f.at = e.at
  /\ step'[r] = FailOpen(step[r]) /\ f.write = "failed"

\* The run of a stopped deliberation is failed.
LEMMA StoppedEffect ==
  ASSUME Base, NEW x \in Execs, MarkStopped(x)
  PROVE  StoppedMove(x)
  <1> USE Typed DEF Base
  <1> DEFINE e == exec[x]
             r == exec[x].run
             on == [e EXCEPT !.pc = "stopped"]
  <1>1. /\ e \in ExecRow /\ e.write = "none" /\ r \in Runs /\ OnRun(x)
        /\ \/ e.pc = "stopping"
           \/ e.pc = "nodes" /\ e.stop /\ \A n \in Nodes : e.at[n] \in {"off", "late", "over"}
        /\ UNCHANGED <<run, route, cleaner, batch>>
    BY DEF MarkStopped, At, AllOver, ExecOK, OnRun
  <1>2. FailBlock(x, on)
    BY DEF MarkStopped
  <1>3. /\ on \in ExecRow /\ on.pc = "stopped" /\ on.ok = e.ok /\ on.run = r
        /\ on.file = e.file /\ on.node = e.node /\ on.pick = e.pick
        /\ on.stop = e.stop /\ on.wave = e.wave /\ on.got = e.got /\ on.at = e.at
    BY <1>1 DEF ExecRow, ExecPc
  <1> HIDE DEF on
  <1>4. /\ exec' \in [Execs -> ExecRow] /\ step' \in [Runs -> Rows]
        /\ Others(x) /\ \A q \in Runs \ {r} : step'[q] = step[q]
        /\ step'[r] = FailOpen(Row(x))
        /\ exec'[x].write = "failed"
        /\ exec'[x].pc = on.pc /\ exec'[x].run = on.run /\ exec'[x].file = on.file
        /\ exec'[x].ok = on.ok /\ exec'[x].stop = on.stop /\ exec'[x].wave = on.wave
        /\ exec'[x].node = on.node /\ exec'[x].pick = on.pick
        /\ exec'[x].got = on.got /\ exec'[x].at = on.at
    BY <1>1, <1>2, <1>3, FailBlockEffect
  <1>5. step'[r] = FailOpen(step[r])
    BY <1>4 DEF Row
  <1> QED  BY <1>1, <1>3, <1>4, <1>5 DEF StoppedMove, Steps, Stays

BreakMove(x) ==
  LET e == exec[x]
      f == exec'[x] IN
  /\ Steps(x) /\ UNCHANGED <<step, route>> /\ e.pc \in {"load", "plan"} /\ e.write = "none"
  /\ f.pc = "final" /\ ~f.ok /\ Stays(x) /\ f.stop = e.stop /\ f.wave = e.wave
  /\ f.write = "none" /\ f.got = e.got /\ f.at = e.at

\* An exception outside the nodes.
LEMMA BreakEffect ==
  ASSUME Base, NEW x \in Execs, Break(x)
  PROVE  BreakMove(x)
  <1> USE Typed DEF Base
  <1> DEFINE e == exec[x]
             on == [e EXCEPT !.pc = "final", !.ok = FALSE]
  <1>1. /\ e \in ExecRow /\ e.pc \in {"load", "plan"} /\ e.write = "none"
        /\ e.run \in Runs /\ OnRun(x)
        /\ exec' = [exec EXCEPT ![x] = on] /\ UNCHANGED <<run, step, route, cleaner, batch>>
    BY DEF Break, At, ExecOK, OnRun
  <1>2. /\ on \in ExecRow /\ on.pc = "final" /\ ~on.ok /\ on.run = e.run
        /\ on.file = e.file /\ on.node = e.node /\ on.pick = e.pick /\ on.write = "none"
        /\ on.stop = e.stop /\ on.wave = e.wave /\ on.got = e.got /\ on.at = e.at
    BY <1>1 DEF ExecRow, ExecPc
  <1> HIDE DEF on
  <1>3. exec'[x] = on /\ Others(x) /\ exec' \in [Execs -> ExecRow]
    BY <1>1, <1>2 DEF Others
  <1> QED  BY <1>1, <1>2, <1>3 DEF BreakMove, Steps, Stays

StopMove(x) ==
  LET e == exec[x]
      f == exec'[x]
      r == exec[x].run IN
  /\ Steps(x) /\ UNCHANGED <<step, route>> /\ e.pc \in Walking
  /\ run[r].kind = "ensemble" /\ ~e.stop
  /\ f.stop /\ Stays(x) /\ f.ok = e.ok /\ f.wave = e.wave /\ f.got = e.got /\ f.write = e.write
  /\ \A n \in Nodes : \/ f.at[n] = e.at[n] /\ e.at[n] \in {"off", "ask"}
                      \/ f.at[n] = "over" /\ e.at[n] # "off"
  /\ \/ /\ e.pc = "nodes" /\ f.pc = "nodes" /\ e.write = "none"
        /\ \A n \in Nodes : e.at[n] # "start" /\ (e.at[n] = "ask" => f.at[n] = "ask")
     \/ /\ f.pc = "stopping"
        /\ e.pc = "nodes" /\ e.write = "none" =>
             \E n \in Nodes : e.at[n] \in {"start", "ask"} /\ f.at[n] = "over"

\* A deliberation hears its user's stop.
LEMMA StopEffect ==
  ASSUME Base, NEW x \in Execs, Stop(x)
  PROVE  StopMove(x)
  <1> USE Typed DEF Base
  <1> DEFINE e == exec[x]
             asking == {n \in Nodes : e.at[n] = "ask"}
             waits == e.pc = "nodes" /\ e.write = "none"
  <1>1. /\ e \in ExecRow /\ e.pc \in Walking /\ e.run \in Runs /\ OnRun(x)
        /\ run[e.run].kind = "ensemble" /\ ~e.stop
        /\ UNCHANGED <<run, step, route, cleaner, batch>>
    BY ZenonT(40) DEF Stop, ExecOK, OnRun, Walking
  <1>2. PICK deaf \in SUBSET asking :
          exec' = [exec EXCEPT ![x].stop = TRUE,
            ![x].pc = IF waits /\ \A n \in Nodes : e.at[n] # "start" /\ (n \in asking => n \in deaf)
                      THEN "nodes" ELSE "stopping",
            ![x].at = [n \in Nodes |-> IF e.at[n] = "off" \/ n \in deaf THEN e.at[n]
                                       ELSE "over"]]
    BY DEF Stop
  <1> DEFINE pc == IF waits /\ \A n \in Nodes : e.at[n] # "start" /\ (n \in asking => n \in deaf)
                   THEN "nodes" ELSE "stopping"
             at == [n \in Nodes |-> IF e.at[n] = "off" \/ n \in deaf THEN e.at[n] ELSE "over"]
             on == [e EXCEPT !.stop = TRUE, !.pc = pc, !.at = at]
  <1>3. pc \in ExecPc
    BY DEF ExecPc
  <1>4. /\ at \in [Nodes -> NodePc]
        /\ \A n \in Nodes : at[n] = IF e.at[n] = "off" \/ n \in deaf THEN e.at[n] ELSE "over"
    BY <1>1 DEF ExecRow, NodePc
  <1>5. exec' = [exec EXCEPT ![x] = on]
    BY <1>2
  <1>6. \A n \in Nodes : \/ at[n] = e.at[n] /\ e.at[n] \in {"off", "ask"}
                         \/ at[n] = "over" /\ e.at[n] # "off"
    <2> HIDE DEF at
    <2> QED  BY <1>4
  <1>7. \/ /\ e.pc = "nodes" /\ pc = "nodes" /\ e.write = "none"
           /\ \A n \in Nodes : e.at[n] # "start" /\ (e.at[n] = "ask" => at[n] = "ask")
        \/ /\ pc = "stopping"
           /\ e.pc = "nodes" /\ e.write = "none" =>
                \E n \in Nodes : e.at[n] \in {"start", "ask"} /\ at[n] = "over"
    <2> HIDE DEF at
    <2> QED  BY <1>4
  <1> HIDE DEF pc, at
  <1>8. /\ on \in ExecRow /\ on.stop /\ on.pc = pc /\ on.at = at /\ on.run = e.run
        /\ on.file = e.file /\ on.node = e.node /\ on.pick = e.pick /\ on.ok = e.ok
        /\ on.wave = e.wave /\ on.got = e.got /\ on.write = e.write
    BY <1>1, <1>3, <1>4 DEF ExecRow
  <1> HIDE DEF on
  <1>9. exec'[x] = on /\ Others(x) /\ exec' \in [Execs -> ExecRow]
    BY <1>5, <1>8 DEF Others
  <1> QED  BY SMTT(30), <1>1, <1>6, <1>7, <1>8, <1>9 DEF StopMove, Steps, Stays

LateMove(x, n) ==
  LET e == exec[x]
      f == exec'[x] IN
  /\ Steps(x) /\ UNCHANGED <<step, route>> /\ e.pc = "nodes" /\ run[e.run].kind = "ensemble"
  /\ e.at[n] \in {"start", "begun", "ask"} /\ f.at[n] = "late" /\ f.got[n] = "failed"
  /\ f.pc = "nodes" /\ Stays(x) /\ f.ok = e.ok /\ f.stop = e.stop /\ f.wave = e.wave
  /\ f.write = e.write
  /\ \A m \in Nodes \ {n} : f.at[m] = e.at[m] /\ f.got[m] = e.got[m]

\* A node of a deliberation overruns.
LEMMA LateEffect ==
  ASSUME Base, NEW x \in Execs, NEW n \in Nodes, TimeOut(x, n)
  PROVE  LateMove(x, n)
  <1> USE Typed DEF Base
  <1> DEFINE e == exec[x]
             at == [e.at EXCEPT ![n] = "late"]
             got == [e.got EXCEPT ![n] = "failed"]
             on == [e EXCEPT !.at = at, !.got = got]
  <1>1. /\ e \in ExecRow /\ e.pc = "nodes" /\ e.run \in Runs /\ OnRun(x)
        /\ run[e.run].kind = "ensemble" /\ e.at[n] \in {"start", "begun", "ask"}
        /\ UNCHANGED <<run, step, route, cleaner, batch>>
    BY DEF TimeOut, ExecOK, OnRun
  <1>2. exec' = [exec EXCEPT ![x] = on]
    BY DEF TimeOut
  <1>3. /\ at \in [Nodes -> NodePc] /\ at[n] = "late"
        /\ got \in [Nodes -> Result] /\ got[n] = "failed"
        /\ \A m \in Nodes \ {n} : at[m] = e.at[m] /\ got[m] = e.got[m]
    BY <1>1 DEF ExecRow, NodePc, Result
  <1> HIDE DEF at, got
  <1>4. /\ on \in ExecRow /\ on.pc = e.pc /\ on.at = at /\ on.got = got /\ on.run = e.run
        /\ on.file = e.file /\ on.node = e.node /\ on.pick = e.pick /\ on.ok = e.ok
        /\ on.stop = e.stop /\ on.wave = e.wave /\ on.write = e.write
    BY <1>1, <1>3 DEF ExecRow
  <1> HIDE DEF on
  <1>5. exec'[x] = on /\ Others(x) /\ exec' \in [Execs -> ExecRow]
    BY <1>2, <1>4 DEF Others
  <1> QED  BY <1>1, <1>3, <1>4, <1>5 DEF LateMove, Steps, Stays

-----------------------------------------------------------------------------
(* The effect of requests, file tasks, cleanups and kills.                   *)

\* A new row, with the steps of its graph.
CreateMove(r, kind, g) ==
  /\ run[r] = NoRow /\ run' \in [Runs -> RunRow] /\ step' \in [Runs -> Rows]
  /\ \A q \in Runs \ {r} : run'[q] = run[q] /\ step'[q] = step[q]
  /\ run'[r].kind = kind /\ run'[r].graph = g /\ run'[r].status = "running"
  /\ run'[r].partial <=> kind = "single"
  /\ ~run'[r].ended /\ ~run'[r].loose /\ ~run'[r].stopped /\ ~run'[r].passed
  /\ \A n \in Nodes : step'[r][n] = IF n \in g.nodes \ g.router THEN "pending" ELSE "absent"

\* create_full_run and create_partial_run.
LEMMA CreateEffect ==
  ASSUME TypeOK, NEW r \in Runs, NEW kind \in Kind, NEW g \in Drawn \cup Ensembles,
         Create(r, kind, g)
  PROVE  CreateMove(r, kind, g)
  <1> USE Typed
  <1> DEFINE partial == kind = "single"
             new == [NoRow EXCEPT !.kind = kind, !.graph = g, !.partial = partial]
             row == [n \in Nodes |-> IF n \in g.nodes \ g.router THEN "pending" ELSE "absent"]
  <1>1. run[r] = NoRow /\ run' = [run EXCEPT ![r] = new] /\ step' = [step EXCEPT ![r] = row]
    BY DEF Create, NextRun
  <1>2. row \in Rows /\ \A n \in Nodes : row[n] = IF n \in g.nodes \ g.router THEN "pending"
                                                  ELSE "absent"
    BY DEF Rows, StepStatus, Open
  <1>3. partial \in BOOLEAN /\ (partial <=> kind = "single")
    OBVIOUS
  <1> HIDE DEF partial, row
  <1>4. /\ new \in RunRow /\ new.kind = kind /\ new.graph = g /\ new.status = "running"
        /\ new.partial = partial /\ ~new.ended /\ ~new.loose /\ ~new.stopped /\ ~new.passed
    BY <1>3 DEF RunRow, NoRow, RunStatus
  <1> HIDE DEF new
  <1>5. /\ run' \in [Runs -> RunRow] /\ step' \in [Runs -> Rows]
        /\ run'[r] = new /\ step'[r] = row
        /\ \A q \in Runs \ {r} : run'[q] = run[q] /\ step'[q] = step[q]
    BY <1>1, <1>2, <1>4
  <1> QED  BY <1>1, <1>2, <1>3, <1>4, <1>5 DEF CreateMove

\* An execution takes a free place.
Begins(x, pc, r) ==
  /\ exec[x] = Idle /\ exec' \in [Execs -> ExecRow] /\ Others(x)
  /\ exec'[x].pc = pc /\ exec'[x].run = r /\ ~exec'[x].stop /\ exec'[x].wave = 0
  /\ \A n \in Nodes : exec'[x].got[n] = "none"

\* A new row of history beside what the row was.
Retold(r, loose, partial) ==
  /\ run' \in [Runs -> RunRow] /\ \A q \in Runs \ {r} : run'[q] = run[q]
  /\ run'[r].kind = run[r].kind /\ run'[r].graph = run[r].graph
  /\ run'[r].status = run[r].status /\ run'[r].ended = run[r].ended
  /\ run'[r].stopped = run[r].stopped /\ run'[r].passed = run[r].passed
  /\ run'[r].loose <=> loose
  /\ run'[r].partial <=> partial

\* Restarts, answers and single steps leave the row as it was but for that.
LEMMA Retells ==
  ASSUME TypeOK, NEW r \in Runs, NEW loose \in BOOLEAN, NEW partial \in BOOLEAN,
         run' = [run EXCEPT ![r].loose = loose, ![r].partial = partial]
  PROVE  Retold(r, loose, partial)
  <1> USE Typed
  <1> DEFINE new == [run[r] EXCEPT !.loose = loose, !.partial = partial]
  <1>1. run[r] \in RunRow /\ run' = [run EXCEPT ![r] = new]
    OBVIOUS
  <1>2. /\ new \in RunRow /\ new.kind = run[r].kind /\ new.graph = run[r].graph
        /\ new.status = run[r].status /\ new.ended = run[r].ended
        /\ new.stopped = run[r].stopped /\ new.passed = run[r].passed
        /\ new.loose = loose /\ new.partial = partial
    BY <1>1 DEF RunRow
  <1> HIDE DEF new
  <1>3. /\ run' \in [Runs -> RunRow] /\ run'[r] = new /\ \A q \in Runs \ {r} : run'[q] = run[q]
    BY ZenonT(60), <1>1, <1>2
  <1> QED  BY <1>2, <1>3 DEF Retold

\* The same when only the history changes.
LEMMA RetellsLoose ==
  ASSUME TypeOK, NEW r \in Runs, NEW loose \in BOOLEAN,
         run' = [run EXCEPT ![r].loose = loose]
  PROVE  Retold(r, loose, run[r].partial)
  <1> USE Typed
  <1> DEFINE new == [run[r] EXCEPT !.loose = loose]
  <1>1. run[r] \in RunRow /\ run' = [run EXCEPT ![r] = new]
    OBVIOUS
  <1>2. /\ new \in RunRow /\ new.kind = run[r].kind /\ new.graph = run[r].graph
        /\ new.status = run[r].status /\ new.ended = run[r].ended
        /\ new.stopped = run[r].stopped /\ new.passed = run[r].passed
        /\ new.loose = loose /\ new.partial = run[r].partial
    BY <1>1 DEF RunRow
  <1> HIDE DEF new
  <1>3. /\ run' \in [Runs -> RunRow] /\ run'[r] = new /\ \A q \in Runs \ {r} : run'[q] = run[q]
    BY <1>1, <1>2
  <1> QED  BY <1>2, <1>3 DEF Retold

NewRunMove(x, r, g) ==
  /\ CreateMove(r, IF g \in Ensembles THEN "ensemble" ELSE "live", g)
  /\ Begins(x, "setup", r) /\ ~exec'[x].file /\ exec'[x].write = "none"
  /\ \A n \in Nodes : exec'[x].at[n] = "off"
  /\ UNCHANGED <<route, cleaner, batch>> /\ batch = NoBatch

\* A new run, executed at once.
LEMMA NewRunEffect ==
  ASSUME TypeOK, NEW x \in Execs, NEW r \in Runs, NEW g \in Drawn \cup Ensembles,
         NewRun(x, r, g)
  PROVE  NewRunMove(x, r, g)
  <1> USE Typed
  <1> DEFINE kind == IF g \in Ensembles THEN "ensemble" ELSE "live"
             on == [Idle EXCEPT !.pc = "setup", !.run = r]
  <1>1. kind \in Kind
    BY DEF Kind
  <1>2. Create(r, kind, g)
    BY DEF NewRun
  <1>3. CreateMove(r, kind, g)
    <2> HIDE DEF kind
    <2> QED  BY <1>1, <1>2, CreateEffect
  <1>4. /\ on \in ExecRow /\ on.pc = "setup" /\ on.run = r /\ ~on.stop /\ on.wave = 0
        /\ ~on.file /\ on.write = "none"
        /\ \A n \in Nodes : on.got[n] = "none" /\ on.at[n] = "off"
    BY IdleTyped DEF ExecRow, Idle, ExecPc
  <1>5. /\ exec[x] = Idle /\ exec' = [exec EXCEPT ![x] = on]
        /\ UNCHANGED <<route, cleaner, batch>> /\ batch = NoBatch
    BY DEF NewRun, Place, Fresh
  <1> HIDE DEF on
  <1>6. exec'[x] = on /\ Others(x) /\ exec' \in [Execs -> ExecRow]
    BY <1>4, <1>5 DEF Others
  <1> QED  BY <1>3, <1>4, <1>5, <1>6 DEF NewRunMove, Begins

RestartMove(x, r, convert) ==
  /\ run[r].kind \notin {"none", "ensemble"}
  /\ convert => run[r].partial /\ ~run[r].ended
  /\ Retold(r, Busy(r), run[r].partial /\ ~convert)
  /\ Begins(x, "setup", r) /\ ~exec'[x].file
  /\ exec'[x].write = IF convert THEN Derive(step[r], FALSE) ELSE "none"
  /\ \A n \in Nodes : exec'[x].at[n] = "off"
  /\ UNCHANGED <<step, route, cleaner, batch>>

\* A run that exists is executed again.
LEMMA RestartEffect ==
  ASSUME TypeOK, NEW x \in Execs, NEW r \in Runs, NEW convert \in BOOLEAN,
         Restart(x, r, convert)
  PROVE  RestartMove(x, r, convert)
  <1> USE Typed
  <1> DEFINE busy == Busy(r)
             partial == run[r].partial /\ ~convert
             write == IF convert THEN Derive(step[r], FALSE) ELSE "none"
             on == [Idle EXCEPT !.pc = "setup", !.run = r, !.write = write]
  <1>1. /\ run[r].kind \notin {"none", "ensemble"}
        /\ convert => run[r].partial /\ ~run[r].ended
        /\ run' = [run EXCEPT ![r].loose = busy, ![r].partial = partial]
        /\ exec[x] = Idle /\ exec' = [exec EXCEPT ![x] = on]
        /\ UNCHANGED <<step, route, cleaner, batch>>
    BY DEF Restart, Place
  <1>2. busy \in BOOLEAN /\ partial \in BOOLEAN
    BY DEF Busy
  <1>3. write \in RunStatus \cup {"none"}
    BY Derived
  <1>4. Retold(r, busy, partial)
    <2> HIDE DEF busy, partial
    <2> QED  BY <1>1, <1>2, Retells
  <1> HIDE DEF write, busy, partial
  <1>5. /\ on \in ExecRow /\ on.pc = "setup" /\ on.run = r /\ ~on.stop /\ on.wave = 0
        /\ ~on.file /\ on.write = write
        /\ \A n \in Nodes : on.got[n] = "none" /\ on.at[n] = "off"
    BY <1>3, IdleTyped DEF ExecRow, Idle, ExecPc
  <1> HIDE DEF on
  <1>6. exec'[x] = on /\ Others(x) /\ exec' \in [Execs -> ExecRow]
    BY <1>1, <1>5 DEF Others
  <1> QED  BY <1>1, <1>4, <1>5, <1>6 DEF RestartMove, Begins, busy, partial, write

AskMove(x, r, n, q) ==
  /\ n \in run[r].graph.human /\ step[r][n] = "waiting"
  /\ Retold(r, Busy(r), run[r].partial)
  /\ Begins(x, "answer", r) /\ ~exec'[x].file /\ exec'[x].write = "none"
  /\ exec'[x].node = n /\ exec'[x].pick = q
  /\ \A m \in Nodes : exec'[x].at[m] = "off"
  /\ UNCHANGED <<step, route, cleaner, batch>>

\* A user answers.
LEMMA AskEffect ==
  ASSUME TypeOK, NEW x \in Execs, NEW r \in Runs, NEW n \in Nodes, NEW q \in Routes,
         Answer(x, r, n, q)
  PROVE  AskMove(x, r, n, q)
  <1> USE Typed
  <1> DEFINE busy == Busy(r)
             on == [Idle EXCEPT !.pc = "answer", !.run = r, !.node = n, !.pick = q]
  <1>1. /\ n \in run[r].graph.human /\ step[r][n] = "waiting"
        /\ run' = [run EXCEPT ![r].loose = busy]
        /\ exec[x] = Idle /\ exec' = [exec EXCEPT ![x] = on]
        /\ UNCHANGED <<step, route, cleaner, batch>>
    BY DEF Answer, Place
  <1>2. busy \in BOOLEAN
    BY DEF Busy
  <1>3. Retold(r, busy, run[r].partial)
    <2> HIDE DEF busy
    <2> QED  BY <1>1, <1>2, RetellsLoose
  <1> HIDE DEF busy
  <1>4. /\ on \in ExecRow /\ on.pc = "answer" /\ on.run = r /\ ~on.stop /\ on.wave = 0
        /\ ~on.file /\ on.write = "none" /\ on.node = n /\ on.pick = q
        /\ \A m \in Nodes : on.got[m] = "none" /\ on.at[m] = "off"
    BY IdleTyped DEF ExecRow, Idle, ExecPc
  <1> HIDE DEF on
  <1>5. exec'[x] = on /\ Others(x) /\ exec' \in [Execs -> ExecRow]
    BY <1>1, <1>4 DEF Others
  <1> QED  BY <1>1, <1>3, <1>4, <1>5 DEF AskMove, Begins, busy

SingleMove(x, r, n) ==
  /\ run[r].kind \notin {"none", "ensemble"} /\ n \in NodesOf(r)
  /\ Retold(r, run[r].loose \/ Busy(r), run[r].partial)
  /\ Begins(x, "single", r) /\ ~exec'[x].file /\ exec'[x].write = "none"
  /\ exec'[x].node = n
  /\ \A m \in Nodes : exec'[x].at[m] = IF m # n THEN "off"
                                        ELSE IF n \in run[r].graph.router THEN "start"
                                        ELSE "reset"
  /\ UNCHANGED <<step, route, cleaner, batch>>

\* A node is run by hand.
LEMMA SingleEffect ==
  ASSUME TypeOK, NEW x \in Execs, NEW r \in Runs, NEW n \in Nodes, SingleStep(x, r, n)
  PROVE  SingleMove(x, r, n)
  <1> USE Typed
  <1> DEFINE loose == run[r].loose \/ Busy(r)
             first == IF n \in run[r].graph.router THEN "start" ELSE "reset"
             at == [Idle.at EXCEPT ![n] = first]
             on == [Idle EXCEPT !.pc = "single", !.run = r, !.node = n, !.at = at]
  <1>1. /\ run[r].kind \notin {"none", "ensemble"} /\ n \in NodesOf(r)
        /\ run' = [run EXCEPT ![r].loose = loose]
        /\ exec[x] = Idle /\ exec' = [exec EXCEPT ![x] = on]
        /\ UNCHANGED <<step, route, cleaner, batch>>
    BY DEF SingleStep, Place
  <1>2. loose \in BOOLEAN
    BY DEF Busy
  <1>3. Retold(r, loose, run[r].partial)
    <2> HIDE DEF loose
    <2> QED  BY <1>1, <1>2, RetellsLoose
  <1>4. /\ at \in [Nodes -> NodePc]
        /\ \A m \in Nodes : at[m] = IF m # n THEN "off" ELSE first
    <2>1. first \in NodePc
      BY DEF NodePc
    <2> HIDE DEF first
    <2> QED  BY <2>1 DEF Idle, NodePc
  <1> HIDE DEF loose, at
  <1>5. /\ on \in ExecRow /\ on.pc = "single" /\ on.run = r /\ ~on.stop /\ on.wave = 0
        /\ ~on.file /\ on.write = "none" /\ on.node = n /\ on.at = at
        /\ \A m \in Nodes : on.got[m] = "none"
    BY <1>4, IdleTyped DEF ExecRow, Idle, ExecPc
  <1> HIDE DEF on
  <1>6. exec'[x] = on /\ Others(x) /\ exec' \in [Execs -> ExecRow]
    BY <1>1, <1>5 DEF Others
  <1> QED  BY <1>1, <1>3, <1>4, <1>5, <1>6 DEF SingleMove, Begins, loose

\* A new partial run, that nothing executes.
LEMMA PartialEffect ==
  ASSUME TypeOK, NEW r \in Runs, NEW g \in Drawn, NewPartial(r, g)
  PROVE  CreateMove(r, "single", g) /\ UNCHANGED <<route, exec, cleaner, batch>>
  <1>1. Create(r, "single", g) /\ UNCHANGED <<route, exec, cleaner, batch>>
    BY DEF NewPartial
  <1>2. "single" \in Kind
    BY DEF Kind
  <1> QED  BY <1>1, <1>2, CreateEffect

\* A batch is nothing but its counts, its verdict and its graph.
BatchFrame == UNCHANGED <<run, step, route, cleaner>> /\ batch' \in BatchRow

StartMove(n, g) ==
  /\ BatchFrame /\ UNCHANGED exec /\ batch = NoBatch /\ run[1] = NoRow
  /\ batch'.status = "running" /\ batch'.graph = g /\ batch'.total = n /\ batch'.due = n
  /\ batch'.completed = 0 /\ batch'.failed = 0 /\ ~batch'.stale /\ ~batch'.cleaned

\* A batch starts.
LEMMA StartEffect ==
  ASSUME TypeOK, NEW n \in Runs, NEW g \in Drawn, StartBatch(n, g)
  PROVE  StartMove(n, g)
  <1>1. n \in Nat
    BY DEF Runs
  <1>2. /\ batch' = [NoBatch EXCEPT !.status = "running", !.graph = g, !.total = n, !.due = n]
        /\ UNCHANGED <<run, step, route, exec, cleaner>> /\ batch = NoBatch /\ run[1] = NoRow
    BY DEF StartBatch, Fresh
  <1> QED  BY <1>1, <1>2 DEF StartMove, BatchFrame, BatchRow, NoBatch

\* The counts of a batch but for those that are named.
Uncounting(due, completed, failed) ==
  /\ batch'.graph = batch.graph /\ batch'.total = batch.total
  /\ batch'.due = due /\ batch'.completed = completed /\ batch'.failed = failed
  /\ batch'.cleaned = batch.cleaned

FileMove(x, r) ==
  /\ batch.due > 0 /\ batch' \in BatchRow
  /\ Uncounting(batch.due - 1, batch.completed, batch.failed) /\ batch'.status = batch.status
  /\ exec'[x].file /\ exec'[x].write = "none" /\ \A n \in Nodes : exec'[x].at[n] = "off"
  /\ \/ CreateMove(r, "file", batch.graph) /\ Begins(x, "setup", r) /\ exec'[x].ok
     \/ UNCHANGED <<run, step>> /\ Begins(x, "count", NoRun) /\ ~exec'[x].ok
  /\ UNCHANGED <<route, cleaner>>

\* A file's task begins, or fails at once.
LEMMA FileEffect ==
  ASSUME Base, NEW x \in Execs, NEW r \in Runs, FileTask(x, r)
  PROVE  FileMove(x, r)
  <1> USE Typed DEF Base
  <1> DEFINE on == [Idle EXCEPT !.pc = "setup", !.run = r, !.file = TRUE]
             lost == [Idle EXCEPT !.pc = "count", !.file = TRUE, !.ok = FALSE]
  <1>1. /\ exec[x] = Idle /\ batch.due > 0 /\ batch' = [batch EXCEPT !.due = @ - 1]
        /\ UNCHANGED <<route, cleaner>>
    BY DEF FileTask, Place
  <1>2. \/ Create(r, "file", batch.graph) /\ exec' = [exec EXCEPT ![x] = on]
        \/ exec' = [exec EXCEPT ![x] = lost] /\ UNCHANGED <<run, step>>
    BY DEF FileTask
  <1>3. /\ on \in ExecRow /\ on.pc = "setup" /\ on.run = r /\ ~on.stop /\ on.wave = 0
        /\ on.file /\ on.ok /\ on.write = "none"
        /\ \A n \in Nodes : on.got[n] = "none" /\ on.at[n] = "off"
    BY ZenonT(40), IdleTyped DEF ExecRow, Idle, ExecPc
  <1>4. /\ lost \in ExecRow /\ lost.pc = "count" /\ lost.run = NoRun /\ ~lost.stop
        /\ lost.wave = 0 /\ lost.file /\ ~lost.ok /\ lost.write = "none"
        /\ \A n \in Nodes : lost.got[n] = "none" /\ lost.at[n] = "off"
    BY ZenonT(40), IdleTyped DEF ExecRow, Idle, ExecPc
  <1> HIDE DEF on, lost
  <1>5. batch' \in BatchRow /\ Uncounting(batch.due - 1, batch.completed, batch.failed)
        /\ batch'.status = batch.status
    BY SMTT(30), <1>1 DEF BatchRow, Uncounting
  <1>6. CASE Create(r, "file", batch.graph) /\ exec' = [exec EXCEPT ![x] = on]
    <2>1. exec'[x] = on /\ Others(x) /\ exec' \in [Execs -> ExecRow]
      BY <1>3, <1>6 DEF Others
    <2>2. "file" \in Kind /\ batch.graph \in Drawn \cup Ensembles
      BY <1>1 DEF Kind
    <2>3. CreateMove(r, "file", batch.graph)
      BY <1>6, <2>2, CreateEffect
    <2> QED  BY <1>1, <1>3, <1>5, <2>1, <2>3 DEF FileMove, Begins
  <1>7. CASE exec' = [exec EXCEPT ![x] = lost] /\ UNCHANGED <<run, step>>
    <2>1. exec'[x] = lost /\ Others(x) /\ exec' \in [Execs -> ExecRow]
      BY <1>4, <1>7 DEF Others
    <2> QED  BY <1>1, <1>4, <1>5, <1>7, <2>1 DEF FileMove, Begins
  <1> QED  BY <1>2, <1>6, <1>7

CountMove(x) ==
  LET e == exec[x]
      f == exec'[x] IN
  /\ BatchFrame /\ exec' \in [Execs -> ExecRow] /\ Others(x)
  /\ e.pc = "count" /\ f.pc = "check" /\ f.run = e.run /\ f.file = e.file /\ f.ok = e.ok
  /\ f.write = e.write /\ f.at = e.at /\ f.stop = e.stop
  /\ IF e.ok THEN Uncounting(batch.due, batch.completed + 1, batch.failed)
     ELSE Uncounting(batch.due, batch.completed, batch.failed + 1)
  /\ batch'.status = batch.status

\* A file is counted.
LEMMA CountEffect ==
  ASSUME Base, NEW x \in Execs, CountFile(x)
  PROVE  CountMove(x)
  <1> USE Typed DEF Base
  <1> DEFINE e == exec[x]
             on == [e EXCEPT !.pc = "check"]
  <1>1. /\ e \in ExecRow /\ e.pc = "count" /\ exec' = [exec EXCEPT ![x] = on]
        /\ UNCHANGED <<run, step, route, cleaner>>
        /\ batch' = IF e.ok THEN [batch EXCEPT !.completed = @ + 1]
                    ELSE [batch EXCEPT !.failed = @ + 1]
    BY DEF CountFile, At
  <1>2. /\ on \in ExecRow /\ on.pc = "check" /\ on.run = e.run /\ on.file = e.file
        /\ on.ok = e.ok /\ on.write = e.write /\ on.at = e.at /\ on.stop = e.stop
    BY <1>1 DEF ExecRow, ExecPc
  <1> HIDE DEF on
  <1>3. exec'[x] = on /\ Others(x) /\ exec' \in [Execs -> ExecRow]
    BY <1>1, <1>2 DEF Others
  <1>4. /\ batch' \in BatchRow /\ batch'.status = batch.status
        /\ IF e.ok THEN Uncounting(batch.due, batch.completed + 1, batch.failed)
           ELSE Uncounting(batch.due, batch.completed, batch.failed + 1)
    BY SMTT(30), <1>1 DEF BatchRow, Uncounting
  <1> QED  BY <1>1, <1>2, <1>3, <1>4 DEF CountMove, BatchFrame

CheckMove(x) ==
  /\ BatchFrame /\ exec' \in [Execs -> ExecRow] /\ Others(x)
  /\ exec[x].pc = "check" /\ exec'[x] = Idle
  /\ Uncounting(batch.due, batch.completed, batch.failed)
  /\ \/ batch.completed + batch.failed < batch.total /\ batch'.status = batch.status
     \/ /\ batch.completed + batch.failed >= batch.total
        /\ batch'.status = IF batch.failed > 0 THEN "failed" ELSE "completed"

\* A file's task asks whether the batch is over.
LEMMA CheckEffect ==
  ASSUME Base, NEW x \in Execs, CheckBatch(x)
  PROVE  CheckMove(x)
  <1> USE Typed DEF Base
  <1> DEFINE done == IF batch.failed > 0 THEN "failed" ELSE "completed"
  <1>1. /\ exec[x].pc = "check" /\ exec' = [exec EXCEPT ![x] = Idle]
        /\ UNCHANGED <<run, step, route, cleaner>>
        /\ batch' = IF batch.completed + batch.failed < batch.total THEN batch
                    ELSE [batch EXCEPT !.status = done]
    BY DEF CheckBatch, At
  <1>2. exec'[x] = Idle /\ Others(x) /\ exec' \in [Execs -> ExecRow]
    BY <1>1, IdleTyped DEF Others
  <1>3. done \in {"failed", "completed"}
    OBVIOUS
  <1>4. CASE batch.completed + batch.failed < batch.total
    BY <1>1, <1>2, <1>4 DEF CheckMove, BatchFrame, Uncounting
  <1>5. CASE batch.completed + batch.failed >= batch.total
    <2> HIDE DEF done
    <2>1. batch' = [batch EXCEPT !.status = done]
      BY <1>1, <1>5 DEF BatchRow
    <2>2. /\ batch' \in BatchRow /\ batch'.status = done
          /\ Uncounting(batch.due, batch.completed, batch.failed)
      BY <1>3, <2>1 DEF BatchRow, Uncounting
    <2> QED  BY <1>1, <1>2, <1>5, <2>2 DEF CheckMove, BatchFrame, done
  <1> QED  BY <1>4, <1>5 DEF BatchRow

CleanedMove ==
  /\ BatchFrame /\ UNCHANGED exec
  /\ batch'.graph = batch.graph /\ batch'.total = batch.total
  /\ batch'.due = batch.due /\ batch'.completed = batch.completed
  /\ batch'.failed = batch.failed
  /\ \/ batch'.status = batch.status /\ batch'.cleaned = batch.cleaned
     \/ batch'.status = "failed" /\ batch'.cleaned

\* A stale batch is failed.
LEMMA CleanedEffect ==
  ASSUME Base, CleanBatch
  PROVE  CleanedMove
  <1> USE Typed DEF Base
  <1>1. UNCHANGED <<run, step, route, exec, cleaner>>
    BY DEF CleanBatch
  <1>2. \/ batch' = [batch EXCEPT !.stale = TRUE]
        \/ batch' = [batch EXCEPT !.status = "failed", !.stale = FALSE, !.cleaned = TRUE]
    BY DEF CleanBatch
  <1> QED  BY ZenonT(60), <1>1, <1>2 DEF CleanedMove, BatchFrame, BatchRow

CleanMove(r) ==
  /\ cleaner = NoRun /\ cleaner' = r
  /\ run[r].kind \notin {"none", "ensemble"} /\ run[r].status = "running"
  /\ step' \in [Runs -> Rows] /\ step'[r] = FailOpen(step[r])
  /\ \A q \in Runs \ {r} : step'[q] = step[q]
  /\ Retold(r, run[r].loose \/ Busy(r), run[r].partial)
  /\ UNCHANGED <<route, exec, batch>>

\* The open steps of a stale run are failed,
LEMMA CleanEffect ==
  ASSUME Base, NEW r \in Runs, CleanRun(r)
  PROVE  CleanMove(r)
  <1> USE Typed DEF Base
  <1> DEFINE loose == run[r].loose \/ Busy(r)
             row == FailOpen(step[r])
  <1>1. /\ cleaner = NoRun /\ cleaner' = r
        /\ run[r].kind \notin {"none", "ensemble"} /\ run[r].status = "running"
        /\ step' = [step EXCEPT ![r] = row] /\ run' = [run EXCEPT ![r].loose = loose]
        /\ UNCHANGED <<route, exec, batch>>
    BY DEF CleanRun
  <1>2. loose \in BOOLEAN
    BY DEF Busy
  <1>3. Retold(r, loose, run[r].partial)
    <2> HIDE DEF loose
    <2> QED  BY <1>1, <1>2, RetellsLoose
  <1>4. row \in Rows
    BY FailedOpen
  <1> HIDE DEF row, loose
  <1>5. step' \in [Runs -> Rows] /\ step'[r] = row /\ \A q \in Runs \ {r} : step'[q] = step[q]
    BY <1>1, <1>4
  <1> QED  BY <1>1, <1>3, <1>5 DEF CleanMove, loose, row

CleanEndMove ==
  /\ cleaner \in Runs /\ cleaner' = NoRun /\ UNCHANGED <<step, route, exec, batch>>
  /\ run' \in [Runs -> RunRow] /\ \A q \in Runs \ {cleaner} : run'[q] = run[q]
  /\ run'[cleaner].kind = run[cleaner].kind /\ run'[cleaner].graph = run[cleaner].graph
  /\ run'[cleaner].partial = run[cleaner].partial /\ run'[cleaner].loose = run[cleaner].loose
  /\ run'[cleaner].stopped = run[cleaner].stopped /\ run'[cleaner].passed = run[cleaner].passed
  /\ run'[cleaner].status = "failed" /\ run'[cleaner].ended

\* and then the run is.
LEMMA CleanEndEffect ==
  ASSUME Base, CleanEnd
  PROVE  CleanEndMove
  <1> USE Typed DEF Base
  <1> DEFINE new == [run[cleaner] EXCEPT !.status = "failed", !.ended = TRUE]
  <1>1. /\ cleaner \in Runs /\ cleaner' = NoRun /\ UNCHANGED <<step, route, exec, batch>>
        /\ run' = [run EXCEPT ![cleaner] = new]
    BY DEF CleanEnd
  <1>2. run[cleaner] \in RunRow
    BY <1>1
  <1>3. /\ new \in RunRow /\ new.kind = run[cleaner].kind /\ new.graph = run[cleaner].graph
        /\ new.partial = run[cleaner].partial /\ new.loose = run[cleaner].loose
        /\ new.stopped = run[cleaner].stopped /\ new.passed = run[cleaner].passed
        /\ new.status = "failed" /\ new.ended
    BY <1>2 DEF RunRow, RunStatus
  <1> HIDE DEF new
  <1>4. /\ run' \in [Runs -> RunRow] /\ run'[cleaner] = new
        /\ \A q \in Runs \ {cleaner} : run'[q] = run[q]
    BY <1>1, <1>3
  <1> QED  BY <1>1, <1>3, <1>4 DEF CleanEndMove

\* Executions are lost, with files that are not begun: their runs tell of it.
LossMove ==
  /\ exec' \in [Execs -> ExecRow] /\ run' \in [Runs -> RunRow] /\ batch' \in BatchRow
  /\ UNCHANGED <<step, route, cleaner>>
  /\ \A y \in Execs : exec'[y] = exec[y] \/ exec'[y] = Idle
  /\ \A r \in Runs : /\ run'[r].kind = run[r].kind /\ run'[r].graph = run[r].graph
                     /\ run'[r].status = run[r].status /\ run'[r].partial = run[r].partial
                     /\ run'[r].ended = run[r].ended /\ run'[r].stopped = run[r].stopped
                     /\ run'[r].passed = run[r].passed
                     /\ run'[r] = run[r] \/ \E y \in Execs : exec[y].run = r
                     /\ run'[r].loose <=>
                          run[r].loose \/ \E y \in Execs : exec[y].run = r /\ exec'[y] # exec[y]
  /\ batch'.graph = batch.graph /\ batch'.total = batch.total /\ batch'.status = batch.status
  /\ batch'.completed = batch.completed /\ batch'.failed = batch.failed
  /\ batch'.cleaned = batch.cleaned
  /\ batch'.due \in {0, batch.due}

\* A server dies.
LEMMA KillEffect ==
  ASSUME Base, NEW x \in Execs, Kill(x)
  PROVE  LossMove
  <1> USE Typed DEF Base
  <1> DEFINE lost == IF exec[x].file THEN {y \in Execs : exec[y].file} ELSE {x}
  <1>1. /\ exec[x] # Idle /\ UNCHANGED <<step, route, cleaner>>
        /\ exec' = [y \in Execs |-> IF y \in lost THEN Idle ELSE exec[y]]
        /\ run' = [r \in Runs |->
             IF \E y \in lost : exec[y].run = r THEN [run[r] EXCEPT !.loose = TRUE] ELSE run[r]]
        /\ batch' = IF exec[x].file THEN [batch EXCEPT !.due = 0, !.lost = TRUE] ELSE batch
    BY DEF Kill
  <1>2. x \in lost /\ lost \subseteq Execs
    OBVIOUS
  <1>4. /\ batch' \in BatchRow
        /\ batch'.graph = batch.graph /\ batch'.total = batch.total /\ batch'.status = batch.status
        /\ batch'.completed = batch.completed /\ batch'.failed = batch.failed
        /\ batch'.cleaned = batch.cleaned
        /\ batch'.due \in {0, batch.due}
    BY <1>1 DEF BatchRow
  <1> HIDE DEF lost
  <1>5. /\ exec' \in [Execs -> ExecRow]
        /\ \A y \in Execs : exec'[y] = IF y \in lost THEN Idle ELSE exec[y]
    BY <1>1, IdleTyped
  <1>6. ASSUME NEW r \in Runs
        PROVE  /\ run'[r] \in RunRow
               /\ run'[r].kind = run[r].kind /\ run'[r].graph = run[r].graph
               /\ run'[r].status = run[r].status /\ run'[r].partial = run[r].partial
               /\ run'[r].ended = run[r].ended /\ run'[r].stopped = run[r].stopped
               /\ run'[r].passed = run[r].passed
               /\ run'[r] = run[r] \/ \E y \in Execs : exec[y].run = r
               /\ run'[r].loose <=> run[r].loose \/ \E y \in lost : exec[y].run = r
    <2>1. run[r] \in RunRow
      OBVIOUS
    <2>2. CASE \E y \in lost : exec[y].run = r
      <3>1. run'[r] = [run[r] EXCEPT !.loose = TRUE]
        BY <1>1, <2>2
      <3> QED  BY <1>2, <2>1, <2>2, <3>1 DEF RunRow
    <2>3. CASE ~ \E y \in lost : exec[y].run = r
      <3>1. run'[r] = run[r]
        BY <1>1, <2>3
      <3> QED  BY <2>1, <2>3, <3>1
    <2> QED  BY <2>2, <2>3
  <1>7. run' \in [Runs -> RunRow]
    <2>1. DOMAIN run' = Runs /\ run' = [r \in Runs |-> run'[r]]
      BY <1>1
    <2> QED  BY <1>6, <2>1
  <1>8. ASSUME NEW r \in Runs, NEW y \in lost, exec[y].run = r
        PROVE  exec'[y] # exec[y]
    BY <1>2, <1>5, <1>8 DEF Idle, NoRun, Runs
  <1>9. ASSUME NEW r \in Runs
        PROVE  (\E y \in lost : exec[y].run = r)
                 <=> \E y \in Execs : exec[y].run = r /\ exec'[y] # exec[y]
    BY <1>2, <1>5, <1>8
  <1> QED  BY <1>1, <1>4, <1>5, <1>6, <1>7, <1>9 DEF LossMove

\* One execution is lost, and its run, if it is on one, tells of it.
LEMMA DropEffect ==
  ASSUME Base, NEW x \in Execs, exec[x].pc # "idle", exec' = [exec EXCEPT ![x] = Idle],
         run' = IF exec[x].run = NoRun THEN run ELSE [run EXCEPT ![exec[x].run].loose = TRUE],
         batch' \in BatchRow, batch'.graph = batch.graph, batch'.total = batch.total,
         batch'.status = batch.status, batch'.completed = batch.completed,
         batch'.failed = batch.failed, batch'.cleaned = batch.cleaned,
         batch'.due = batch.due, UNCHANGED <<step, route, cleaner>>
  PROVE  LossMove
  <1> USE Typed DEF Base
  <1>1. /\ exec' \in [Execs -> ExecRow] /\ exec'[x] = Idle /\ exec[x] # Idle
        /\ \A y \in Execs \ {x} : exec'[y] = exec[y]
    BY IdleTyped DEF Idle
  <1>2. exec[x].run \in Runs \cup {NoRun}
    BY DEF ExecRow
  <1>3. ASSUME NEW r \in Runs
        PROVE  (\E y \in Execs : exec[y].run = r /\ exec'[y] # exec[y]) <=> exec[x].run = r
    BY <1>1
  <1>4. ASSUME NEW r \in Runs
        PROVE  /\ run'[r] \in RunRow
               /\ run'[r].kind = run[r].kind /\ run'[r].graph = run[r].graph
               /\ run'[r].status = run[r].status /\ run'[r].partial = run[r].partial
               /\ run'[r].ended = run[r].ended /\ run'[r].stopped = run[r].stopped
               /\ run'[r].passed = run[r].passed
               /\ run'[r] = run[r] \/ exec[x].run = r
               /\ run'[r].loose <=> run[r].loose \/ exec[x].run = r
    <2>1. run[r] \in RunRow /\ r # NoRun
      BY DEF Runs, NoRun
    <2>2. CASE exec[x].run = r
      <3>1. run'[r] = [run[r] EXCEPT !.loose = TRUE]
        BY <2>1, <2>2
      <3> QED  BY <2>1, <2>2, <3>1 DEF RunRow
    <2>3. CASE exec[x].run # r
      <3>1. run'[r] = run[r]
        BY <1>2, <2>3
      <3> QED  BY <2>1, <2>3, <3>1
    <2> QED  BY <2>2, <2>3
  <1>5. run' \in [Runs -> RunRow]
    <2>1. DOMAIN run' = Runs /\ run' = [r \in Runs |-> run'[r]]
      BY <1>2
    <2> QED  BY <1>4, <2>1
  <1> QED  BY <1>1, <1>3, <1>4, <1>5 DEF LossMove

\* An execution ends where nothing would make its run good,
LEMMA AbandonEffect ==
  ASSUME Base, NEW x \in Execs, Abandon(x)
  PROVE  LossMove
  <1>1. /\ exec[x].pc # "idle" /\ exec' = [exec EXCEPT ![x] = Idle]
        /\ run' = IF exec[x].run = NoRun THEN run ELSE [run EXCEPT ![exec[x].run].loose = TRUE]
        /\ batch' = [batch EXCEPT !.lost = @ \/ exec[x].file]
        /\ UNCHANGED <<step, route, cleaner>>
    BY DEF Abandon
  <1>2. batch \in BatchRow
    BY Typed DEF Base
  <1>3. /\ batch' \in BatchRow /\ batch'.graph = batch.graph /\ batch'.total = batch.total
        /\ batch'.status = batch.status /\ batch'.completed = batch.completed
        /\ batch'.failed = batch.failed /\ batch'.cleaned = batch.cleaned
        /\ batch'.due = batch.due
    <2> DEFINE lost == batch.lost \/ exec[x].file
    <2>1. lost \in BOOLEAN /\ batch' = [batch EXCEPT !.lost = lost]
      BY <1>1, <1>2 DEF BatchRow
    <2> HIDE DEF lost
    <2> QED  BY <1>2, <2>1 DEF BatchRow
  <1> QED  BY <1>1, <1>3, DropEffect

\* a router run by hand fails,
LEMMA LeftEffect ==
  ASSUME Base, NEW x \in Execs, SingleEnd(x), Left(x)
  PROVE  LossMove
  <1>1. /\ exec[x].pc = "single" /\ exec' = [exec EXCEPT ![x] = Idle]
        /\ run' = [run EXCEPT ![exec[x].run].loose = TRUE]
        /\ UNCHANGED <<step, route, cleaner, batch>>
    BY DEF SingleEnd, At, Left, GraphOf
  <1>2. exec[x].run # NoRun
    BY <1>1 DEF Base, ExecOK, OnRun, Runs, NoRun
  <1>3. batch \in BatchRow
    BY Typed DEF Base
  <1> QED  BY <1>1, <1>2, <1>3, DropEffect

\* or the files of a batch are lost before one has begun.
LEMMA LostEffect ==
  ASSUME Base, LoseBatch
  PROVE  LossMove
  <1> USE Typed DEF Base
  <1>1. UNCHANGED <<run, step, route, exec, cleaner>> /\ batch' = [batch EXCEPT !.due = 0, !.lost = TRUE]
    BY DEF LoseBatch
  <1>2. /\ batch' \in BatchRow /\ batch'.graph = batch.graph /\ batch'.total = batch.total
        /\ batch'.status = batch.status /\ batch'.completed = batch.completed
        /\ batch'.failed = batch.failed /\ batch'.cleaned = batch.cleaned
        /\ batch'.due \in {0, batch.due}
    BY <1>1 DEF BatchRow
  <1> QED  BY <1>1, <1>2 DEF LossMove

-----------------------------------------------------------------------------
(* Every step of the system, by its effect.                                  *)

\* What happened is counted within its bound.
LEMMA EventsTyped ==
  ASSUME TypeOK, Next
  PROVE  events' \in 0 .. MaxEvents
  <1>1. MaxEvents \in Nat /\ events \in 0 .. MaxEvents
    BY Typed, WorkflowsAssumption
  <1>2. MayHappen => events' \in 0 .. MaxEvents
    BY <1>1 DEF MayHappen
  <1>3. CASE \E x \in Execs : Goes(x)
    <2>1. PICK x \in Execs : Goes(x)
      BY SMTT(30), <1>3
    <2>2. UNCHANGED events \/ MayHappen
      BY <2>1 DEF Goes, Begin, Commit, TakeAnswer, LoadResults, Plan, NodeGoes, NodeReset, NodeStart,
                  NodeDone, FailLate, Decide, Final, SingleEnd, MarkStopped, Leave, CountFile,
                  CheckBatch
    <2> QED  BY <1>1, <1>2, <2>2
  <1>4. CASE \E x \in Execs, r \in Runs : FileTask(x, r)
    BY <1>1, <1>2, <1>4 DEF FileTask
  <1>5. CASE CleanEnd \/ CleanBatch
    BY SMTT(30), <1>1, <1>2, <1>5 DEF CleanEnd, CleanBatch
  <1>6. CASE Requests
    <2>1. CASE \E x \in Execs, r \in Runs, g \in Drawn \cup Ensembles : NewRun(x, r, g)
      BY <1>1, <2>1 DEF NewRun
    <2>2. CASE \E x \in Execs, r \in Runs, convert \in BOOLEAN : Restart(x, r, convert)
      BY <1>2, <2>2 DEF Restart
    <2>3. CASE \E x \in Execs, r \in Runs, n \in Nodes, q \in Routes : Answer(x, r, n, q)
      BY <1>2, <2>3 DEF Answer
    <2>4. CASE \E x \in Execs, r \in Runs, n \in Nodes : SingleStep(x, r, n)
      BY <1>2, <2>4 DEF SingleStep
    <2>5. CASE \E r \in Runs, g \in Drawn : NewPartial(r, g)
      BY <1>1, <2>5 DEF NewPartial
    <2>6. CASE \E n \in Runs, g \in Drawn : StartBatch(n, g)
      BY <1>1, <2>6 DEF StartBatch
    <2> QED  BY <1>6, <2>1, <2>2, <2>3, <2>4, <2>5, <2>6 DEF Requests
  <1>7. CASE Troubles
    BY <1>2, <1>7 DEF Troubles, Break, Stop, Abandon, Kill, NodeFails, TimeOut, LoseBatch,
                      CleanRun
  <1> QED  BY <1>3, <1>4, <1>5, <1>6, <1>7 DEF Next, Tasks

\* An execution goes on, in its rows and in itself.
Walks(x) ==
  \/ AnswerMove(x) \/ LoadMove(x) \/ PlanMove(x) \/ DecideMove(x) \/ FinalMove(x)
  \/ EndMove(x) \/ StoppedMove(x) \/ BreakMove(x) \/ StopMove(x) \/ BeginMove(x)
  \/ \E n \in Nodes : (NodeStep(x, n) /\ NodeMove(x, n)) \/ LateMove(x, n)

\* An execution begins,
Starts(x) ==
  \E r \in Runs :
    \/ \E g \in Drawn \cup Ensembles : NewRunMove(x, r, g)
    \/ \E convert \in BOOLEAN : RestartMove(x, r, convert)
    \/ \E n \in Nodes, q \in Routes : AskMove(x, r, n, q)
    \/ \E n \in Nodes : SingleMove(x, r, n)
    \/ FileMove(x, r)

\* or something else moves.
Else ==
  \/ \E r \in Runs, g \in Drawn : CreateMove(r, "single", g) /\ UNCHANGED <<route, exec, cleaner, batch>>
  \/ \E n \in Runs, g \in Drawn : StartMove(n, g)
  \/ CleanedMove \/ CleanEndMove
  \/ \E r \in Runs : CleanMove(r)

Move ==
  \/ \E x \in Execs : \/ Walks(x) \/ Starts(x) \/ CommitMove(x) \/ CountMove(x)
                      \/ CheckMove(x)
  \/ LossMove \/ Else

\* Every step is one of these.
LEMMA Moves ==
  ASSUME Base, Next
  PROVE  Move
  <1>0. TypeOK
    BY DEF Base
  <1>1. CASE \E x \in Execs : Goes(x)
    <2>1. PICK x \in Execs : Goes(x)
      BY <1>1
    <2>2. CASE \E n \in Nodes : NodeGoes(x, n)
      BY <2>2, NodeEffect DEF Move, Walks
    <2>3. CASE TakeAnswer(x) \/ LoadResults(x) \/ Plan(x) \/ Decide(x) \/ Final(x)
      BY <2>3, AnswerEffect, LoadEffect, PlanEffect, DecideEffect, FinalEffect DEF Move, Walks
    <2>4. CASE SingleEnd(x) \/ Leave(x) \/ MarkStopped(x) \/ Begin(x)
      BY <2>4, EndEffect, LeftEffect, StoppedEffect, BeginEffect DEF Move, Walks
    <2>5. CASE Commit(x) \/ CountFile(x) \/ CheckBatch(x)
      BY <2>5, CommitEffect, CountEffect, CheckEffect DEF Move
    <2> QED  BY <2>1, <2>2, <2>3, <2>4, <2>5 DEF Goes
  <1>2. CASE \E x \in Execs, r \in Runs : FileTask(x, r)
    BY <1>2, FileEffect DEF Move, Starts
  <1>3. CASE CleanEnd \/ CleanBatch
    BY <1>3, CleanEndEffect, CleanedEffect DEF Move, Else
  <1>4. CASE \E x \in Execs, r \in Runs :
               \/ \E g \in Drawn \cup Ensembles : NewRun(x, r, g)
               \/ \E convert \in BOOLEAN : Restart(x, r, convert)
    BY <1>0, <1>4, NewRunEffect, RestartEffect DEF Move, Starts
  <1>5. CASE \E x \in Execs, r \in Runs :
               \/ \E n \in Nodes, q \in Routes : Answer(x, r, n, q)
               \/ \E n \in Nodes : SingleStep(x, r, n)
    BY <1>0, <1>5, AskEffect, SingleEffect DEF Move, Starts
  <1>6. CASE \/ \E r \in Runs, g \in Drawn : NewPartial(r, g)
             \/ \E n \in Runs, g \in Drawn : StartBatch(n, g)
    BY <1>0, <1>6, PartialEffect, StartEffect DEF Move, Else
  <1>7. CASE LoseBatch \/ \E x \in Execs : Break(x) \/ Stop(x) \/ Abandon(x) \/ Kill(x)
    BY <1>7, BreakEffect, StopEffect, AbandonEffect, KillEffect, LostEffect DEF Move, Walks
  <1>8. CASE \E x \in Execs, n \in Nodes : NodeFails(x, n) \/ TimeOut(x, n)
    BY <1>8, NodeEffect, LateEffect DEF Move, Walks
  <1>9. CASE \E r \in Runs : CleanRun(r)
    BY <1>9, CleanEffect DEF Move, Else
  <1> QED  BY <1>1, <1>2, <1>3, <1>4, <1>5, <1>6, <1>7, <1>8, <1>9
             DEF Next, Tasks, Requests, Troubles

-----------------------------------------------------------------------------
(* The base is kept.                                                         *)

\* What a run is executed as does not change.
KindsKept ==
  \A r \in Runs : run[r].kind # "none" =>
    run'[r].kind = run[r].kind /\ run'[r].graph = run[r].graph

\* An execution nothing moves is what it was.
LEMMA OthersOK ==
  ASSUME Base, KindsKept, NEW y \in Execs, exec'[y] = exec[y]
  PROVE  ExecOK(y)' /\ AtOK(y)'
  <1>1. ExecOK(y) /\ AtOK(y)
    BY DEF Base
  <1>2. CASE OnRun(y)
    <2>1. /\ exec[y].run \in Runs /\ OnRun(y)'
          /\ run'[exec[y].run].kind = run[exec[y].run].kind
          /\ run'[exec[y].run].graph = run[exec[y].run].graph
      BY <1>1, <1>2 DEF ExecOK, OnRun, KindsKept
    <2>2. GraphOf(y)' = GraphOf(y)
      BY <2>1 DEF GraphOf
    <2>3. \A n \in Nodes : WaveOf(y, n)' = WaveOf(y, n)
      BY <2>2 DEF WaveOf
    <2>4. ExecOK(y)'
      BY <1>1, <1>2, <2>1, <2>2 DEF ExecOK, OnRun
    <2>5. AtOK(y)'
      BY <1>1, <1>2, <2>1, <2>2, <2>3 DEF AtOK
    <2> QED  BY <2>4, <2>5
  <1>3. CASE ~OnRun(y)
    <2>1. \A n \in Nodes : exec[y].at[n] = "off"
      BY <1>1, <1>3 DEF AtOK
    <2>2. ExecOK(y)'
      BY <1>1, <1>3 DEF ExecOK, OnRun, Stopping
    <2>3. AtOK(y)'
      BY <1>3, <2>1 DEF AtOK, OnRun, Stopping
    <2> QED  BY <2>2, <2>3
  <1> QED  BY <1>2, <1>3

\* So are the rows of a run.
LEMMA RowsKept ==
  ASSUME NEW r \in Runs, RowsOK(r), step'[r] = step[r], route'[r] = route[r],
         run'[r] = run[r] \/ (/\ run[r].kind # "none" /\ run'[r].kind = run[r].kind
                              /\ run'[r].graph = run[r].graph)
  PROVE  RowsOK(r)'
  BY DEF RowsOK, NodesOf

\* An idle execution is all right.
LEMMA IdleOK ==
  ASSUME NEW x \in Execs, exec'[x] = Idle
  PROVE  ExecOK(x)' /\ AtOK(x)'
  BY DEF ExecOK, AtOK, OnRun, Idle, Stopping, Walking

\* What the graph of an execution is.
LEMMA GraphKnown ==
  ASSUME Base, NEW x \in Execs, OnRun(x)
  PROVE  /\ GraphOf(x) \in Drawn \cup Ensembles
         /\ GraphOf(x).human \subseteq GraphOf(x).router
         /\ GraphOf(x).router \subseteq GraphOf(x).nodes
         /\ run[exec[x].run].kind = "ensemble" => GraphOf(x).router = {}
  BY SMTT(30), GraphsAssumption, WorkflowsAssumption DEF Base, ExecOK, RowsOK, GraphOf

\* A beginning, an answer, the results, an exception, the end.
LEMMA EasyOK ==
  ASSUME Base, NEW x \in Execs, NEW r \in Runs, r = exec[x].run,
         BeginMove(x) \/ AnswerMove(x) \/ LoadMove(x) \/ BreakMove(x) \/ EndMove(x)
  PROVE  ExecOK(x)' /\ AtOK(x)' /\ RowsOK(r)'
  <1>1. /\ ExecOK(x) /\ AtOK(x) /\ RowsOK(r) /\ OnRun(x) /\ UNCHANGED run
        /\ run[r].kind # "none"
    BY DEF Base, BeginMove, AnswerMove, LoadMove, BreakMove, EndMove, Steps, ExecOK
  <1>2. CASE AnswerMove(x) /\ exec'[x] # Idle
    <2>1. /\ exec'[x].pc = "load" /\ exec'[x].run = r /\ ~exec'[x].file /\ ~exec'[x].stop
          /\ \A n \in Nodes : exec'[x].at[n] = "off"
          /\ exec[x].pc = "answer" /\ step'[r] = [step[r] EXCEPT ![exec[x].node] = "completed"]
          /\ route'[r] = [route[r] EXCEPT ![exec[x].node] = exec[x].pick]
      BY <1>2 DEF AnswerMove
    <2>2. exec[x].node \in run[r].graph.human /\ exec[x].pick \in Routes
      BY <1>1, <2>1 DEF ExecOK, GraphOf
    <2>3. run[r].graph.human \subseteq run[r].graph.nodes
      BY <1>1, GraphKnown DEF GraphOf
    <2>4. ExecOK(x)' /\ AtOK(x)'
      BY <1>1, <2>1 DEF ExecOK, AtOK, OnRun, Stopping, Walking
    <2>5. /\ step[r] \in [Nodes -> StepStatus] /\ route[r] \in [Nodes -> Routes \cup {Plain}]
      BY SMTT(30), Typed DEF Base, Rows
    <2>6. RowsOK(r)'
      BY <1>1, <2>1, <2>2, <2>3, <2>5 DEF RowsOK, NodesOf
    <2> QED  BY <2>4, <2>6
  <1>3. CASE exec'[x] = Idle
    <2>1. UNCHANGED <<step, route>>
      BY <1>3 DEF BeginMove, AnswerMove, LoadMove, BreakMove, EndMove, Idle
    <2>2. RowsOK(r)'
      BY SMTT(30), <1>1, <2>1, RowsKept
    <2> QED  BY <1>3, <2>2, IdleOK
  <1>4. CASE BeginMove(x) \/ LoadMove(x) \/ BreakMove(x)
    <2>1. /\ exec'[x].pc \in {"load", "plan", "final"} /\ exec'[x].run = r
          /\ exec'[x].file = exec[x].file
          /\ exec'[x].stop = exec[x].stop /\ exec'[x].at = exec[x].at
          /\ exec[x].pc \in {"setup", "load", "plan"} /\ UNCHANGED <<step, route>>
      BY <1>4 DEF BeginMove, LoadMove, BreakMove, Stays
    <2>2. \A n \in Nodes : exec'[x].at[n] = "off"
      BY <1>1, <2>1 DEF AtOK
    <2>3. ExecOK(x)' /\ AtOK(x)'
      BY <1>1, <2>1, <2>2 DEF ExecOK, AtOK, OnRun, Stopping, Walking
    <2>4. RowsOK(r)'
      BY <1>1, <2>1, RowsKept
    <2> QED  BY <2>3, <2>4
  <1> QED  BY <1>2, <1>3, <1>4 DEF EndMove

\* A wave is planned.
LEMMA PlanOK ==
  ASSUME Base, NEW x \in Execs, NEW r \in Runs, r = exec[x].run, PlanMove(x)
  PROVE  ExecOK(x)' /\ AtOK(x)' /\ RowsOK(r)'
  <1>1. /\ ExecOK(x) /\ AtOK(x) /\ RowsOK(r) /\ OnRun(x) /\ UNCHANGED <<run, route>>
        /\ run[r].kind # "none"
    BY DEF Base, PlanMove, Steps, ExecOK
  <1>2. /\ exec[x].pc = "plan" /\ exec'[x].pc \in {"plan", "nodes", "final"} /\ exec'[x].run = r
        /\ exec'[x].file = exec[x].file /\ exec'[x].stop = exec[x].stop
    BY DEF PlanMove, Stays
  <1>3. ExecOK(x)'
    BY SMTT(30), <1>1, <1>2 DEF ExecOK, OnRun, Stopping, Walking
  <1>4. ASSUME NEW n \in Nodes
        PROVE  /\ exec'[x].at[n] \in {"off", "start"}
               /\ exec'[x].at[n] = "start" => /\ exec'[x].pc = "nodes" /\ n \in run[r].graph.nodes
                                              /\ WaveOf(x, n) = exec'[x].wave
                                              /\ exec'[x].got[n] \in {"none", "skipped"}
    BY DEF PlanMove, Ready, Skips, Due, InWave, NodesOf, WaveOf, GraphOf
  <1>5. WaveOf(x, 0)' = WaveOf(x, 0) /\ \A n \in Nodes : WaveOf(x, n)' = WaveOf(x, n)
    BY <1>1, <1>2 DEF WaveOf, GraphOf
  <1>6. AtOK(x)'
    BY <1>1, <1>2, <1>4, <1>5 DEF AtOK, OnRun, Stopping, GraphOf, Routes
  <1>7. \A n \in Nodes : \/ step'[r][n] = step[r][n]
                         \/ step[r][n] # "absent" /\ step'[r][n] = "skipped"
    BY DEF PlanMove
  <1>8. RowsOK(r)'
    BY <1>1, <1>7 DEF RowsOK, NodesOf
  <1> QED  BY <1>3, <1>6, <1>8

\* A wave is over.
LEMMA DecideOK ==
  ASSUME Base, NEW x \in Execs, NEW r \in Runs, r = exec[x].run, DecideMove(x)
  PROVE  ExecOK(x)' /\ AtOK(x)' /\ RowsOK(r)'
  <1>1. /\ ExecOK(x) /\ AtOK(x) /\ RowsOK(r) /\ OnRun(x) /\ UNCHANGED <<run, route>>
        /\ run[r].kind # "none" /\ exec[x].pc = "nodes"
    BY DEF Base, DecideMove, Steps, ExecOK
  <1>2. step[r] \in [Nodes -> StepStatus]
    BY Typed DEF Base, Rows
  <1>3. \A n \in Nodes : step'[r][n] = step[r][n] \/ (step[r][n] = "waiting" /\ step'[r][n] = "failed")
    BY <1>2 DEF DecideMove
  <1>4. RowsOK(r)'
    BY <1>1, <1>3 DEF RowsOK, NodesOf
  <1>5. CASE exec'[x] = Idle
    BY <1>4, <1>5, IdleOK
  <1>6. CASE exec'[x] # Idle
    <2>1. /\ exec'[x].pc \in {"plan", "final"} /\ exec'[x].run = r /\ exec'[x].file = exec[x].file
          /\ exec'[x].stop = exec[x].stop
          /\ \A n \in Nodes : /\ exec[x].at[n] \in {"off", "over"}
                              /\ exec'[x].at[n] = "off" \/ (exec'[x].pc = "final" /\ exec'[x].at[n] = exec[x].at[n])
      BY <1>6 DEF DecideMove, Onwards, Stays
    <2>2. GraphOf(x)' = GraphOf(x)
      BY <1>1, <2>1 DEF GraphOf
    <2>3. ExecOK(x)'
      BY <1>1, <2>1 DEF ExecOK, OnRun, Stopping, Walking
    <2>4. AtOK(x)'
      BY <1>1, <2>1, <2>2 DEF AtOK, OnRun, Stopping
    <2> QED  BY SMTT(30), <1>4, <2>3, <2>4
  <1> QED  BY SMTT(30), <1>5, <1>6

\* A walk ends, a run is stopped.
LEMMA FinalOK ==
  ASSUME Base, NEW x \in Execs, NEW r \in Runs, r = exec[x].run, FinalMove(x) \/ StoppedMove(x)
  PROVE  ExecOK(x)' /\ AtOK(x)' /\ RowsOK(r)'
  <1>1. /\ ExecOK(x) /\ AtOK(x) /\ RowsOK(r) /\ OnRun(x) /\ UNCHANGED <<run, route>>
        /\ run[r].kind # "none"
    BY DEF Base, FinalMove, StoppedMove, Steps, ExecOK
  <1>2. \A n \in Nodes : step'[r][n] = step[r][n] \/ (step[r][n] \in Open /\ step'[r][n] = "failed")
    BY DEF FinalMove, StoppedMove, FailOpen
  <1>3. RowsOK(r)'
    BY <1>1, <1>2 DEF RowsOK, NodesOf, Open
  <1>4. /\ exec'[x].run = r /\ exec'[x].file = exec[x].file /\ exec'[x].stop = exec[x].stop
        /\ exec'[x].at = exec[x].at /\ exec'[x].got = exec[x].got /\ exec'[x].write # "none"
    BY SMTT(30), Derived DEF FinalMove, StoppedMove, Stays, RunStatus
  <1>5. \/ exec[x].pc = "final" /\ exec'[x].pc = "end"
        \/ /\ exec'[x].pc = "stopped" /\ run[r].kind = "ensemble"
           /\ exec[x].pc \in {"stopping", "nodes"}
           /\ \A n \in Nodes : exec[x].at[n] \in {"off", "ask", "late", "over"}
    BY <1>1 DEF FinalMove, StoppedMove, ExecOK, AtOK, Stopping
  <1>6. GraphOf(x)' = GraphOf(x)
    BY <1>1, <1>4 DEF GraphOf
  <1>7. ExecOK(x)'
    BY <1>1, <1>4, <1>5 DEF ExecOK, OnRun, Stopping, Walking
  <1>8. AtOK(x)'
    BY <1>1, <1>4, <1>5, <1>6 DEF AtOK, OnRun, Stopping
  <1> QED  BY <1>3, <1>7, <1>8

\* A stop is heard, a node is late.
LEMMA HeardOK ==
  ASSUME Base, NEW x \in Execs, NEW r \in Runs, r = exec[x].run,
         StopMove(x) \/ \E n \in Nodes : LateMove(x, n)
  PROVE  ExecOK(x)' /\ AtOK(x)' /\ RowsOK(r)'
  <1>1. /\ ExecOK(x) /\ AtOK(x) /\ RowsOK(r) /\ OnRun(x) /\ UNCHANGED <<run, step, route>>
        /\ run[r].kind = "ensemble" /\ exec'[x].run = r /\ exec'[x].file = exec[x].file
        /\ exec'[x].write = exec[x].write /\ exec'[x].wave = exec[x].wave
    BY DEF Base, StopMove, LateMove, Steps, Stays, ExecOK
  <1>2. RowsOK(r)'
    BY <1>1, RowsKept
  <1>3. GraphOf(x)' = GraphOf(x) /\ \A n \in Nodes : WaveOf(x, n)' = WaveOf(x, n)
    BY <1>1 DEF GraphOf, WaveOf
  <1>4. CASE StopMove(x)
    <2>1. /\ \A n \in Nodes : \/ exec'[x].at[n] = exec[x].at[n] /\ exec[x].at[n] \in {"off", "ask"}
                              \/ exec'[x].at[n] = "over" /\ exec[x].at[n] # "off"
          /\ exec'[x].got = exec[x].got
          /\ (exec[x].pc = "nodes" /\ exec'[x].pc = "nodes") \/ exec'[x].pc = "stopping"
      BY <1>4 DEF StopMove
    <2>2. ExecOK(x)'
      BY <1>1, <2>1 DEF ExecOK, OnRun, Stopping, Walking
    <2>3. AtOK(x)'
      BY <1>1, <1>3, <2>1 DEF AtOK, OnRun, Stopping
    <2> QED  BY <1>2, <2>2, <2>3
  <1>5. CASE \E n \in Nodes : LateMove(x, n)
    <2>1. PICK n \in Nodes : LateMove(x, n)
      BY <1>5
    <2>2. /\ exec[x].pc = "nodes" /\ exec'[x].pc = "nodes" /\ exec[x].at[n] # "off"
          /\ exec'[x].at[n] = "late" /\ exec'[x].got[n] = "failed"
          /\ \A m \in Nodes \ {n} : exec'[x].at[m] = exec[x].at[m] /\ exec'[x].got[m] = exec[x].got[m]
      BY <2>1 DEF LateMove
    <2>3. ExecOK(x)'
      BY <1>1, <2>2 DEF ExecOK, OnRun, Stopping, Walking
    <2>4. AtOK(x)'
      BY <1>1, <1>3, <2>2 DEF AtOK, OnRun, Stopping, Routes
    <2> QED  BY <1>2, <2>3, <2>4
  <1> QED  BY SMTT(30), <1>4, <1>5

\* A node goes on.
LEMMA NodeOK ==
  ASSUME Base, NEW x \in Execs, NEW r \in Runs, r = exec[x].run, NEW n \in Nodes,
         NodeStep(x, n), NodeMove(x, n)
  PROVE  ExecOK(x)' /\ AtOK(x)' /\ RowsOK(r)'
  <1>1. /\ ExecOK(x) /\ AtOK(x) /\ RowsOK(r) /\ OnRun(x) /\ UNCHANGED run
        /\ run[r].kind # "none"
        /\ exec'[x].pc = exec[x].pc /\ exec'[x].run = r /\ exec'[x].file = exec[x].file
        /\ exec'[x].stop = exec[x].stop /\ exec'[x].node = exec[x].node
        /\ exec'[x].pick = exec[x].pick /\ exec'[x].wave = exec[x].wave
    BY DEF Base, NodeStep, ExecOK
  <1>2. /\ exec[x].at[n] # "off" /\ n \in GraphOf(x).nodes
        /\ exec[x].pc \in {"nodes", "single", "stopping", "stopped"}
    <2>1. exec[x].at[n] \in {"reset", "start", "ask", "late"}
      BY DEF NodeMove
    <2>2. exec[x].pc \in ExecPc
      BY Typed DEF Base, ExecRow
    <2> QED  BY <1>1, <2>1, <2>2 DEF AtOK, OnRun, ExecPc
  <1>3. GraphOf(x)' = GraphOf(x) /\ \A m \in Nodes : WaveOf(x, m)' = WaveOf(x, m)
    BY SMTT(30), <1>1 DEF GraphOf, WaveOf
  <1>4. /\ \A m \in Nodes \ {n} : exec'[x].at[m] = exec[x].at[m] /\ exec'[x].got[m] = exec[x].got[m]
        /\ \/ exec'[x].at[n] = "over"
           \/ exec[x].at[n] = "reset" /\ exec'[x].at[n] = "start" /\ exec'[x].got[n] = exec[x].got[n]
           \/ /\ exec[x].at[n] = "start" /\ exec'[x].at[n] = "begun"
              /\ exec'[x].got[n] = exec[x].got[n] /\ exec'[x].write # "none"
        /\ exec[x].write = "none"
    BY DEF NodeStep, NodeMove
  <1>5. ExecOK(x)'
    BY <1>1, <1>2, <1>3 DEF ExecOK, OnRun
  <1>6. AtOK(x)'
    BY SMTT(30), <1>1, <1>2, <1>3, <1>4 DEF AtOK, OnRun, Stopping
  <1>7. /\ \A m \in Nodes \ {n} : step'[r][m] = step[r][m] /\ route'[r][m] = route[r][m]
        /\ \/ step'[r][n] \in {"pending", "running", "failed"}
           \/ step'[r][n] = "waiting" /\ n \in run[r].graph.human
           \/ /\ step'[r][n] = "completed"
              /\ n \in run[r].graph.router => route'[r][n] \in Routes
           \/ step'[r][n] = step[r][n] /\ route'[r][n] = route[r][n]
    BY ZenonT(40) DEF NodeStep, NodeMove
  <1>8. RowsOK(r)'
    BY ZenonT(40), <1>1, <1>2, <1>7 DEF RowsOK, NodesOf, GraphOf
  <1> QED  BY <1>5, <1>6, <1>8

\* An execution that goes on keeps the base.
LEMMA WalksBase ==
  ASSUME Base, NEW x \in Execs, Walks(x), events' \in 0 .. MaxEvents
  PROVE  Base'
  <1>1. Steps(x)
    BY DEF Walks, AnswerMove, LoadMove, PlanMove, DecideMove, FinalMove, EndMove, StoppedMove,
           BreakMove, StopMove, BeginMove, LateMove, NodeStep, Steps
  <1> DEFINE r == exec[x].run
  <1>2. r \in Runs /\ UNCHANGED <<run, cleaner, batch>>
    BY <1>1 DEF Steps
  <1>3. PICK q \in Runs : q = r
    BY <1>2
  <1>4. ExecOK(x)' /\ AtOK(x)' /\ RowsOK(q)'
    <2>1. CASE BeginMove(x) \/ AnswerMove(x) \/ LoadMove(x) \/ BreakMove(x) \/ EndMove(x)
      BY <1>3, <2>1, EasyOK
    <2>2. CASE PlanMove(x) \/ DecideMove(x)
      BY <1>3, <2>2, PlanOK, DecideOK
    <2>3. CASE FinalMove(x) \/ StoppedMove(x)
      BY <1>3, <2>3, FinalOK
    <2>4. CASE StopMove(x) \/ \E n \in Nodes : LateMove(x, n)
      BY <1>3, <2>4, HeardOK
    <2>5. CASE \E n \in Nodes : NodeStep(x, n) /\ NodeMove(x, n)
      BY <1>3, <2>5, NodeOK
    <2> QED  BY <2>1, <2>2, <2>3, <2>4, <2>5 DEF Walks
  <1>5. KindsKept
    BY <1>2 DEF KindsKept
  <1>6. ASSUME NEW y \in Execs
        PROVE  ExecOK(y)' /\ AtOK(y)'
    <2>1. CASE y = x
      BY <1>4, <2>1
    <2>2. CASE y # x
      BY <1>1, <1>5, <2>2, OthersOK DEF Steps, Others
    <2> QED  BY <2>1, <2>2
  <1>7. ASSUME NEW p \in Runs
        PROVE  RowsOK(p)'
    <2>1. CASE p = q
      BY <1>4, <2>1
    <2>2. CASE p # q
      BY <1>1, <1>2, <1>3, <2>2, RowsKept DEF Steps, Base
    <2> QED  BY <2>1, <2>2
  <1>8. TypeOK'
    BY <1>1, Typed DEF TypeOK, Steps, Base, RunRow, ExecRow, BatchRow, Rows
  <1>9. /\ cleaner' # NoRun => run'[cleaner'].kind \notin {"none", "ensemble"}
        /\ batch'.due > 0 => batch'.graph \in Drawn
    BY <1>2 DEF Base
  <1> QED  BY <1>6, <1>7, <1>8, <1>9 DEF Base

\* A run that is created has its rows.
LEMMA CreateOK ==
  ASSUME NEW r \in Runs, NEW kind \in Kind \ {"none"}, NEW g \in Drawn \cup Ensembles,
         kind = "ensemble" => g \in Ensembles, CreateMove(r, kind, g), g.nodes \subseteq Nodes
  PROVE  RowsOK(r)'
  BY DEF RowsOK, NodesOf, CreateMove

\* The base of the others, when a run is created or retold,
LEMMA FrameBase ==
  ASSUME Base, TypeOK', KindsKept, UNCHANGED route, cleaner' \in {cleaner, NoRun},
         batch'.due > 0 => batch'.graph \in Drawn,
         \A y \in Execs : exec'[y] = exec[y] \/ (ExecOK(y)' /\ AtOK(y)'),
         \A r \in Runs : \/ RowsOK(r)'
                         \/ /\ step'[r] = step[r]
                            /\ \/ run'[r] = run[r]
                               \/ run[r].kind # "none" /\ run'[r].kind = run[r].kind
                                  /\ run'[r].graph = run[r].graph
  PROVE  Base'
  <1>1. ASSUME NEW y \in Execs
        PROVE  ExecOK(y)' /\ AtOK(y)'
    BY OthersOK
  <1>2. ASSUME NEW r \in Runs
        PROVE  RowsOK(r)'
    BY RowsKept DEF Base
  <1>3. cleaner' # NoRun => run'[cleaner'].kind \notin {"none", "ensemble"}
    BY Typed DEF Base, KindsKept
  <1> QED  BY <1>1, <1>2, <1>3 DEF Base

\* An execution that begins is all right.
LEMMA BeginsOK ==
  ASSUME NEW x \in Execs, NEW r \in Runs, NEW pc \in {"setup", "answer", "single"}, Begins(x, pc, r),
         run'[r].kind # "none", exec'[x].write = "none" \/ pc = "setup",
         exec'[x].file => run'[r].kind = "file" /\ pc = "setup",
         pc \in {"answer", "single"} => run'[r].kind # "ensemble",
         pc = "answer" => exec'[x].node \in run'[r].graph.human /\ exec'[x].pick \in Routes,
         pc = "single" => exec'[x].node \in run'[r].graph.nodes,
         \A n \in Nodes : IF pc = "single" /\ n = exec'[x].node
                          THEN exec'[x].at[n] \in {"reset", "start"} ELSE exec'[x].at[n] = "off"
  PROVE  ExecOK(x)' /\ AtOK(x)'
  <1>1. /\ exec'[x].pc = pc /\ exec'[x].run = r /\ ~exec'[x].stop
        /\ \A n \in Nodes : exec'[x].got[n] = "none"
    BY DEF Begins
  <1>2. ExecOK(x)'
    BY <1>1 DEF ExecOK, OnRun, GraphOf, Stopping, Walking
  <1>3. AtOK(x)'
    BY <1>1 DEF AtOK, OnRun, GraphOf, Stopping, Routes
  <1> QED  BY <1>2, <1>3

\* A graph has nodes of the system.
LEMMA GraphTyped ==
  ASSUME NEW g \in Drawn \cup Ensembles
  PROVE  /\ g.nodes \subseteq Nodes /\ g.human \subseteq g.router /\ g.router \subseteq g.nodes
         /\ g \in Ensembles => g.router = {}
  BY GraphsAssumption, WorkflowsAssumption DEF Graph

\* An execution that begins keeps the base.
LEMMA StartsBase ==
  ASSUME Base, NEW x \in Execs, Starts(x), events' \in 0 .. MaxEvents
  PROVE  Base'
  <1>0. PICK r \in Runs :
          \/ \E g \in Drawn \cup Ensembles : NewRunMove(x, r, g)
          \/ \E convert \in BOOLEAN : RestartMove(x, r, convert)
          \/ \E n \in Nodes, q \in Routes : AskMove(x, r, n, q)
          \/ \E n \in Nodes : SingleMove(x, r, n)
          \/ FileMove(x, r)
    BY DEF Starts
  <1>1. RowsOK(r) /\ \A q \in Runs : RowsOK(q)
    BY DEF Base
  <1>2. CASE \E g \in Drawn \cup Ensembles : NewRunMove(x, r, g)
    <2>1. PICK g \in Drawn \cup Ensembles : NewRunMove(x, r, g)
      BY <1>2
    <2>2. PICK kind \in {"ensemble", "live"} :
             kind = IF g \in Ensembles THEN "ensemble" ELSE "live"
      OBVIOUS
    <2>3. /\ CreateMove(r, kind, g) /\ Begins(x, "setup", r) /\ ~exec'[x].file
          /\ exec'[x].write = "none" /\ \A n \in Nodes : exec'[x].at[n] = "off"
          /\ UNCHANGED <<route, cleaner, batch>>
      BY <2>1, <2>2 DEF NewRunMove
    <2>4. run'[r].kind = kind /\ run[r].kind = "none"
      BY <2>3 DEF CreateMove, NoRow
    <2>5. RowsOK(r)'
      <3>1. kind \in Kind \ {"none"}
        BY DEF Kind
      <3> QED  BY <2>2, <2>3, <3>1, GraphTyped, CreateOK
    <2>6. ExecOK(x)' /\ AtOK(x)'
      BY <2>3, <2>4, BeginsOK
    <2>7. KindsKept
      BY <2>3, <2>4 DEF KindsKept, CreateMove
    <2>8. TypeOK'
      BY <2>3, Typed DEF TypeOK, CreateMove, Begins, Base, RunRow, ExecRow, BatchRow, Rows
    <2>9. /\ \A y \in Execs : exec'[y] = exec[y] \/ (ExecOK(y)' /\ AtOK(y)')
          /\ \A q \in Runs : RowsOK(q)' \/ (step'[q] = step[q] /\ run'[q] = run[q])
      BY <2>3, <2>5, <2>6 DEF Begins, Others, CreateMove
    <2>10. batch'.due > 0 => batch'.graph \in Drawn
      BY <2>3 DEF Base
    <2> QED  BY <2>3, <2>7, <2>8, <2>9, <2>10, FrameBase
  <1>3. CASE FileMove(x, r)
    <2>1. /\ exec'[x].file /\ exec'[x].write = "none" /\ \A n \in Nodes : exec'[x].at[n] = "off"
          /\ UNCHANGED <<route, cleaner>> /\ batch' \in BatchRow
          /\ batch'.graph = batch.graph /\ batch.due > 0
      BY <1>3 DEF FileMove, Uncounting
    <2>2. batch.graph \in Drawn
      BY <2>1 DEF Base
    <2>3. CASE CreateMove(r, "file", batch.graph) /\ Begins(x, "setup", r)
      <3>1. run'[r].kind = "file" /\ run[r].kind = "none"
        BY <2>3 DEF CreateMove, NoRow
      <3>2. RowsOK(r)'
        <4>1. "file" \in Kind \ {"none"} /\ batch.graph \in Drawn \cup Ensembles
          BY <2>2 DEF Kind
        <4> QED  BY <2>3, <4>1, GraphTyped, CreateOK
      <3>3. ExecOK(x)' /\ AtOK(x)'
        BY <2>1, <2>3, <3>1, BeginsOK
      <3>4. KindsKept
        BY <2>3, <3>1 DEF KindsKept, CreateMove
      <3>5. TypeOK'
        BY <2>1, <2>3, Typed DEF TypeOK, CreateMove, Begins, Base, RunRow, ExecRow, BatchRow, Rows
      <3>6. /\ \A y \in Execs : exec'[y] = exec[y] \/ (ExecOK(y)' /\ AtOK(y)')
            /\ \A q \in Runs : RowsOK(q)' \/ (step'[q] = step[q] /\ run'[q] = run[q])
        BY <2>3, <3>2, <3>3 DEF Begins, Others, CreateMove
      <3> QED  BY <2>1, <2>2, <3>4, <3>5, <3>6, FrameBase
    <2>4. CASE UNCHANGED <<run, step>> /\ Begins(x, "count", NoRun)
      <3>1. ExecOK(x)' /\ AtOK(x)'
        BY <2>1, <2>4 DEF ExecOK, AtOK, OnRun, Begins, Stopping
      <3>2. KindsKept
        BY <2>4 DEF KindsKept
      <3>3. TypeOK'
        BY <2>1, <2>4, Typed DEF TypeOK, Begins, Base, RunRow, ExecRow, BatchRow, Rows
      <3>4. /\ \A y \in Execs : exec'[y] = exec[y] \/ (ExecOK(y)' /\ AtOK(y)')
            /\ \A q \in Runs : step'[q] = step[q] /\ run'[q] = run[q]
        BY <2>4, <3>1 DEF Begins, Others
      <3> QED  BY <2>1, <2>2, <3>2, <3>3, <3>4, FrameBase
    <2> QED  BY <1>3, <2>3, <2>4 DEF FileMove
  <1>4. ASSUME NEW loose, NEW partial, Retold(r, loose, partial),
               UNCHANGED <<step, route, cleaner, batch>>, run[r].kind # "none",
               exec' \in [Execs -> ExecRow], Others(x), ExecOK(x)', AtOK(x)'
        PROVE  Base'
    <2>1. KindsKept
      BY <1>4 DEF KindsKept, Retold
    <2>2. TypeOK'
      BY <1>4, Typed DEF TypeOK, Retold, Base, RunRow, ExecRow, BatchRow, Rows
    <2>3. /\ \A y \in Execs : exec'[y] = exec[y] \/ (ExecOK(y)' /\ AtOK(y)')
          /\ \A q \in Runs : /\ step'[q] = step[q]
                             /\ \/ run'[q] = run[q]
                                \/ run[q].kind # "none" /\ run'[q].kind = run[q].kind
                                   /\ run'[q].graph = run[q].graph
      BY <1>4 DEF Others, Retold
    <2>4. batch'.due > 0 => batch'.graph \in Drawn
      BY <1>4 DEF Base
    <2> QED  BY <1>4, <2>1, <2>2, <2>3, <2>4, FrameBase
  <1>5. CASE \E convert \in BOOLEAN : RestartMove(x, r, convert)
    <2>1. PICK convert \in BOOLEAN : RestartMove(x, r, convert)
      BY <1>5
    <2>2. /\ run[r].kind \notin {"none", "ensemble"} /\ Retold(r, Busy(r), run[r].partial /\ ~convert)
          /\ Begins(x, "setup", r) /\ ~exec'[x].file /\ \A n \in Nodes : exec'[x].at[n] = "off"
          /\ UNCHANGED <<step, route, cleaner, batch>>
      BY <2>1 DEF RestartMove
    <2>3. run'[r].kind = run[r].kind
      BY <2>2 DEF Retold
    <2>4. ExecOK(x)' /\ AtOK(x)'
      BY <2>2, <2>3, BeginsOK
    <2>5. exec' \in [Execs -> ExecRow] /\ Others(x)
      BY <2>2 DEF Begins
    <2> QED  BY <1>4, <2>2, <2>4, <2>5
  <1>6. CASE \E n \in Nodes, q \in Routes : AskMove(x, r, n, q)
    <2>1. PICK n \in Nodes, q \in Routes : AskMove(x, r, n, q)
      BY <1>6
    <2>2. /\ n \in run[r].graph.human /\ Retold(r, Busy(r), run[r].partial)
          /\ Begins(x, "answer", r) /\ ~exec'[x].file /\ \A m \in Nodes : exec'[x].at[m] = "off"
          /\ UNCHANGED <<step, route, cleaner, batch>> /\ exec'[x].write = "none"
          /\ exec'[x].node = n /\ exec'[x].pick = q
      BY <2>1 DEF AskMove
    <2>3. run'[r].kind = run[r].kind /\ run'[r].graph = run[r].graph
      BY <2>2 DEF Retold
    <2>4. run[r].kind \notin {"none", "ensemble"}
      BY <1>1, <2>2, GraphTyped DEF RowsOK, NoRow, NoGraph
    <2>5. ExecOK(x)' /\ AtOK(x)'
      BY <2>2, <2>3, <2>4, BeginsOK
    <2>6. exec' \in [Execs -> ExecRow] /\ Others(x)
      BY <2>2 DEF Begins
    <2> QED  BY <1>4, <2>2, <2>4, <2>5, <2>6
  <1>7. CASE \E n \in Nodes : SingleMove(x, r, n)
    <2>1. PICK n \in Nodes : SingleMove(x, r, n)
      BY <1>7
    <2>2. /\ n \in run[r].graph.nodes
          /\ Retold(r, run[r].loose \/ Busy(r), run[r].partial)
          /\ Begins(x, "single", r) /\ ~exec'[x].file
          /\ \A m \in Nodes : IF m = n THEN exec'[x].at[m] \in {"reset", "start"}
                             ELSE exec'[x].at[m] = "off"
          /\ UNCHANGED <<step, route, cleaner, batch>> /\ exec'[x].write = "none"
          /\ exec'[x].node = n /\ run[r].kind \notin {"none", "ensemble"}
      BY <2>1 DEF SingleMove, NodesOf
    <2>3. run'[r].kind = run[r].kind /\ run'[r].graph = run[r].graph
      BY <2>2 DEF Retold
    <2>4. ExecOK(x)' /\ AtOK(x)'
      BY <2>2, <2>3, BeginsOK
    <2>5. exec' \in [Execs -> ExecRow] /\ Others(x)
      BY <2>2 DEF Begins
    <2> QED  BY <1>4, <2>2, <2>4, <2>5
  <1> QED  BY <1>0, <1>2, <1>3, <1>5, <1>6, <1>7

\* So do the rest.
LEMMA CommitBase ==
  ASSUME Base, NEW x \in Execs, CommitMove(x), events' \in 0 .. MaxEvents
  PROVE  Base'
  <1> DEFINE r == exec[x].run
  <1>1. /\ ExecOK(x) /\ AtOK(x) /\ OnRun(x) /\ r \in Runs /\ run[r].kind # "none"
        /\ run'[r].kind = run[r].kind /\ run'[r].graph = run[r].graph
        /\ \A q \in Runs \ {r} : run'[q] = run[q]
        /\ UNCHANGED <<step, route, cleaner, batch>> /\ Others(x)
        /\ exec' \in [Execs -> ExecRow] /\ run' \in [Runs -> RunRow]
    BY DEF Base, CommitMove, ExecOK
  <1>2. KindsKept
    BY <1>1 DEF KindsKept
  <1>3. ExecOK(x)' /\ AtOK(x)'
    <2>1. CASE exec[x].pc # "end"
      <3>1. /\ exec'[x].pc = exec[x].pc /\ exec'[x].run = r /\ exec'[x].file = exec[x].file
            /\ exec'[x].node = exec[x].node /\ exec'[x].pick = exec[x].pick
            /\ exec'[x].stop = exec[x].stop /\ exec'[x].wave = exec[x].wave
            /\ exec'[x].got = exec[x].got /\ exec'[x].write = "none"
            /\ \A n \in Nodes : exec'[x].at[n] = IF exec[x].at[n] = "begun" THEN "ask"
                                                 ELSE exec[x].at[n]
        BY <2>1 DEF CommitMove, Stays
      <3>2. GraphOf(x)' = GraphOf(x) /\ \A n \in Nodes : WaveOf(x, n)' = WaveOf(x, n)
        BY <1>1, <3>1 DEF GraphOf, WaveOf
      <3>3. ExecOK(x)'
        BY <1>1, <2>1, <3>1, <3>2 DEF ExecOK, OnRun
      <3>4. AtOK(x)'
        BY <1>1, <2>1, <3>1, <3>2 DEF AtOK, OnRun, Stopping
      <3> QED  BY <3>3, <3>4
    <2>2. CASE exec[x].pc = "end" /\ exec[x].file
      <3>1. /\ exec'[x].pc = "count" /\ exec'[x].file /\ exec'[x].run = NoRun
            /\ exec'[x].write = "none" /\ \A n \in Nodes : exec'[x].at[n] = "off"
        BY <2>2 DEF CommitMove
      <3> QED  BY <3>1 DEF ExecOK, AtOK, OnRun, Stopping
    <2>3. CASE exec[x].pc = "end" /\ ~exec[x].file
      <3>1. exec'[x] = Idle
        BY <2>3 DEF CommitMove
      <3> QED  BY <3>1, IdleOK
    <2> QED  BY <2>1, <2>2, <2>3
  <1>4. TypeOK'
    BY <1>1, Typed DEF TypeOK, Base, RunRow, ExecRow, BatchRow, Rows
  <1>5. batch'.due > 0 => batch'.graph \in Drawn
    BY <1>1 DEF Base
  <1> QED  BY SMTT(30), <1>1, <1>2, <1>3, <1>4, <1>5, FrameBase DEF Others

\* A file is counted,
LEMMA CountBase ==
  ASSUME Base, NEW x \in Execs, CountMove(x) \/ CheckMove(x), events' \in 0 .. MaxEvents
  PROVE  Base'
  <1>1. /\ ExecOK(x) /\ AtOK(x) /\ UNCHANGED <<run, step, route, cleaner>> /\ Others(x)
        /\ exec' \in [Execs -> ExecRow] /\ batch' \in BatchRow
        /\ batch'.graph = batch.graph /\ batch'.due = batch.due
    BY DEF Base, CountMove, CheckMove, BatchFrame, Uncounting
  <1>2. KindsKept
    BY <1>1 DEF KindsKept
  <1>3. ExecOK(x)' /\ AtOK(x)'
    <2>1. CASE CountMove(x)
      BY <1>1, <2>1 DEF CountMove, ExecOK, AtOK, OnRun, Stopping
    <2>2. CASE CheckMove(x)
      BY <2>2, IdleOK DEF CheckMove
    <2> QED  BY <2>1, <2>2
  <1>4. TypeOK'
    BY <1>1, Typed DEF TypeOK, Base, RunRow, ExecRow, BatchRow, Rows
  <1>5. batch'.due > 0 => batch'.graph \in Drawn
    BY <1>1 DEF Base
  <1> QED  BY <1>1, <1>2, <1>3, <1>4, <1>5, FrameBase DEF Others

\* an execution is lost,
LEMMA LossBase ==
  ASSUME Base, LossMove, events' \in 0 .. MaxEvents
  PROVE  Base'
  <1>1. KindsKept
    BY DEF KindsKept, LossMove
  <1>2. ASSUME NEW y \in Execs
        PROVE  exec'[y] = exec[y] \/ (ExecOK(y)' /\ AtOK(y)')
    BY IdleOK DEF LossMove
  <1>3. TypeOK'
    BY Typed DEF TypeOK, LossMove, Base, RunRow, ExecRow, BatchRow, Rows
  <1>4. batch'.due > 0 => batch'.graph \in Drawn
    BY DEF Base, LossMove
  <1>5. ASSUME NEW r \in Runs
        PROVE  RowsOK(r)'
    <2>1. RowsOK(r) /\ step'[r] = step[r] /\ route'[r] = route[r]
      BY DEF Base, LossMove
    <2>2. CASE run[r].kind = "none"
      <3>1. ASSUME NEW y \in Execs PROVE exec[y].run # r
        BY <2>2 DEF Base, ExecOK, OnRun, Idle, NoRun, Runs
      <3>2. run'[r] = run[r]
        BY <3>1 DEF LossMove
      <3> QED  BY <2>1, <3>2, RowsKept
    <2>3. CASE run[r].kind # "none"
      <3>1. run'[r].kind = run[r].kind /\ run'[r].graph = run[r].graph
        BY DEF LossMove
      <3> QED  BY <2>1, <2>3, <3>1, RowsKept
    <2> QED  BY <2>2, <2>3
  <1> QED  BY <1>1, <1>2, <1>3, <1>4, <1>5, FrameBase DEF LossMove

\* and the rest.
LEMMA ElseBase ==
  ASSUME Base, Else, events' \in 0 .. MaxEvents
  PROVE  Base'
  <1>1. CASE \E r \in Runs, g \in Drawn : CreateMove(r, "single", g)
                                          /\ UNCHANGED <<route, exec, cleaner, batch>>
    <2>1. PICK r \in Runs, g \in Drawn : CreateMove(r, "single", g)
                                         /\ UNCHANGED <<route, exec, cleaner, batch>>
      BY <1>1
    <2>2. run[r].kind = "none"
      BY <2>1 DEF CreateMove, NoRow
    <2>3. KindsKept
      BY <2>1, <2>2 DEF KindsKept, CreateMove
    <2>4. RowsOK(r)'
      <3>1. "single" \in Kind \ {"none"} /\ g \in Drawn \cup Ensembles
        BY DEF Kind
      <3> QED  BY <2>1, <3>1, GraphTyped, CreateOK
    <2>5. TypeOK'
      BY <2>1, Typed DEF TypeOK, CreateMove, Base, RunRow, ExecRow, BatchRow, Rows
    <2>6. \A q \in Runs : RowsOK(q)' \/ (step'[q] = step[q] /\ run'[q] = run[q])
      BY <2>1, <2>4 DEF CreateMove
    <2>7. batch'.due > 0 => batch'.graph \in Drawn
      BY <2>1 DEF Base
    <2> QED  BY <2>1, <2>3, <2>5, <2>6, <2>7, FrameBase
  <1>2. CASE CleanedMove \/ \E n \in Runs, g \in Drawn : StartMove(n, g)
    <2>1. UNCHANGED <<run, step, route, cleaner, exec>> /\ batch' \in BatchRow
      BY <1>2 DEF CleanedMove, StartMove, BatchFrame
    <2>2. KindsKept
      BY <2>1 DEF KindsKept
    <2>3. TypeOK'
      BY <2>1, Typed DEF TypeOK, Base, RunRow, ExecRow, BatchRow, Rows
    <2>4. batch'.due > 0 => batch'.graph \in Drawn
      BY <1>2 DEF Base, CleanedMove, StartMove
    <2> QED  BY <2>1, <2>2, <2>3, <2>4, FrameBase
  <1>3. CASE CleanEndMove
    <2>1. run[cleaner].kind # "none" /\ cleaner \in Runs
      BY <1>3 DEF Base, CleanEndMove, NoRun, Runs
    <2>2. KindsKept
      BY <1>3 DEF KindsKept, CleanEndMove
    <2>3. TypeOK'
      BY <1>3, Typed DEF TypeOK, Base, CleanEndMove, RunRow, ExecRow, BatchRow, Rows
    <2>4. batch'.due > 0 => batch'.graph \in Drawn
      BY <1>3 DEF Base, CleanEndMove
    <2>5. \A q \in Runs : /\ step'[q] = step[q]
                          /\ \/ run'[q] = run[q]
                             \/ run[q].kind # "none" /\ run'[q].kind = run[q].kind
                                /\ run'[q].graph = run[q].graph
      BY <1>3, <2>1 DEF CleanEndMove
    <2> QED  BY <1>3, <2>2, <2>3, <2>4, <2>5, FrameBase DEF CleanEndMove
  <1>4. CASE \E r \in Runs : CleanMove(r)
    <2>1. PICK r \in Runs : CleanMove(r)
      BY <1>4
    <2>2. /\ run[r].kind \notin {"none", "ensemble"} /\ cleaner' = r
          /\ step' \in [Runs -> Rows] /\ step'[r] = FailOpen(step[r])
          /\ \A q \in Runs \ {r} : step'[q] = step[q] /\ run'[q] = run[q]
          /\ run'[r].kind = run[r].kind /\ run'[r].graph = run[r].graph
          /\ run' \in [Runs -> RunRow] /\ UNCHANGED <<route, exec, batch>>
      BY <2>1 DEF CleanMove, Retold
    <2>3. KindsKept
      BY <2>2 DEF KindsKept
    <2>4. TypeOK'
      BY <2>2, Typed DEF TypeOK, Base, RunRow, ExecRow, BatchRow, Rows
    <2>5. \A n \in Nodes : step'[r][n] = step[r][n] \/ (step[r][n] \in Open /\ step'[r][n] = "failed")
      BY <2>2 DEF FailOpen
    <2>6. RowsOK(r) /\ \A q \in Runs : RowsOK(q)
      BY DEF Base
    <2>7. RowsOK(r)'
      BY <2>2, <2>5, <2>6 DEF RowsOK, NodesOf, Open
    <2>8. ASSUME NEW q \in Runs PROVE RowsOK(q)'
      BY <2>2, <2>6, <2>7, RowsKept
    <2>9. ASSUME NEW y \in Execs PROVE ExecOK(y)' /\ AtOK(y)'
      BY <2>2, <2>3, OthersOK
    <2>10. batch'.due > 0 => batch'.graph \in Drawn
      BY <2>2 DEF Base
    <2> QED  BY <2>2, <2>4, <2>8, <2>9, <2>10 DEF Base
  <1> QED  BY <1>1, <1>2, <1>3, <1>4 DEF Else

\* At first there is nothing.
LEMMA BaseInit ==
  ASSUME Init
  PROVE  Base
  <1>1. TypeOK
    <2>1. NoRow \in RunRow
      BY DEF NoRow, RunRow, Kind, RunStatus
    <2>2. NoBatch \in BatchRow
      BY DEF NoBatch, BatchRow
    <2>3. MaxEvents \in Nat
      BY WorkflowsAssumption
    <2> QED  BY <2>1, <2>2, <2>3, IdleTyped, Typed DEF Init, Rows, StepStatus
  <1>2. \A x \in Execs : ExecOK(x) /\ AtOK(x)
    BY DEF Init, ExecOK, AtOK, OnRun, Idle, Stopping
  <1>3. \A r \in Runs : RowsOK(r)
    BY DEF Init, RowsOK, NoRow
  <1>4. cleaner = NoRun /\ batch.due = 0
    BY DEF Init, NoBatch
  <1> QED  BY <1>1, <1>2, <1>3, <1>4 DEF Base

\* Every step keeps the base.
LEMMA BaseStep ==
  ASSUME Base, [Next]_vars
  PROVE  Base'
  <1>1. CASE Next
    <2>1. Move
      BY <1>1, Moves
    <2>2. events' \in 0 .. MaxEvents
      BY SMTT(30), <1>1, EventsTyped DEF Base
    <2> QED  BY <2>1, <2>2, WalksBase, StartsBase, CommitBase, CountBase, LossBase, ElseBase DEF Move
  <1>2. CASE UNCHANGED vars
    <2> SUFFICES ASSUME run' = run, step' = step, route' = route, exec' = exec,
                        cleaner' = cleaner, batch' = batch, events' = events
                 PROVE  Base'
      BY <1>2 DEF vars
    <2>1. TypeOK'
      BY DEF Base, TypeOK
    <2>2. ASSUME NEW x \in Execs PROVE ExecOK(x)' /\ AtOK(x)'
      BY DEF Base, ExecOK, AtOK, OnRun, GraphOf, WaveOf
    <2>3. ASSUME NEW r \in Runs PROVE RowsOK(r)'
      BY DEF Base, RowsOK, NodesOf
    <2> QED  BY <2>1, <2>2, <2>3 DEF Base
  <1> QED  BY <1>1, <1>2

\* The state of the model has its type: every run, step, execution and batch is
\* a row of its kind in every reachable state.
THEOREM TypeCorrect == Spec => []TypeOK
  <1>1. Init => Base
    BY BaseInit
  <1>2. Base /\ [Next]_vars => Base'
    BY BaseStep
  <1>3. Base => TypeOK
    BY DEF Base
  <1> QED  BY <1>1, <1>2, <1>3, PTL DEF Spec

-----------------------------------------------------------------------------
(* A decision stands.                                                        *)

\* What becomes of a row a person has decided.
Decided(r, n) ==
  \/ step'[r][n] = "completed" /\ route'[r][n] = route[r][n]
  \/ \E x \in Execs : /\ exec[x].run = r
                       /\ \/ exec[x].pc = "single" /\ exec[x].node = n
                          \/ exec[x].pc \in {"plan", "nodes"} /\ exec[x].got[n] \notin Routes

\* An execution that goes on leaves it, runs it by hand, or had read the run before.
LEMMA WalksDecided ==
  ASSUME Base, NEW x \in Execs, Walks(x), NEW r \in Runs, NEW n \in run[r].graph.human,
         n \in Nodes, step[r][n] = "completed"
  PROVE  Decided(r, n)
  <1>1. Steps(x)
    BY DEF Walks, AnswerMove, LoadMove, PlanMove, DecideMove, FinalMove, EndMove, StoppedMove,
           BreakMove, StopMove, BeginMove, LateMove, NodeStep, Steps
  <1>2. step[r] \in [Nodes -> StepStatus] /\ route[r] \in [Nodes -> Routes \cup {Plain}]
    BY Typed DEF Base, Rows
  <1>3. CASE r # exec[x].run \/ UNCHANGED <<step, route>>
    BY <1>1, <1>3 DEF Steps, Decided
  <1>4. CASE r = exec[x].run
    <2>1. CASE AnswerMove(x)
      BY SMTT(30), <1>2, <1>3, <1>4, <2>1 DEF AnswerMove, Decided
    <2>2. CASE BeginMove(x) \/ LoadMove(x) \/ EndMove(x) \/ BreakMove(x) \/ StopMove(x)
                 \/ \E m \in Nodes : LateMove(x, m)
      BY <1>3, <2>2 DEF BeginMove, LoadMove, EndMove, BreakMove, StopMove, LateMove
    <2>3. CASE PlanMove(x)
      <3>1. CASE n \in Skips(x)
        <4>1. exec[x].pc = "plan" /\ exec[x].got[n] \in {"none", "skipped"}
          BY <2>3, <3>1 DEF PlanMove, Skips, Due
        <4> QED  BY <1>4, <4>1 DEF Decided, Routes
      <3>2. CASE n \notin Skips(x)
        BY <1>4, <2>3, <3>2 DEF PlanMove, Decided
      <3> QED  BY <3>1, <3>2
    <2>4. CASE DecideMove(x)
      BY <1>2, <1>3, <1>4, <2>4 DEF DecideMove, Decided
    <2>5. CASE FinalMove(x) \/ StoppedMove(x)
      BY <1>2, <1>4, <2>5 DEF FinalMove, StoppedMove, Decided, FailOpen, Open
    <2>6. CASE \E m \in Nodes : NodeStep(x, m) /\ NodeMove(x, m)
      <3>1. PICK m \in Nodes : NodeStep(x, m) /\ NodeMove(x, m)
        BY <2>6
      <3>2. CASE m = n
        <4>1. exec[x].at[n] \in {"reset", "start", "ask", "late"}
          BY <3>1, <3>2 DEF NodeMove
        <4>2. AtOK(x) /\ ExecOK(x) /\ exec[x].pc \in ExecPc
          BY Typed DEF Base, ExecRow
        <4>3. exec[x].got[n] \notin Routes /\ OnRun(x)
              /\ exec[x].pc \in {"nodes", "single", "stopping", "stopped"}
          BY <4>1, <4>2 DEF AtOK, OnRun, ExecPc
        <4>4. CASE exec[x].pc = "single"
          <5>1. exec[x].node = n
            BY <4>1, <4>2, <4>4 DEF AtOK
          <5> QED  BY <1>4, <4>4, <5>1 DEF Decided
        <4>5. CASE exec[x].pc \in {"stopping", "stopped"}
          <5>1. run[exec[x].run].kind = "ensemble"
            BY <4>2, <4>5 DEF ExecOK, Stopping
          <5> QED  BY <1>4, <4>3, <5>1, GraphKnown DEF GraphOf
        <4>6. CASE exec[x].pc = "nodes"
          BY <1>4, <4>3, <4>6 DEF Decided
        <4> QED  BY <4>3, <4>4, <4>5, <4>6
      <3>3. CASE m # n
        BY <1>4, <3>1, <3>3 DEF NodeStep, Decided
      <3> QED  BY <3>2, <3>3
    <2> QED  BY <2>1, <2>2, <2>3, <2>4, <2>5, <2>6 DEF Walks
  <1> QED  BY <1>3, <1>4

\* A human decision stands: no second answer, restart, cleanup, stop or other node
\* changes it.  It is taken back only by its router run again by hand, or by a walk
\* that had read the run before it was decided (complete_human_validation,
\* load_existing_results, execute_single_step).
THEOREM DecisionsStand == Spec => DecisionStands
  <1>1. Init => Base
    BY BaseInit
  <1>2. Base /\ [Next]_vars => Base'
    BY BaseStep
  <1>3. ASSUME Base, [Next]_vars, NEW r \in Runs, NEW n \in run[r].graph.human,
               step[r][n] = "completed"
        PROVE  Decided(r, n)
    <2>1. n \in Nodes /\ run[r] # NoRow
      BY <1>3, GraphTyped DEF Base, RowsOK, NoRow, NoGraph
    <2>2. CASE UNCHANGED <<step, route>>
      BY <1>3, <2>2 DEF Decided
    <2>3. CASE Next
      <3>1. Move
        BY <1>3, <2>3, Moves
      <3>2. ASSUME NEW x \in Execs, Walks(x) PROVE Decided(r, n)
        BY <1>3, <2>1, <3>2, WalksDecided
      <3>3. ASSUME NEW x \in Execs, Starts(x) PROVE Decided(r, n)
        <4>1. step'[r] = step[r] /\ UNCHANGED route
          BY ZenonT(60), <2>1, <3>3 DEF Starts, NewRunMove, CreateMove, RestartMove, AskMove, SingleMove, FileMove
        <4> QED  BY <1>3, <4>1 DEF Decided
      <3>4. ASSUME LossMove \/ \E x \in Execs : CommitMove(x) \/ CountMove(x) \/ CheckMove(x)
            PROVE  Decided(r, n)
        BY <2>2, <3>4 DEF CommitMove, CountMove, CheckMove, LossMove, BatchFrame
      <3>5. CASE Else
        <4>1. UNCHANGED route
          BY <3>5 DEF Else, StartMove, CleanedMove, BatchFrame, CleanEndMove, CleanMove
        <4>2. step[r] \in [Nodes -> StepStatus]
          BY <1>3, Typed DEF Base, Rows
        <4>3. step'[r][n] = "completed"
          <5>1. CASE \E q \in Runs : CleanMove(q)
            BY <1>3, <2>1, <4>2, <5>1 DEF CleanMove, FailOpen, Open
          <5>2. CASE \E q \in Runs, g \in Drawn : CreateMove(q, "single", g)
            BY <1>3, <2>1, <5>2 DEF CreateMove
          <5> QED  BY <1>3, <3>5, <5>1, <5>2
                   DEF Else, StartMove, CleanedMove, BatchFrame, CleanEndMove
        <4> QED  BY <4>1, <4>3 DEF Decided
      <3> QED  BY <3>1, <3>2, <3>3, <3>4, <3>5 DEF Move
    <2> QED  BY <1>3, <2>2, <2>3 DEF vars
  <1>4. Base /\ [Next]_vars =>
          [\A r \in Runs : \A n \in run[r].graph.human :
             step[r][n] = "completed" =>
               \/ step'[r][n] = "completed" /\ route'[r][n] = route[r][n]
               \/ \E x \in Execs : /\ exec[x].run = r
                                    /\ \/ exec[x].pc = "single" /\ exec[x].node = n
                                       \/ /\ exec[x].pc \in {"plan", "nodes"}
                                          /\ exec[x].got[n] \notin Routes]_vars
    BY <1>3 DEF Decided
  <1> QED  BY <1>1, <1>2, <1>4, PTL DEF Spec, DecisionStands

-----------------------------------------------------------------------------
(* The verdict on a batch.                                                   *)

\* Files begun and not counted, those that succeeded, those still without a result;
\* the runs whose files succeeded.
Uncounted == {x \in Execs : exec[x].file /\ exec[x].pc # "check"}
Succeeded == {x \in Execs : exec[x].file /\ exec[x].pc = "count" /\ exec[x].ok}
Pending == Uncounted \ Succeeded
Passed == {r \in Runs : run[r].passed}

\* Every file is due, begun or counted once, and every success comes from a file.
CountOK ==
  /\ batch.completed + batch.failed + batch.due + Cardinality(Uncounted) <= batch.total
  /\ batch.completed + Cardinality(Succeeded) <= Cardinality(Passed)
  /\ Cardinality(Passed) + batch.failed + batch.due + Cardinality(Pending) <= batch.total
  /\ batch.status = "completed" => Cardinality(Passed) = batch.total
  /\ batch.status = "failed" /\ ~batch.cleaned => batch.failed > 0

\* A file has a run of its own, that has not succeeded while it is executed.
FilesOK ==
  \A x \in Execs : exec[x].file /\ OnRun(x) =>
    /\ ~run[exec[x].run].passed
    /\ \A y \in Execs : exec[y].file /\ exec[y].run = exec[x].run => y = x

Counted == Base /\ CountOK /\ FilesOK

\* The sets are finite.
LEMMA CountsFinite ==
  /\ IsFiniteSet(Uncounted) /\ IsFiniteSet(Succeeded) /\ IsFiniteSet(Pending)
  /\ IsFiniteSet(Passed)
  /\ Cardinality(Uncounted) \in Nat /\ Cardinality(Succeeded) \in Nat
  /\ Cardinality(Pending) \in Nat /\ Cardinality(Passed) \in Nat
  <1>1. IsFiniteSet(Execs) /\ IsFiniteSet(Runs)
    BY WorkflowsAssumption, FS_Interval DEF Execs, Runs
  <1>2. /\ Uncounted \subseteq Execs /\ Succeeded \subseteq Execs /\ Pending \subseteq Execs
        /\ Passed \subseteq Runs
    BY DEF Uncounted, Succeeded, Pending, Passed
  <1>3. /\ IsFiniteSet(Uncounted) /\ IsFiniteSet(Succeeded) /\ IsFiniteSet(Pending)
        /\ IsFiniteSet(Passed)
    BY <1>1, <1>2, FS_Subset
  <1> QED  BY <1>3, FS_CardinalityType

\* One element less,
LEMMA CardLess ==
  ASSUME NEW S, IsFiniteSet(S), NEW a \in S
  PROVE  Cardinality(S \ {a}) = Cardinality(S) - 1 /\ Cardinality(S) > 0
  <1>1. IsFiniteSet(S \ {a}) /\ Cardinality(S \ {a}) \in Nat
    BY FS_Subset, FS_CardinalityType
  <1>2. Cardinality((S \ {a}) \cup {a}) = Cardinality(S \ {a}) + 1
    BY <1>1, FS_AddElement
  <1>3. (S \ {a}) \cup {a} = S
    OBVIOUS
  <1> QED  BY <1>1, <1>2, <1>3

\* and one more.
LEMMA CardMore ==
  ASSUME NEW S, IsFiniteSet(S), NEW a, a \notin S
  PROVE  Cardinality(S \cup {a}) = Cardinality(S) + 1
  BY FS_AddElement

\* What a batch is, in numbers.
LEMMA BatchTyped ==
  ASSUME Base
  PROVE  /\ batch.completed \in Nat /\ batch.failed \in Nat /\ batch.due \in Nat
         /\ batch.total \in Nat
  BY Typed DEF Base, BatchRow

\* Nothing of the counts moves.
LEMMA CountKept ==
  ASSUME CountOK, Uncounted' = Uncounted, Succeeded' = Succeeded, Passed' = Passed,
         batch'.completed = batch.completed, batch'.failed = batch.failed,
         batch'.due = batch.due, batch'.total = batch.total,
         \/ batch'.status = batch.status /\ batch'.cleaned = batch.cleaned
         \/ batch'.status = "failed" /\ batch'.cleaned
  PROVE  CountOK'
  <1>1. Pending' = Pending
    BY DEF Pending
  <1> QED  BY <1>1 DEF CountOK

\* An execution that goes on is that of its file as before.
LEMMA WalksFile ==
  ASSUME Base, NEW x \in Execs, Walks(x)
  PROVE  /\ exec'[x].file <=> exec[x].file
         /\ exec[x].file => exec'[x].run = exec[x].run
         /\ exec[x].pc \notin {"idle", "count", "check"} /\ exec'[x].pc \notin {"count", "check"}
  <1>1. ExecOK(x) /\ OnRun(x)
    BY DEF Base, Walks, AnswerMove, LoadMove, PlanMove, DecideMove, FinalMove, EndMove, StoppedMove,
           BreakMove, StopMove, BeginMove, LateMove, NodeStep, Steps
  <1>2. CASE AnswerMove(x) \/ EndMove(x)
    BY <1>1, <1>2 DEF AnswerMove, EndMove, ExecOK, Walking, Idle
  <1>3. CASE DecideMove(x)
    <2>1. CASE exec'[x] = Idle
      <3>1. run[exec[x].run].kind # "file"
        BY <1>3, <2>1 DEF DecideMove, Onwards, Idle
      <3> QED  BY <1>1, <2>1, <3>1 DEF ExecOK, OnRun, Idle
    <2>2. CASE exec'[x] # Idle
      <3>1. /\ exec'[x].pc \in {"plan", "final"} /\ exec'[x].run = exec[x].run
            /\ exec'[x].file = exec[x].file
        BY <1>3, <2>2 DEF DecideMove, Onwards, Stays
      <3> QED  BY SMTT(30), <1>1, <3>1 DEF OnRun
    <2> QED  BY <2>1, <2>2
  <1>4. CASE \/ BeginMove(x) \/ LoadMove(x) \/ PlanMove(x) \/ FinalMove(x) \/ StoppedMove(x)
             \/ BreakMove(x)
    BY <1>1, <1>4 DEF BeginMove, LoadMove, PlanMove, FinalMove, StoppedMove, BreakMove, Stays,
                      OnRun
  <1>5. CASE StopMove(x) \/ \E n \in Nodes : LateMove(x, n)
    BY <1>1, <1>5 DEF StopMove, LateMove, Stays, OnRun
  <1>6. CASE \E n \in Nodes : NodeStep(x, n) /\ NodeMove(x, n)
    BY <1>1, <1>6 DEF NodeStep, OnRun
  <1> QED  BY SMTT(30), <1>1, <1>2, <1>3, <1>4, <1>5, <1>6 DEF Walks, OnRun

\* An execution that goes on changes no count.
LEMMA WalksCounted ==
  ASSUME Counted, NEW x \in Execs, Walks(x)
  PROVE  CountOK' /\ FilesOK'
  <1>1. Steps(x)
    BY DEF Walks, AnswerMove, LoadMove, PlanMove, DecideMove, FinalMove, EndMove, StoppedMove,
           BreakMove, StopMove, BeginMove, LateMove, NodeStep, Steps
  <1>2. /\ exec'[x].file <=> exec[x].file
        /\ exec[x].file => exec'[x].run = exec[x].run
        /\ exec[x].pc \notin {"idle", "count", "check"} /\ exec'[x].pc \notin {"count", "check"}
    BY WalksFile DEF Counted
  <1>3. Uncounted' = Uncounted /\ Succeeded' = Succeeded /\ Passed' = Passed
    BY <1>1, <1>2 DEF Uncounted, Succeeded, Passed, Steps, Others
  <1>4. CountOK'
    BY <1>1, <1>3, CountKept DEF Counted, Steps
  <1>5. FilesOK'
    BY <1>1, <1>2 DEF Counted, FilesOK, OnRun, Steps, Others
  <1> QED  BY SMTT(30), <1>4, <1>5

\* A run that is none is executed by nobody.
LEMMA NoneExecutes ==
  ASSUME Base, NEW r \in Runs, run[r].kind = "none", NEW y \in Execs
  PROVE  exec[y].run # r
  BY DEF Base, ExecOK, OnRun, Idle, NoRun, Runs

\* An execution that begins is a file's if it is the file's task.
LEMMA StartsCounted ==
  ASSUME Counted, NEW x \in Execs, Starts(x)
  PROVE  CountOK' /\ FilesOK'
  <1>0. PICK r \in Runs :
          \/ \E g \in Drawn \cup Ensembles : NewRunMove(x, r, g)
          \/ \E convert \in BOOLEAN : RestartMove(x, r, convert)
          \/ \E n \in Nodes, q \in Routes : AskMove(x, r, n, q)
          \/ \E n \in Nodes : SingleMove(x, r, n)
          \/ FileMove(x, r)
    BY DEF Starts
  <1>1. Base /\ CountOK /\ FilesOK
    BY DEF Counted
  <1>2. exec[x] = Idle /\ Others(x) /\ ~exec[x].file
    <2>1. ~Idle.file
      BY DEF Idle
    <2>2. exec[x] = Idle /\ Others(x)
      BY <1>0 DEF NewRunMove, RestartMove, AskMove, SingleMove, FileMove, Begins
    <2> QED  BY <2>1, <2>2
  <1>3. \A q \in Runs : run'[q].passed <=> run[q].passed
    <2>1. ASSUME NEW kind, NEW g, CreateMove(r, kind, g), NEW q \in Runs
          PROVE  run'[q].passed <=> run[q].passed
      BY <2>1 DEF CreateMove, NoRow
    <2>2. ASSUME NEW loose, NEW partial, Retold(r, loose, partial), NEW q \in Runs
          PROVE  run'[q].passed <=> run[q].passed
      BY <2>2 DEF Retold
    <2>3. CASE \E g \in Drawn \cup Ensembles : NewRunMove(x, r, g)
      BY <2>1, <2>3 DEF NewRunMove
    <2>4. CASE \E convert \in BOOLEAN : RestartMove(x, r, convert)
      BY <2>2, <2>4 DEF RestartMove
    <2>5. CASE \E n \in Nodes, q \in Routes : AskMove(x, r, n, q)
      BY <2>2, <2>5 DEF AskMove
    <2>6. CASE \E n \in Nodes : SingleMove(x, r, n)
      BY <2>2, <2>6 DEF SingleMove
    <2>7. CASE FileMove(x, r)
      BY <2>1, <2>7 DEF FileMove
    <2> QED  BY <1>0, <2>3, <2>4, <2>5, <2>6, <2>7
  <1>4. Passed' = Passed
    BY <1>3 DEF Passed
  <1>5. CASE ~FileMove(x, r)
    <2>1. ~exec'[x].file /\ UNCHANGED batch
      BY <1>0, <1>5 DEF NewRunMove, RestartMove, AskMove, SingleMove
    <2>2. Uncounted' = Uncounted /\ Succeeded' = Succeeded
      BY <1>2, <2>1 DEF Uncounted, Succeeded, Others
    <2>3. CountOK'
      BY <1>1, <1>4, <2>1, <2>2, CountKept
    <2>4. FilesOK'
      <3>1. ASSUME NEW y \in Execs, exec[y].file, OnRun(y)
            PROVE  exec[y].run \in Runs
        BY <1>1, <3>1 DEF Base, ExecOK
      <3> QED  BY <1>1, <1>2, <1>3, <2>1, <3>1 DEF FilesOK, OnRun, Others
    <2> QED  BY <2>3, <2>4
  <1>6. CASE FileMove(x, r)
    <2>1. /\ exec'[x].file /\ batch.due > 0 /\ batch'.due = batch.due - 1
          /\ batch'.completed = batch.completed /\ batch'.failed = batch.failed
          /\ batch'.total = batch.total /\ batch'.status = batch.status
          /\ batch'.cleaned = batch.cleaned
          /\ \/ exec'[x].pc = "setup"
             \/ exec'[x].pc = "count" /\ ~exec'[x].ok
      BY <1>6 DEF FileMove, Uncounting, Begins
    <2>2. /\ Uncounted' = Uncounted \cup {x} /\ Succeeded' = Succeeded /\ x \notin Uncounted
          /\ x \notin Succeeded
      BY <1>2, <2>1 DEF Uncounted, Succeeded, Others
    <2>3. Pending' = Pending \cup {x} /\ x \notin Pending
      BY <2>2 DEF Pending
    <2>4. /\ Cardinality(Uncounted') = Cardinality(Uncounted) + 1
          /\ Cardinality(Pending') = Cardinality(Pending) + 1
      BY <2>2, <2>3, CountsFinite, CardMore
    <2>5. CountOK'
      BY <1>1, <1>4, <2>1, <2>2, <2>4, CountsFinite, BatchTyped DEF CountOK
    <2>6. ASSUME NEW y \in Execs, y # x, exec'[y].file, OnRun(y)'
          PROVE  /\ exec'[y] = exec[y] /\ OnRun(y) /\ exec[y].file /\ exec[y].run \in Runs
      BY <1>1, <1>2, <2>6 DEF Others, OnRun, Base, ExecOK
    <2>7. CASE UNCHANGED <<run, step>> /\ Begins(x, "count", NoRun)
      <3>1. ~OnRun(x)' /\ exec'[x].run = NoRun
        BY <2>7 DEF Begins, OnRun
      <3>2. NoRun \notin Runs
        BY DEF NoRun, Runs
      <3> QED  BY <1>1, <1>2, <1>3, <2>5, <2>6, <3>1, <3>2 DEF FilesOK, Others
    <2>8. CASE CreateMove(r, "file", batch.graph) /\ Begins(x, "setup", r)
      <3>1. run[r].kind = "none" /\ ~run'[r].passed /\ exec'[x].run = r
        BY <2>8 DEF CreateMove, NoRow, Begins
      <3>2. \A y \in Execs : exec[y].run # r
        BY <1>1, <3>1, NoneExecutes
      <3> QED  BY <1>1, <1>2, <1>3, <2>5, <2>6, <3>1, <3>2 DEF FilesOK, Others
    <2> QED  BY <1>6, <2>7, <2>8 DEF FileMove
  <1> QED  BY <1>5, <1>6

\* A run that ends well passes, once.
LEMMA CommitCounted ==
  ASSUME Counted, NEW x \in Execs, CommitMove(x)
  PROVE  CountOK' /\ FilesOK'
  <1> DEFINE e == exec[x]
             r == exec[x].run
  <1>1. Base /\ CountOK /\ FilesOK /\ ExecOK(x)
    BY DEF Counted, Base
  <1>2. /\ OnRun(x) /\ r \in Runs /\ Others(x) /\ UNCHANGED <<batch>>
        /\ \A q \in Runs \ {r} : run'[q] = run[q]
        /\ run'[r].passed <=> run[r].passed \/ (e.pc = "end" /\ e.file /\ e.ok)
    BY DEF CommitMove
  <1>3. UNCHANGED <<batch.completed, batch.failed, batch.due, batch.total, batch.status, batch.cleaned>>
    BY <1>2
  <1>4. \A y \in Execs : exec[y].file /\ OnRun(y) => exec[y].run \in Runs
    BY <1>1 DEF Base, ExecOK
  <1>5. e.file \in BOOLEAN /\ e.ok \in BOOLEAN
    BY <1>1, Typed DEF Base, ExecRow
  <1>6. CASE ~(e.pc = "end" /\ e.file /\ e.ok)
    <2>1. \A q \in Runs : run'[q].passed <=> run[q].passed
      BY <1>2, <1>6
    <2>2. \/ e.pc # "end" /\ exec'[x].pc = e.pc /\ exec'[x].file = e.file /\ exec'[x].run = r
          \/ e.pc = "end" /\ e.file /\ exec'[x].file /\ ~exec'[x].ok /\ exec'[x].pc = "count"
             /\ exec'[x].run = NoRun
          \/ e.pc = "end" /\ ~e.file /\ ~exec'[x].file
      BY <1>5, <1>6 DEF CommitMove, Stays, Idle
    <2>3. Passed' = Passed
      BY <2>1 DEF Passed
    <2>4. Uncounted' = Uncounted /\ Succeeded' = Succeeded
      BY <1>2, <2>2 DEF Uncounted, Succeeded, Others, OnRun
    <2>5. CountOK'
      BY <1>1, <1>3, <2>3, <2>4, CountKept
    <2>6. NoRun \notin Runs
      BY DEF NoRun, Runs
    <2>7. FilesOK'
      BY <1>1, <1>2, <1>4, <2>1, <2>2, <2>6 DEF FilesOK, Others, OnRun
    <2> QED  BY <2>5, <2>7
  <1>7. CASE e.pc = "end" /\ e.file /\ e.ok
    <2>1. /\ exec'[x].pc = "count" /\ exec'[x].file /\ exec'[x].ok /\ exec'[x].run = NoRun
          /\ run'[r].passed /\ ~run[r].passed
      BY <1>1, <1>2, <1>7 DEF CommitMove, FilesOK
    <2>2. /\ Uncounted' = Uncounted /\ Succeeded' = Succeeded \cup {x}
          /\ Passed' = Passed \cup {r} /\ x \notin Succeeded /\ r \notin Passed /\ x \in Uncounted
      BY <1>2, <1>7, <2>1 DEF Uncounted, Succeeded, Passed, Others
    <2>3. Pending' = Pending \ {x} /\ x \in Pending
      BY <2>2 DEF Pending
    <2>4. /\ Cardinality(Succeeded') = Cardinality(Succeeded) + 1
          /\ Cardinality(Passed') = Cardinality(Passed) + 1
      BY <2>2, CountsFinite, CardMore
    <2>5. Cardinality(Pending') = Cardinality(Pending) - 1 /\ Cardinality(Pending) > 0
      BY <2>3, CountsFinite, CardLess
    <2>6. CountOK'
      BY <1>1, <1>3, <2>2, <2>4, <2>5, CountsFinite, BatchTyped DEF CountOK
    <2>7. ASSUME NEW y \in Execs, y # x, exec[y].file, OnRun(y)
          PROVE  exec[y].run # r
      BY <1>1, <1>2, <1>7, <2>7 DEF FilesOK
    <2>8. NoRun \notin Runs
      BY DEF NoRun, Runs
    <2>9. FilesOK'
      BY <1>1, <1>2, <1>4, <2>1, <2>7, <2>8 DEF FilesOK, Others, OnRun
    <2> QED  BY <2>6, <2>9
  <1> QED  BY <1>6, <1>7

\* A file is counted, and the batch judged.
LEMMA FileCounted ==
  ASSUME Counted, NEW x \in Execs, CountMove(x) \/ CheckMove(x)
  PROVE  CountOK' /\ FilesOK'
  <1> DEFINE e == exec[x]
  <1>1. Base /\ CountOK /\ FilesOK /\ ExecOK(x)
    BY DEF Counted, Base
  <1>2. UNCHANGED run /\ Others(x)
    BY DEF CountMove, CheckMove, BatchFrame
  <1>3. Passed' = Passed
    BY <1>2 DEF Passed
  <1>4. e.file /\ e.run = NoRun /\ NoRun \notin Runs /\ e.ok \in BOOLEAN
    BY <1>1, Typed DEF CountMove, CheckMove, ExecOK, NoRun, Runs, Base, ExecRow
  <1>5. FilesOK'
    <2>1. ~OnRun(x)' /\ exec'[x].run = NoRun
      <3>1. CASE CountMove(x)
        BY <1>4, <3>1 DEF CountMove, OnRun
      <3>2. CASE CheckMove(x)
        BY <3>2 DEF CheckMove, OnRun, Idle
      <3> QED  BY <3>1, <3>2
    <2>2. \A y \in Execs : exec[y].file /\ OnRun(y) => exec[y].run \in Runs
      BY <1>1 DEF Base, ExecOK
    <2> QED  BY <1>1, <1>2, <1>4, <2>1, <2>2 DEF FilesOK, Others, OnRun
  <1>6. CASE CountMove(x)
    <2>1. /\ e.pc = "count" /\ exec'[x].pc = "check"
          /\ batch'.due = batch.due /\ batch'.total = batch.total
          /\ batch'.status = batch.status /\ batch'.cleaned = batch.cleaned
          /\ e.ok => batch'.completed = batch.completed + 1 /\ batch'.failed = batch.failed
          /\ ~e.ok => batch'.completed = batch.completed /\ batch'.failed = batch.failed + 1
      BY <1>6 DEF CountMove, Uncounting
    <2>2. x \in Uncounted /\ Uncounted' = Uncounted \ {x}
      BY <1>2, <1>4, <2>1 DEF Uncounted, Others
    <2>3. /\ e.ok => x \in Succeeded /\ Succeeded' = Succeeded \ {x}
          /\ ~e.ok => x \notin Succeeded /\ Succeeded' = Succeeded
      BY <1>2, <1>4, <2>1 DEF Succeeded, Others
    <2>4. Cardinality(Uncounted') = Cardinality(Uncounted) - 1
      BY <2>2, CountsFinite, CardLess
    <2>5. CASE e.ok
      <3>1. Pending' = Pending
        BY <2>2, <2>3, <2>5 DEF Pending
      <3>2. Cardinality(Succeeded') = Cardinality(Succeeded) - 1
        BY <2>3, <2>5, CountsFinite, CardLess
      <3> QED  BY <1>1, <1>3, <1>5, <2>1, <2>4, <2>5, <3>1, <3>2, CountsFinite, BatchTyped DEF CountOK
    <2>6. CASE ~e.ok
      <3>1. Pending' = Pending \ {x} /\ x \in Pending
        BY <2>2, <2>3, <2>6 DEF Pending
      <3>2. Cardinality(Pending') = Cardinality(Pending) - 1
        BY <3>1, CountsFinite, CardLess
      <3> QED  BY <1>1, <1>3, <1>5, <2>1, <2>3, <2>4, <2>6, <3>2, CountsFinite, BatchTyped DEF CountOK
    <2> QED  BY <1>4, <2>5, <2>6
  <1>7. CASE CheckMove(x)
    <2>1. /\ e.pc = "check" /\ ~exec'[x].file
          /\ batch'.due = batch.due /\ batch'.total = batch.total
          /\ batch'.completed = batch.completed /\ batch'.failed = batch.failed
          /\ batch'.cleaned = batch.cleaned
          /\ \/ batch'.status = batch.status
             \/ /\ batch.completed + batch.failed >= batch.total
                /\ batch'.status = IF batch.failed > 0 THEN "failed" ELSE "completed"
      BY <1>7 DEF CheckMove, Uncounting, Idle
    <2>2. Uncounted' = Uncounted /\ Succeeded' = Succeeded
      BY <1>2, <1>4, <2>1 DEF Uncounted, Succeeded, Others
    <2>3. Pending' = Pending
      BY <2>2 DEF Pending
    <2>4. CASE batch'.status = batch.status
      <3>1. CountOK'
        BY <1>1, <1>3, <2>1, <2>2, <2>4, CountKept
      <3> QED  BY <1>5, <3>1
    <2>5. CASE /\ batch.completed + batch.failed >= batch.total
               /\ batch'.status = IF batch.failed > 0 THEN "failed" ELSE "completed"
      <3>1. batch.failed = 0 => Cardinality(Passed) = batch.total
        BY <1>1, <2>5, CountsFinite, BatchTyped DEF CountOK
      <3>2. /\ batch'.status = "completed" => batch.failed = 0
            /\ batch'.status = "failed" => batch.failed > 0
        BY <1>1, <2>5, BatchTyped
      <3>3. CountOK'
        BY <1>1, <1>3, <2>1, <2>2, <2>3, <3>1, <3>2 DEF CountOK
      <3> QED  BY <1>5, <3>3
    <2> QED  BY <2>1, <2>4, <2>5
  <1> QED  BY <1>6, <1>7

\* No subset is larger.
LEMMA CardFewer ==
  ASSUME NEW S, IsFiniteSet(S), NEW T, T \subseteq S
  PROVE  Cardinality(T) <= Cardinality(S)
  BY FS_Subset

\* A file that is lost is not counted.
LEMMA LossCounted ==
  ASSUME Counted, LossMove
  PROVE  CountOK' /\ FilesOK'
  <1>1. Base /\ CountOK /\ FilesOK
    BY DEF Counted
  <1>2. \A q \in Runs : run'[q].passed = run[q].passed
    BY DEF LossMove
  <1>3. Passed' = Passed
    BY <1>2 DEF Passed
  <1>4. \A y \in Execs : exec'[y] = exec[y] \/ (exec'[y] = Idle /\ ~exec'[y].file)
    BY DEF LossMove, Idle
  <1>5. FilesOK'
    <2>1. \A y \in Execs : exec[y].file /\ OnRun(y) => exec[y].run \in Runs
      BY <1>1 DEF Base, ExecOK
    <2> QED  BY <1>1, <1>2, <1>4, <2>1 DEF FilesOK, OnRun
  <1>6. /\ batch'.total = batch.total /\ batch'.status = batch.status
        /\ batch'.completed = batch.completed /\ batch'.failed = batch.failed
        /\ batch'.cleaned = batch.cleaned /\ batch'.due \in {0, batch.due}
    BY DEF LossMove
  <1>7. Uncounted' \subseteq Uncounted /\ Succeeded' \subseteq Succeeded /\ Pending' \subseteq Pending
    BY <1>4 DEF Uncounted, Succeeded, Pending
  <1>8. /\ Cardinality(Uncounted') <= Cardinality(Uncounted) /\ Cardinality(Uncounted') \in Nat
        /\ Cardinality(Succeeded') <= Cardinality(Succeeded) /\ Cardinality(Succeeded') \in Nat
        /\ Cardinality(Pending') <= Cardinality(Pending) /\ Cardinality(Pending') \in Nat
    BY <1>7, CountsFinite, CardFewer, FS_Subset, FS_CardinalityType
  <1>9. CountOK'
    BY <1>1, <1>3, <1>6, <1>8, CountsFinite, BatchTyped DEF CountOK
  <1> QED  BY <1>5, <1>9

\* The rest does not touch a file.
LEMMA ElseCounted ==
  ASSUME Counted, Else
  PROVE  CountOK' /\ FilesOK'
  <1>1. Base /\ CountOK /\ FilesOK
    BY DEF Counted
  <1>2. UNCHANGED exec
    BY DEF Else, StartMove, CleanedMove, CleanEndMove, CleanMove
  <1>3. \A q \in Runs : run'[q].passed <=> run[q].passed
    BY DEF Else, CreateMove, StartMove, CleanedMove, CleanEndMove, CleanMove, Retold, BatchFrame, NoRow
  <1>4. Passed' = Passed /\ Uncounted' = Uncounted /\ Succeeded' = Succeeded
    BY <1>2, <1>3 DEF Passed, Uncounted, Succeeded
  <1>5. FilesOK'
    <2>1. \A y \in Execs : exec[y].file /\ OnRun(y) => exec[y].run \in Runs
      BY <1>1 DEF Base, ExecOK
    <2> QED  BY <1>1, <1>2, <1>3, <2>1 DEF FilesOK, OnRun
  <1>6. CASE \E n \in Runs, g \in Drawn : StartMove(n, g)
    <2>1. PICK n \in Runs : \E g \in Drawn : StartMove(n, g)
      BY <1>6
    <2>2. /\ batch = NoBatch /\ batch'.status = "running" /\ batch'.total = n /\ batch'.due = n
          /\ batch'.completed = 0 /\ batch'.failed = 0 /\ n \in Nat
      BY <2>1 DEF StartMove, Runs
    <2>3. /\ batch.total = 0 /\ batch.due = 0 /\ batch.completed = 0 /\ batch.failed = 0
      BY <2>2 DEF NoBatch
    <2>4. Pending' = Pending
      BY <1>4 DEF Pending
    <2>5. CountOK'
      BY <1>1, <1>4, <2>2, <2>3, <2>4, CountsFinite DEF CountOK
    <2> QED  BY <1>5, <2>5
  <1>7. CASE CleanedMove
    <2>1. CountOK'
      BY <1>1, <1>4, <1>7, CountKept DEF CleanedMove
    <2> QED  BY <1>5, <2>1
  <1>8. CASE UNCHANGED batch
    <2>1. CountOK'
      BY <1>1, <1>4, <1>8, CountKept
    <2> QED  BY <1>5, <2>1
  <1> QED  BY <1>6, <1>7, <1>8 DEF Else, CleanEndMove, CleanMove

\* The counts are kept.
LEMMA CountedStep ==
  ASSUME Counted, [Next]_vars
  PROVE  Counted'
  <1>1. Base'
    BY BaseStep DEF Counted
  <1>2. CASE Next
    <2>1. Move
      BY <1>2, Moves DEF Counted
    <2>2. CountOK' /\ FilesOK'
      BY <2>1, WalksCounted, StartsCounted, CommitCounted, FileCounted, LossCounted, ElseCounted
         DEF Move
    <2> QED  BY <1>1, <2>2 DEF Counted
  <1>3. CASE UNCHANGED vars
    <2> SUFFICES ASSUME run' = run, exec' = exec, batch' = batch
                 PROVE  Counted'
      BY <1>3 DEF vars
    <2>1. Uncounted' = Uncounted /\ Succeeded' = Succeeded /\ Passed' = Passed
      BY DEF Uncounted, Succeeded, Passed
    <2>2. CountOK'
      BY <2>1, CountKept DEF Counted
    <2>3. FilesOK'
      BY DEF Counted, FilesOK, OnRun
    <2> QED  BY <1>1, <2>2, <2>3 DEF Counted
  <1> QED  BY <1>2, <1>3

\* A batch counts each file once; it is called completed only when the execution
\* of every file succeeded, and failed only when one did not or it was found
\* stale (batch_executor.py _finalize).
THEOREM VerdictIsHonest == Spec => []BatchVerdictHonest
  <1>1. Init => Counted
    <2> SUFFICES ASSUME Init PROVE CountOK /\ FilesOK
      BY BaseInit DEF Counted
    <2>1. Uncounted = {} /\ Succeeded = {} /\ Passed = {}
      BY DEF Init, Uncounted, Succeeded, Passed, Idle, NoRow
    <2>2. Pending = {}
      BY <2>1 DEF Pending
    <2>3. Cardinality({}) = 0
      BY FS_EmptySet
    <2>4. CountOK
      BY <2>1, <2>2, <2>3 DEF Init, CountOK, NoBatch
    <2> QED  BY <2>4 DEF Init, FilesOK, Idle
  <1>2. Counted /\ [Next]_vars => Counted'
    BY CountedStep
  <1>3. Counted => BatchVerdictHonest
    <2> SUFFICES ASSUME Counted PROVE BatchVerdictHonest
      OBVIOUS
    <2>1. Cardinality({r \in Runs : run[r].passed}) = Cardinality(Passed)
      BY DEF Passed
    <2>2. Base /\ CountOK
      BY DEF Counted
    <2> QED  BY <2>1, <2>2, CountsFinite, BatchTyped DEF BatchVerdictHonest, CountOK
  <1> QED  BY <1>1, <1>2, <1>3, PTL DEF Spec

-----------------------------------------------------------------------------
(* Who touches a run.                                                        *)

\* A run no two have touched at once has one execution, or the cleanup; so has
\* every deliberation.
Alone ==
  \A r \in Runs : ~run[r].loose \/ run[r].kind = "ensemble" =>
    /\ \A x, y \in Execs : exec[x].run = r /\ exec[y].run = r => x = y
    /\ cleaner = r => \A x \in Execs : exec[x].run # r

\* An execution that goes on stays on its run or leaves it.
LEMMA WalksRun ==
  ASSUME Base, NEW x \in Execs, Walks(x)
  PROVE  Steps(x) /\ (exec'[x].run = exec[x].run \/ exec'[x] = Idle)
  <1>1. Steps(x)
    BY ZenonT(40) DEF Walks, AnswerMove, LoadMove, PlanMove, DecideMove, FinalMove, EndMove, StoppedMove,
           BreakMove, StopMove, BeginMove, LateMove, NodeStep, Steps
  <1>2. CASE AnswerMove(x) \/ EndMove(x) \/ DecideMove(x)
    BY ZenonT(40), <1>1, <1>2 DEF AnswerMove, EndMove, DecideMove, Onwards, Stays
  <1>3. CASE ~(AnswerMove(x) \/ EndMove(x) \/ DecideMove(x))
    BY <1>1, <1>3 DEF Walks, BeginMove, LoadMove, PlanMove, FinalMove, StoppedMove, BreakMove,
                      StopMove, LateMove, NodeStep, Stays
  <1> QED  BY SMTT(30), <1>1, <1>2, <1>3

\* Every step keeps what is alone alone.
LEMMA AloneStep ==
  ASSUME Base, Alone, [Next]_vars
  PROVE  Alone'
  <1>0. NoRun \notin Runs /\ Idle.run = NoRun
    BY DEF NoRun, Runs, Idle
  <1>1. CASE /\ \A r \in Runs : /\ run'[r].loose <=> run[r].loose
                                /\ run'[r].kind = run[r].kind
             /\ \A x \in Execs : exec'[x].run \in {exec[x].run, NoRun}
             /\ cleaner' \in {cleaner, NoRun}
    BY <1>0, <1>1 DEF Alone
  <1>2. ASSUME NEW r \in Runs, NEW kind, NEW g, CreateMove(r, kind, g), UNCHANGED cleaner,
               \A x, y \in Execs : exec'[x].run = r /\ exec'[y].run = r => x = y,
               \A x \in Execs : exec'[x].run \in {exec[x].run, r}
        PROVE  Alone'
    <2>1. run[r].kind = "none"
      BY <1>2 DEF CreateMove, NoRow
    <2>2. cleaner # r
      BY <2>1 DEF Base, NoRun, Runs
    <2> QED  BY <1>2, <2>2 DEF Alone, CreateMove
  <1>3. ASSUME NEW r \in Runs, NEW x \in Execs, NEW loose, NEW partial, Retold(r, loose, partial),
               run[r].kind # "ensemble", Busy(r) => loose, exec[x] = Idle, exec'[x].run = r,
               Others(x), UNCHANGED cleaner
        PROVE  Alone'
    <2>1. \A q \in Runs \ {r} : run'[q] = run[q]
      BY <1>3 DEF Retold
    <2>2. /\ run'[r].kind = run[r].kind /\ run'[r].loose <=> loose
      BY <1>3 DEF Retold
    <2>3. ~loose => cleaner # r /\ \A y \in Execs : exec[y].run # r
      BY <1>3 DEF Busy
    <2> QED  BY <1>0, <1>3, <2>1, <2>2, <2>3 DEF Alone, Others
  <1>4. CASE Next
    <2>1. Move
      BY <1>4, Moves
    <2>2. ASSUME NEW x \in Execs, Walks(x) PROVE Alone'
      <3>1. UNCHANGED <<run, cleaner>> /\ Others(x) /\ exec'[x].run \in {exec[x].run, NoRun}
        BY <1>0, <2>2, WalksRun DEF Steps
      <3> QED  BY <1>1, <3>1 DEF Others
    <2>3. ASSUME NEW x \in Execs, CommitMove(x) PROVE Alone'
      <3>1. UNCHANGED cleaner /\ Others(x) /\ exec'[x].run \in {exec[x].run, NoRun}
        BY <1>0, <2>3 DEF CommitMove, Stays
      <3>2. \A r \in Runs : (run'[r].loose <=> run[r].loose) /\ run'[r].kind = run[r].kind
        BY <2>3 DEF CommitMove
      <3> QED  BY <1>1, <3>1, <3>2 DEF Others
    <2>4. ASSUME NEW x \in Execs, CountMove(x) \/ CheckMove(x) PROVE Alone'
      <3>1. UNCHANGED <<run, cleaner>> /\ Others(x) /\ exec'[x].run \in {exec[x].run, NoRun}
        BY <1>0, <2>4 DEF CountMove, CheckMove, BatchFrame
      <3> QED  BY <1>1, <3>1 DEF Others
    <2>5. ASSUME LossMove PROVE Alone'
      <3>1. \A y \in Execs : exec'[y].run \in {exec[y].run, NoRun}
        BY <1>0, <2>5 DEF LossMove
      <3>2. UNCHANGED cleaner /\ \A r \in Runs : /\ run[r].loose => run'[r].loose
                                                 /\ run'[r].kind = run[r].kind
        BY <2>5 DEF LossMove
      <3> QED  BY <1>0, <3>1, <3>2 DEF Alone
    <2>6. ASSUME NEW x \in Execs, Starts(x) PROVE Alone'
      <3>0. PICK r \in Runs :
              \/ \E g \in Drawn \cup Ensembles : NewRunMove(x, r, g)
              \/ \E convert \in BOOLEAN : RestartMove(x, r, convert)
              \/ \E n \in Nodes, q \in Routes : AskMove(x, r, n, q)
              \/ \E n \in Nodes : SingleMove(x, r, n)
              \/ FileMove(x, r)
        BY <2>6 DEF Starts
      <3>1. ASSUME NEW kind, NEW g, CreateMove(r, kind, g), UNCHANGED cleaner, Others(x),
                   exec'[x].run = r
            PROVE  Alone'
        <4>1. run[r].kind = "none"
          BY <3>1 DEF CreateMove, NoRow
        <4>2. \A y \in Execs : exec[y].run # r
          BY <4>1, NoneExecutes
        <4> QED  BY <1>2, <3>1, <4>2 DEF Others
      <3>2. CASE \E g \in Drawn \cup Ensembles : NewRunMove(x, r, g)
        BY <3>1, <3>2 DEF NewRunMove, Begins
      <3>3. CASE FileMove(x, r)
        <4>1. CASE CreateMove(r, "file", batch.graph) /\ Begins(x, "setup", r)
          BY <3>1, <3>3, <4>1 DEF FileMove, Begins
        <4>2. CASE UNCHANGED <<run, step>> /\ Begins(x, "count", NoRun)
          BY <1>1, <3>3, <4>2 DEF FileMove, Begins, Others
        <4> QED  BY <3>3, <4>1, <4>2 DEF FileMove
      <3>4. CASE \E convert \in BOOLEAN : RestartMove(x, r, convert)
        BY <1>3, <3>4 DEF RestartMove, Begins
      <3>5. CASE \E n \in Nodes, q \in Routes : AskMove(x, r, n, q)
        <4>1. run[r].kind # "ensemble"
          BY <3>5, GraphTyped DEF AskMove, Base, RowsOK
        <4> QED  BY <1>3, <3>5, <4>1 DEF AskMove, Begins
      <3>6. CASE \E n \in Nodes : SingleMove(x, r, n)
        BY <1>3, <3>6 DEF SingleMove, Begins
      <3> QED  BY <3>0, <3>2, <3>3, <3>4, <3>5, <3>6
    <2>7. CASE Else
      <3>1. CASE \E r \in Runs, g \in Drawn : CreateMove(r, "single", g)
                                              /\ UNCHANGED <<route, exec, cleaner, batch>>
        <4>1. PICK r \in Runs, g \in Drawn : CreateMove(r, "single", g)
                                             /\ UNCHANGED <<route, exec, cleaner, batch>>
          BY <3>1
        <4>2. run[r].kind = "none"
          BY <4>1 DEF CreateMove, NoRow
        <4>3. \A y \in Execs : exec[y].run # r
          BY <4>2, NoneExecutes
        <4> QED  BY <1>2, <4>1, <4>3
      <3>2. CASE CleanedMove \/ \E n \in Runs, g \in Drawn : StartMove(n, g)
        BY <1>1, <3>2 DEF CleanedMove, StartMove, BatchFrame
      <3>3. CASE CleanEndMove
        BY <1>1, <3>3 DEF CleanEndMove
      <3>4. CASE \E r \in Runs : CleanMove(r)
        <4>1. PICK r \in Runs : CleanMove(r)
          BY <3>4
        <4>2. /\ cleaner' = r /\ run[r].kind # "ensemble" /\ UNCHANGED exec
              /\ \A q \in Runs \ {r} : run'[q] = run[q]
              /\ run'[r].kind = run[r].kind
              /\ run'[r].loose <=> run[r].loose \/ Busy(r)
          BY <4>1 DEF CleanMove, Retold
        <4> QED  BY <4>2 DEF Alone, Busy
      <3> QED  BY <2>7, <3>1, <3>2, <3>3, <3>4 DEF Else
    <2> QED  BY <2>1, <2>2, <2>3, <2>4, <2>5, <2>6, <2>7 DEF Move
  <1>5. CASE UNCHANGED vars
    BY <1>1, <1>5 DEF vars
  <1> QED  BY <1>4, <1>5

-----------------------------------------------------------------------------
(* A stopped deliberation.                                                   *)

\* The node of a deliberation that comes after all the others.
Chair(g, c) == c \in g.nodes /\ \A n \in g.nodes \ {c} : Wave(g)[n] < Wave(g)[c]

\* While a model is still asked, another node is off it and its row is one of S.
Spared(x, S) ==
  (\E n \in Nodes : exec[x].at[n] = "ask") =>
     \E m \in Nodes : exec[x].at[m] # "ask" /\ step[exec[x].run][m] \in S

\* The chairman's row is pending until its wave, and its model is asked alone.
ChairOK(x, c) ==
  LET e == exec[x] IN
  /\ e.pc \in {"setup", "load"} => step[e.run][c] = "pending"
  /\ e.pc \in {"plan", "nodes"} /\ e.wave < WaveOf(x, c) => step[e.run][c] = "pending"
  /\ e.pc = "nodes" /\ e.at[c] = "ask" => e.write = "none"

\* Whoever does not hear the stop leaves a failed row beside it.
StopOK(x) ==
  LET e == exec[x] IN
  OnRun(x) /\ run[e.run].kind = "ensemble" =>
    /\ \A c \in Nodes : Chair(GraphOf(x), c) => ChairOK(x, c)
    /\ e.pc = "stopping" => Spared(x, Open \cup {"failed"})
    /\ e.pc = "stopped" => Spared(x, {"failed"}) /\ e.write \in {"none", "failed"}
    /\ run[e.run].stopped => e.pc = "stopped"

StoppedOK ==
  \A r \in Runs : run[r].stopped => run[r].status = "failed" /\ run[r].kind = "ensemble"

StopInv == Base /\ Alone /\ StoppedOK /\ \A x \in Execs : StopOK(x)

\* The waves of a deliberation: only the chairman is in the last one.
LEMMA ChairLast ==
  ASSUME Base, NEW x \in Execs, OnRun(x), run[exec[x].run].kind = "ensemble",
         NEW c \in Nodes, Chair(GraphOf(x), c)
  PROVE  /\ WaveOf(x, c) \in Nat
         /\ \A n \in GraphOf(x).nodes : WaveOf(x, n) \in Nat /\ (WaveOf(x, n) >= WaveOf(x, c) => n = c)
  <1>1. GraphOf(x) \in Drawn \cup Ensembles
    BY GraphKnown
  <1>2. \A n \in GraphOf(x).nodes : Wave(GraphOf(x))[n] \in Nat
    BY <1>1, GraphsAssumption
  <1> HIDE DEF GraphOf, Wave
  <1> QED  BY <1>2 DEF Chair, WaveOf

\* A deliberation has a chairman.
LEMMA ChairExists ==
  ASSUME Base, NEW x \in Execs, OnRun(x), run[exec[x].run].kind = "ensemble"
  PROVE  \E c \in Nodes : Chair(GraphOf(x), c)
  <1>1. GraphOf(x) \in Ensembles /\ GraphOf(x).nodes \subseteq Nodes
    BY GraphTyped DEF Base, ExecOK, RowsOK, GraphOf
  <1> QED  BY <1>1, ChairmanAssumption DEF Chair

\* Nobody waits for a user, so a failed row fails the run.
LEMMA FailedDerived ==
  ASSUME NEW row, NEW partial, NEW m \in Nodes, row[m] = "failed",
         \A n \in Nodes : row[n] # "waiting"
  PROVE  Derive(row, partial) = "failed"
  BY DEF Derive

\* What an execution knows of its deliberation when nobody touches it.
LEMMA StopKept ==
  ASSUME NEW y \in Execs, StopOK(y), exec'[y] = exec[y],
         OnRun(y) => /\ run'[exec[y].run].kind = run[exec[y].run].kind
                     /\ run'[exec[y].run].graph = run[exec[y].run].graph
                     /\ (run'[exec[y].run].stopped <=> run[exec[y].run].stopped)
                     /\ step'[exec[y].run] = step[exec[y].run]
  PROVE  StopOK(y)'
  <1>1. SUFFICES ASSUME OnRun(y)', run'[exec'[y].run].kind = "ensemble" PROVE StopOK(y)'
    BY DEF StopOK
  <1>2. /\ OnRun(y) /\ run[exec[y].run].kind = "ensemble" /\ GraphOf(y)' = GraphOf(y)
        /\ step'[exec'[y].run] = step[exec[y].run]
        /\ run'[exec'[y].run].stopped <=> run[exec[y].run].stopped
    BY <1>1 DEF OnRun, GraphOf
  <1>3. ASSUME NEW c \in Nodes, Chair(GraphOf(y), c) PROVE ChairOK(y, c)'
    <2>1. ChairOK(y, c)
      BY <1>2, <1>3 DEF StopOK
    <2> QED  BY <1>2, <2>1 DEF ChairOK, WaveOf
  <1>4. /\ exec[y].pc = "stopping" => Spared(y, Open \cup {"failed"})
        /\ exec[y].pc = "stopped" => Spared(y, {"failed"})
        /\ exec[y].pc = "stopped" => exec[y].write \in {"none", "failed"}
        /\ run[exec[y].run].stopped => exec[y].pc = "stopped"
    BY <1>2 DEF StopOK
  <1>5. /\ Spared(y, Open \cup {"failed"}) => Spared(y, Open \cup {"failed"})'
        /\ Spared(y, {"failed"}) => Spared(y, {"failed"})'
    BY <1>2 DEF Spared
  <1>6. \A c \in Nodes : Chair(GraphOf(y)', c) => ChairOK(y, c)'
    BY <1>2, <1>3
  <1> QED  BY <1>2, <1>4, <1>5, <1>6 DEF StopOK, Chair

\* The chairman's row and model in an execution that goes on.
LEMMA ChairStep ==
  ASSUME Base, NEW x \in Execs, Walks(x), StopOK(x), OnRun(x)', exec'[x].run = exec[x].run,
         run[exec[x].run].kind = "ensemble", NEW c \in Nodes, Chair(GraphOf(x), c)
  PROVE  ChairOK(x, c)'
  <1> DEFINE r == exec[x].run
  <1>1. OnRun(x) /\ r \in Runs /\ run' = run /\ exec[x] \in ExecRow
    BY WalksRun, Typed DEF Steps, Base
  <1>2. ChairOK(x, c) /\ WaveOf(x, c)' = WaveOf(x, c) /\ exec[x].wave \in Nat
    BY <1>1 DEF StopOK, WaveOf, GraphOf, ExecRow
  <1>3. /\ WaveOf(x, c) \in Nat /\ c \in GraphOf(x).nodes
        /\ \A n \in GraphOf(x).nodes : WaveOf(x, n) \in Nat /\ (WaveOf(x, n) >= WaveOf(x, c) => n = c)
    BY <1>1, ChairLast DEF Chair
  <1>4. AtOK(x) /\ ExecOK(x)
    BY DEF Base
  <1>5. Idle.pc = "idle"
    BY DEF Idle
  <1>6. CASE AnswerMove(x) \/ EndMove(x)
    BY <1>1, <1>4, <1>5, <1>6 DEF AnswerMove, EndMove, ExecOK, OnRun
  <1>7. CASE FinalMove(x) \/ StoppedMove(x) \/ BreakMove(x)
    BY <1>7 DEF FinalMove, StoppedMove, BreakMove, ChairOK
  <1>8. CASE BeginMove(x) \/ LoadMove(x)
    BY <1>2, <1>4, <1>8 DEF BeginMove, LoadMove, ChairOK, AtOK
  <1>9. CASE PlanMove(x)
    <2>1. ASSUME exec[x].wave < WaveOf(x, c) PROVE step'[r][c] = "pending"
      <3>1. c \notin Skips(x)
        BY <1>1, <1>3, <2>1 DEF Skips, Due, InWave, WaveOf, GraphOf
      <3> QED  BY <1>2, <1>9, <2>1, <3>1 DEF PlanMove, ChairOK
    <2>2. /\ exec'[x].pc \in {"plan", "nodes"} => exec'[x].wave >= exec[x].wave
          /\ exec'[x].pc \notin {"setup", "load"} /\ exec'[x].at[c] # "ask"
      BY <1>2, <1>9 DEF PlanMove
    <2>3. exec'[x].wave \in Nat
      BY <1>9, Typed DEF PlanMove, Steps, ExecRow
    <2> HIDE DEF r
    <2>4. exec'[x].pc \in {"plan", "nodes"} /\ exec'[x].wave < WaveOf(x, c) => step'[r][c] = "pending"
      BY <1>2, <1>3, <2>1, <2>2, <2>3
    <2> QED  BY <1>2, <2>2, <2>4 DEF ChairOK, r
  <1>10. CASE DecideMove(x)
    <2>1. exec'[x] # Idle
      BY <1>5 DEF OnRun
    <2>2. /\ exec'[x].pc = "plan" => exec'[x].wave = exec[x].wave + 1 /\ UNCHANGED step
          /\ exec'[x].pc \notin {"setup", "load", "nodes"}
      BY <1>10, <2>1 DEF DecideMove, Onwards
    <2>3. exec[x].pc = "nodes"
      BY <1>10 DEF DecideMove
    <2> HIDE DEF r
    <2>4. exec'[x].pc = "plan" /\ exec'[x].wave < WaveOf(x, c) => exec[x].wave < WaveOf(x, c)
      BY <1>2, <1>3, <2>2
    <2> QED  BY <1>2, <2>2, <2>3, <2>4 DEF ChairOK
  <1>11. CASE StopMove(x)
    <2>1. /\ UNCHANGED step /\ exec'[x].pc \in {"nodes", "stopping"}
          /\ exec'[x].wave = exec[x].wave /\ exec'[x].write = exec[x].write
          /\ exec'[x].at[c] = "ask" => exec[x].at[c] = "ask"
          /\ exec'[x].pc = "nodes" => exec[x].pc = "nodes"
      BY <1>11 DEF StopMove
    <2> QED  BY <1>2, <2>1 DEF ChairOK
  <1>12. ASSUME NEW n \in Nodes, LateMove(x, n) PROVE ChairOK(x, c)'
    <2>1. /\ UNCHANGED step /\ exec'[x].pc = "nodes" /\ exec[x].pc = "nodes"
          /\ exec'[x].wave = exec[x].wave /\ exec'[x].write = exec[x].write
          /\ exec'[x].at[c] = "ask" => exec[x].at[c] = "ask"
      BY <1>12 DEF LateMove
    <2> QED  BY <1>2, <2>1 DEF ChairOK
  <1>13. ASSUME NEW n \in Nodes, NodeStep(x, n), NodeMove(x, n) PROVE ChairOK(x, c)'
    <2>1. exec'[x].pc = exec[x].pc /\ exec'[x].wave = exec[x].wave
      BY <1>13 DEF NodeStep
    <2>2. exec[x].at[n] \notin {"off", "over"} /\ (exec'[x].at[n] # "ask")
      BY <1>13 DEF NodeMove
    <2>3. exec[x].pc = "nodes" => WaveOf(x, n) = exec[x].wave /\ n \in GraphOf(x).nodes
      BY <1>4, <2>2 DEF AtOK
    <2>4. exec[x].pc = "nodes" /\ exec[x].wave < WaveOf(x, c) => n # c
      BY <1>2, <1>3, <2>3
    <2>5. exec[x].pc \notin {"setup", "load", "plan"}
      BY <1>4, <2>2 DEF AtOK
    <2>6. n # c => step'[r][c] = step[r][c] /\ exec'[x].at[c] = exec[x].at[c]
      BY <1>13 DEF NodeStep
    <2>7. exec[x].pc = "nodes" /\ exec[x].at[c] = "ask" => n = c
      <3> SUFFICES ASSUME exec[x].pc = "nodes", exec[x].at[c] = "ask" PROVE n = c
        OBVIOUS
      <3>1. WaveOf(x, c) = exec[x].wave
        BY <1>4 DEF AtOK
      <3> QED  BY <1>2, <1>3, <2>3, <3>1
    <2> QED  BY <1>2, <2>1, <2>2, <2>4, <2>5, <2>6, <2>7 DEF ChairOK
  <1> QED  BY <1>6, <1>7, <1>8, <1>9, <1>10, <1>11, <1>12, <1>13 DEF Walks

\* Who has not heard the stop has a witness, when the stop is given,
LEMMA StopSpares ==
  ASSUME Base, NEW x \in Execs, StopMove(x), StopOK(x), exec'[x].pc = "stopping"
  PROVE  Spared(x, Open \cup {"failed"})'
  <1> DEFINE r == exec[x].run
  <1>1. /\ OnRun(x) /\ run[r].kind = "ensemble" /\ exec'[x].run = r /\ UNCHANGED step
        /\ \A n \in Nodes : \/ exec'[x].at[n] = exec[x].at[n] /\ exec[x].at[n] \in {"off", "ask"}
                            \/ exec'[x].at[n] = "over" /\ exec[x].at[n] # "off"
        /\ exec[x].pc \in Walking
        /\ exec[x].pc = "nodes" /\ exec[x].write = "none" =>
             \E n \in Nodes : exec[x].at[n] \in {"start", "ask"} /\ exec'[x].at[n] = "over"
    BY DEF StopMove, Steps, Stays, Walking
  <1>2. SUFFICES ASSUME NEW k \in Nodes, exec'[x].at[k] = "ask"
                 PROVE  \E m \in Nodes : exec'[x].at[m] # "ask"
                                         /\ step'[exec'[x].run][m] \in Open \cup {"failed"}
    BY DEF Spared
  <1>3. AtOK(x) /\ exec[x].at[k] = "ask"
    BY <1>1, <1>2 DEF Base
  <1>4. exec[x].pc = "nodes" /\ WaveOf(x, k) = exec[x].wave /\ k \in GraphOf(x).nodes
    BY <1>1, <1>3 DEF AtOK, Walking
  <1>5. PICK c \in Nodes : Chair(GraphOf(x), c)
    BY <1>1, ChairExists
  <1>6. /\ WaveOf(x, c) \in Nat /\ ChairOK(x, c)
        /\ \A n \in GraphOf(x).nodes : WaveOf(x, n) \in Nat /\ (WaveOf(x, n) >= WaveOf(x, c) => n = c)
    BY <1>1, <1>5, ChairLast DEF StopOK
  <1>7. CASE exec[x].wave < WaveOf(x, c)
    <2>1. step[r][c] = "pending"
      BY <1>4, <1>6, <1>7 DEF ChairOK
    <2>2. exec[x].at[c] # "ask"
      BY <1>3, <1>4, <1>6, <1>7 DEF AtOK
    <2>3. exec'[x].at[c] # "ask"
      BY <1>1, <2>2
    <2> QED  BY <1>1, <2>1, <2>3 DEF Open
  <1>8. CASE ~(exec[x].wave < WaveOf(x, c))
    <2>1. k = c
      BY <1>4, <1>6, <1>8
    <2>2. exec[x].write = "none"
      BY <1>3, <1>4, <1>6, <2>1 DEF ChairOK
    <2>3. PICK n \in Nodes : exec[x].at[n] \in {"start", "ask"} /\ exec'[x].at[n] = "over"
      BY <1>1, <1>4, <2>2
    <2>4. n \in GraphOf(x).nodes /\ WaveOf(x, n) = exec[x].wave
      BY <1>3, <1>4, <2>3 DEF AtOK
    <2>5. n = c
      BY <1>4, <1>6, <2>1, <2>4
    <2> QED  BY <1>2, <2>1, <2>3, <2>5
  <1> QED  BY <1>7, <1>8

\* while the nodes that had not heard it go on,
LEMMA NodeSpares ==
  ASSUME Base, Base', NEW x \in Execs, StopOK(x), NEW n \in Nodes, NodeStep(x, n), NodeMove(x, n),
         exec[x].pc \in Stopping
  PROVE  /\ exec[x].pc = "stopping" => Spared(x, Open \cup {"failed"})'
         /\ exec[x].pc = "stopped" => Spared(x, {"failed"})' /\ exec'[x].write \in {"none", "failed"}
  <1> DEFINE r == exec[x].run
  <1>1. /\ r \in Runs /\ OnRun(x) /\ exec'[x].run = r /\ run' = run
        /\ \A m \in Nodes \ {n} : exec'[x].at[m] = exec[x].at[m] /\ step'[r][m] = step[r][m]
        /\ \/ exec'[x].write = Derive(step'[r], run[r].partial)
           \/ exec'[x].write = "none" /\ UNCHANGED step
    BY DEF NodeStep
  <1>2. AtOK(x) /\ ExecOK(x) /\ run[r].kind = "ensemble" /\ GraphOf(x).router = {}
        /\ GraphOf(x).human = {}
    BY SMTT(30), <1>1, GraphKnown DEF Base, ExecOK, Stopping
  <1>3. exec[x].at[n] = "ask" /\ exec'[x].at[n] = "over"
    BY <1>2 DEF NodeMove, AtOK, Stopping
  <1>4. /\ exec[x].pc = "stopping" => Spared(x, Open \cup {"failed"})
        /\ exec[x].pc = "stopped" => Spared(x, {"failed"})
    BY <1>1, <1>2 DEF StopOK
  <1>5. ASSUME NEW S, Spared(x, S)
        PROVE  Spared(x, S)' /\ \E m \in Nodes \ {n} : step'[r][m] \in S
    <2>1. PICK m \in Nodes : exec[x].at[m] # "ask" /\ step[r][m] \in S
      BY <1>3, <1>5 DEF Spared
    <2>2. m # n /\ exec'[x].at[m] # "ask" /\ step'[r][m] \in S
      BY <1>1, <1>3, <2>1
    <2> QED  BY <1>1, <2>1, <2>2 DEF Spared
  <1>6. CASE exec[x].pc = "stopped"
    <2>1. PICK m \in Nodes : step'[r][m] = "failed"
      BY <1>4, <1>5, <1>6
    <2>2. \A k \in Nodes : step'[r][k] # "waiting"
      BY <1>1, <1>2 DEF Base, RowsOK, GraphOf
    <2>3. Derive(step'[r], run[r].partial) = "failed"
      BY <2>1, <2>2, FailedDerived
    <2> QED  BY <1>1, <1>4, <1>5, <1>6, <2>3
  <1>7. CASE exec[x].pc = "stopping"
    <2>1. Spared(x, Open \cup {"failed"})'
      <3> DEFINE S == Open \cup {"failed"}
      <3>1. Spared(x, S)
        BY <1>4, <1>7
      <3> HIDE DEF S
      <3>2. Spared(x, S)'
        BY <1>5, <3>1
      <3>3. S' = S
        BY DEF S, Open
      <3> QED  BY <3>2, <3>3 DEF S
    <2> QED  BY <1>7, <2>1
  <1> QED  BY <1>6, <1>7 DEF Stopping

\* and when the run is failed.
LEMMA MarkSpares ==
  ASSUME Base, NEW x \in Execs, StopOK(x), StoppedMove(x)
  PROVE  Spared(x, {"failed"})' /\ exec'[x].write = "failed"
  <1> DEFINE r == exec[x].run
  <1>1. /\ r \in Runs /\ OnRun(x) /\ exec'[x].run = r /\ exec'[x].at = exec[x].at
        /\ step'[r] = FailOpen(step[r]) /\ exec'[x].write = "failed"
        /\ \/ exec[x].pc = "stopping"
           \/ \A n \in Nodes : exec[x].at[n] \in {"off", "late", "over"}
    BY DEF StoppedMove, Steps, Stays
  <1>2. SUFFICES ASSUME NEW k \in Nodes, exec[x].at[k] = "ask"
                 PROVE  \E m \in Nodes : exec[x].at[m] # "ask" /\ step'[r][m] = "failed"
    BY <1>1 DEF Spared
  <1>3. exec[x].pc = "stopping"
    BY <1>1, <1>2
  <1>4. run[r].kind = "ensemble"
    BY <1>3 DEF Base, ExecOK, Stopping
  <1>5. Spared(x, Open \cup {"failed"})
    BY <1>1, <1>3, <1>4 DEF StopOK
  <1>6. PICK m \in Nodes : exec[x].at[m] # "ask" /\ step[r][m] \in Open \cup {"failed"}
    BY <1>2, <1>5 DEF Spared
  <1>7. step'[r][m] = "failed"
    BY <1>1, <1>6 DEF FailOpen
  <1> QED  BY <1>6, <1>7

\* An execution that goes on keeps what it knows.
LEMMA WalksStop ==
  ASSUME Base, Base', NEW x \in Execs, Walks(x), StopOK(x)
  PROVE  StopOK(x)'
  <1> DEFINE r == exec[x].run
  <1>1. Steps(x) /\ OnRun(x) /\ r \in Runs /\ run' = run
    BY WalksRun DEF Steps
  <1>2. SUFFICES ASSUME OnRun(x)', run'[exec'[x].run].kind = "ensemble" PROVE StopOK(x)'
    BY DEF StopOK
  <1>3. exec'[x] # Idle /\ exec'[x].run = r
    BY <1>2, WalksRun DEF OnRun, Idle
  <1>4. run[r].kind = "ensemble" /\ GraphOf(x)' = GraphOf(x)
    BY <1>1, <1>2, <1>3 DEF GraphOf
  <1>5. \A c \in Nodes : Chair(GraphOf(x), c) => ChairOK(x, c)'
    BY <1>2, <1>3, <1>4, ChairStep
  <1>6. run[r].stopped => exec[x].pc = "stopped"
    BY <1>1, <1>4 DEF StopOK
  <1>7. ASSUME exec'[x].pc \in Stopping \/ exec[x].pc \in Stopping
        PROVE  /\ exec[x].pc = "stopped" => exec'[x].pc = "stopped"
               /\ exec'[x].pc = "stopping" => Spared(x, Open \cup {"failed"})'
               /\ exec'[x].pc = "stopped" => Spared(x, {"failed"})' /\ exec'[x].write \in {"none", "failed"}
    <2>1. CASE StopMove(x)
      <3>1. exec[x].pc \notin Stopping /\ exec'[x].pc # "stopped"
        BY <2>1 DEF StopMove, Walking, Stopping
      <3> QED  BY <2>1, <3>1, StopSpares DEF Stopping
    <2>2. CASE StoppedMove(x)
      BY <2>2, MarkSpares DEF StoppedMove, Stopping
    <2>3. ASSUME NEW n \in Nodes, NodeStep(x, n), NodeMove(x, n)
          PROVE  /\ exec'[x].pc = exec[x].pc
                 /\ exec[x].pc = "stopping" => Spared(x, Open \cup {"failed"})'
                 /\ exec[x].pc = "stopped" => Spared(x, {"failed"})' /\ exec'[x].write \in {"none", "failed"}
      <3>1. exec'[x].pc = exec[x].pc
        BY <2>3 DEF NodeStep
      <3> QED  BY <1>7, <2>3, <3>1, NodeSpares DEF Stopping
    <2>4. ~(AnswerMove(x) \/ LoadMove(x) \/ PlanMove(x) \/ DecideMove(x) \/ FinalMove(x)
            \/ EndMove(x) \/ BreakMove(x) \/ BeginMove(x) \/ \E n \in Nodes : LateMove(x, n))
      <3>1. ~(AnswerMove(x) \/ LoadMove(x) \/ PlanMove(x) \/ BreakMove(x) \/ BeginMove(x))
        BY <1>3, <1>7 DEF AnswerMove, LoadMove, PlanMove, BreakMove, BeginMove, Stopping
      <3>2. ~(DecideMove(x) \/ EndMove(x))
        BY <1>3, <1>7 DEF DecideMove, EndMove, Onwards, Stopping
      <3>3. ~(FinalMove(x) \/ \E n \in Nodes : LateMove(x, n))
        BY <1>7 DEF FinalMove, LateMove, Stopping
      <3> QED  BY <3>1, <3>2, <3>3
    <2>5. CASE \E n \in Nodes : NodeStep(x, n) /\ NodeMove(x, n)
      <3>1. /\ exec'[x].pc = exec[x].pc
            /\ exec[x].pc = "stopping" => Spared(x, Open \cup {"failed"})'
            /\ exec[x].pc = "stopped" => Spared(x, {"failed"})' /\ exec'[x].write \in {"none", "failed"}
        BY <2>3, <2>5
      <3> QED  BY <3>1
    <2> QED  BY <2>1, <2>2, <2>4, <2>5 DEF Walks
  <1>8. run'[exec'[x].run].stopped => exec'[x].pc = "stopped"
    BY <1>1, <1>3, <1>6, <1>7 DEF Stopping
  <1> QED  BY <1>4, <1>5, <1>7, <1>8 DEF StopOK, Stopping

\* What an execution knows of its deliberation, when another one moves.
LEMMA StopOther ==
  ASSUME NEW y \in Execs, StopOK(y), exec'[y] = exec[y],
         OnRun(y) => run'[exec[y].run].kind = run[exec[y].run].kind,
         OnRun(y) /\ run[exec[y].run].kind = "ensemble" =>
            /\ run'[exec[y].run].graph = run[exec[y].run].graph
            /\ (run'[exec[y].run].stopped <=> run[exec[y].run].stopped)
            /\ step'[exec[y].run] = step[exec[y].run]
  PROVE  StopOK(y)'
  <1>1. CASE OnRun(y) => run[exec[y].run].kind = "ensemble"
    BY <1>1, StopKept
  <1>2. CASE OnRun(y) /\ run[exec[y].run].kind # "ensemble"
    BY <1>2 DEF StopOK
  <1> QED  BY <1>1, <1>2

\* An execution that is on no run, or on one that is no deliberation, knows nothing.
LEMMA StopIdle ==
  ASSUME NEW y \in Execs,
         \/ exec'[y] = Idle \/ exec'[y].pc \in {"idle", "count", "check"}
         \/ run'[exec'[y].run].kind # "ensemble"
  PROVE  StopOK(y)'
  BY DEF StopOK, OnRun, Idle

\* A commit keeps what its execution knows.
LEMMA CommitStop ==
  ASSUME Base, NEW x \in Execs, StopOK(x), CommitMove(x)
  PROVE  StopOK(x)'
  <1> DEFINE r == exec[x].run
  <1>1. CASE exec[x].pc = "end"
    BY <1>1, StopIdle DEF CommitMove
  <1>2. CASE exec[x].pc # "end"
    <2>1. /\ r \in Runs /\ OnRun(x) /\ exec'[x].run = r /\ exec'[x].pc = exec[x].pc
          /\ exec'[x].wave = exec[x].wave /\ exec'[x].write = "none" /\ UNCHANGED step
          /\ run'[r].kind = run[r].kind /\ run'[r].graph = run[r].graph
          /\ (run'[r].stopped <=> run[r].stopped \/ exec[x].pc = "stopped")
          /\ \A n \in Nodes : exec'[x].at[n] = IF exec[x].at[n] = "begun" THEN "ask" ELSE exec[x].at[n]
      BY <1>2 DEF CommitMove, Stays
    <2>2. SUFFICES ASSUME run[r].kind = "ensemble" PROVE StopOK(x)'
      BY <2>1 DEF StopOK
    <2>3. \A c \in Nodes : Chair(GraphOf(x), c)' => ChairOK(x, c)'
      <3> SUFFICES ASSUME NEW c \in Nodes, Chair(GraphOf(x), c)' PROVE ChairOK(x, c)'
        OBVIOUS
      <3>1. GraphOf(x)' = GraphOf(x)
        BY <2>1 DEF GraphOf
      <3>2. Chair(GraphOf(x), c)
        BY <3>1 DEF Chair
      <3>3. ChairOK(x, c)
        BY <2>1, <2>2, <3>2 DEF StopOK
      <3> QED  BY <2>1, <3>1, <3>3 DEF ChairOK, WaveOf
    <2>4. ASSUME exec[x].pc \in Stopping, NEW S, Spared(x, S) PROVE Spared(x, S)'
      <3>1. \A n \in Nodes : exec'[x].at[n] = exec[x].at[n]
        BY <2>1, <2>4 DEF Base, AtOK
      <3> QED  BY <2>1, <2>4, <3>1 DEF Spared
    <2>5. exec[x].pc = "stopping" => Spared(x, Open \cup {"failed"})'
      <3> DEFINE S == Open \cup {"failed"}
      <3>1. exec[x].pc = "stopping" => Spared(x, S)
        BY <2>1, <2>2 DEF StopOK
      <3> HIDE DEF S
      <3>2. exec[x].pc = "stopping" => Spared(x, S)'
        BY <2>4, <3>1 DEF Stopping
      <3>3. S' = S
        BY DEF S, Open
      <3> QED  BY <3>2, <3>3 DEF S
    <2>6. exec[x].pc = "stopped" => Spared(x, {"failed"})'
      BY <2>1, <2>2, <2>4 DEF StopOK, Stopping
    <2>7. run'[r].stopped => exec[x].pc = "stopped"
      BY <2>1, <2>2 DEF StopOK
    <2> QED  BY <2>1, <2>2, <2>3, <2>5, <2>6, <2>7 DEF StopOK
  <1> QED  BY <1>1, <1>2

\* At first nothing is stopped.
LEMMA StopInit ==
  ASSUME Init
  PROVE  StopInv
  <1>1. Base
    BY BaseInit
  <1>2. \A x \in Execs : exec[x] = Idle
    BY DEF Init
  <1>3. Idle.pc = "idle" /\ Idle.run = NoRun /\ NoRun \notin Runs /\ cleaner = NoRun
    BY DEF Init, Idle, NoRun, Runs
  <1>4. \A r \in Runs : ~run[r].stopped
    BY DEF Init, NoRow
  <1> QED  BY <1>1, <1>2, <1>3, <1>4 DEF StopInv, Alone, StoppedOK, StopOK, OnRun

\* Every step keeps what the executions know of their deliberations, and a stopped
\* one stays failed.
LEMMA StopStep ==
  ASSUME StopInv, Base', [Next]_vars
  PROVE  StoppedOK' /\ \A y \in Execs : StopOK(y)'
  <1> USE DEF StopInv
  <1>0. \A y \in Execs : StopOK(y) /\ ExecOK(y)
    BY DEF Base
  <1>1. ASSUME UNCHANGED <<run, step>>, NEW x, Others(x), x \in Execs => StopOK(x)'
        PROVE  StoppedOK' /\ \A y \in Execs : StopOK(y)'
    <2>1. \A y \in Execs \ {x} : exec'[y] = exec[y]
      BY <1>1 DEF Others
    <2>2. ASSUME NEW y \in Execs, y # x PROVE StopOK(y)'
      BY <1>0, <1>1, <2>1, <2>2, StopOther
    <2> QED  BY <1>1, <2>2 DEF StoppedOK
  <1>2. ASSUME NEW r \in Runs, NEW x, Others(x), x \in Execs => StopOK(x)', ~run'[r].stopped,
               \/ run[r].kind # "ensemble" /\ run'[r].kind = run[r].kind
               \/ \A y \in Execs : exec[y].run # r,
               \A q \in Runs \ {r} : run'[q] = run[q] /\ step'[q] = step[q]
        PROVE  StoppedOK' /\ \A y \in Execs : StopOK(y)'
    <2>1. StoppedOK'
      BY <1>2 DEF StoppedOK
    <2>2. ASSUME NEW y \in Execs, y # x PROVE StopOK(y)'
      <3>1. exec'[y] = exec[y]
        BY <1>2, <2>2 DEF Others
      <3>2. OnRun(y) => exec[y].run \in Runs
        BY <1>0 DEF ExecOK
      <3> QED  BY <1>0, <1>2, <3>1, <3>2, StopOther
    <2> QED  BY <1>2, <2>1, <2>2
  <1>3. ASSUME NEW r \in Runs, run[r].kind # "ensemble" PROVE ~run[r].stopped
    BY <1>3 DEF StoppedOK
  <1>4. NoRow.kind = "none"
    BY DEF NoRow
  <1>5. ASSUME NEW x \in Execs, Walks(x) PROVE StoppedOK' /\ \A y \in Execs : StopOK(y)'
    <2>1. Steps(x) /\ StopOK(x)'
      BY <1>0, <1>5, WalksRun, WalksStop
    <2>2. ASSUME NEW y \in Execs, y # x PROVE StopOK(y)'
      <3>1. /\ exec'[y] = exec[y] /\ run' = run /\ exec[x].run \in Runs
            /\ \A q \in Runs \ {exec[x].run} : step'[q] = step[q]
        BY <2>1, <2>2 DEF Steps, Others
      <3>2. OnRun(y) => exec[y].run \in Runs
        BY <1>0 DEF ExecOK
      <3>3. OnRun(y) /\ run[exec[y].run].kind = "ensemble" => exec[y].run # exec[x].run
        BY <2>2, <3>2 DEF Alone
      <3> QED  BY <1>0, <3>1, <3>2, <3>3, StopOther
    <2> QED  BY <2>1, <2>2 DEF Steps, StoppedOK
  <1>6. ASSUME NEW x \in Execs, CommitMove(x) PROVE StoppedOK' /\ \A y \in Execs : StopOK(y)'
    <2>1. StopOK(x)'
      BY <1>0, <1>6, CommitStop
    <2>2. ASSUME NEW y \in Execs, y # x PROVE StopOK(y)'
      <3>1. /\ exec'[y] = exec[y] /\ exec[x].run \in Runs /\ step' = step
            /\ \A q \in Runs \ {exec[x].run} : run'[q] = run[q]
            /\ run'[exec[x].run].kind = run[exec[x].run].kind
        BY <1>6, <2>2 DEF CommitMove, Others
      <3>2. OnRun(y) => exec[y].run \in Runs
        BY <1>0 DEF ExecOK
      <3>3. OnRun(y) /\ run[exec[y].run].kind = "ensemble" => exec[y].run # exec[x].run
        BY <2>2, <3>2 DEF Alone
      <3> QED  BY <1>0, <3>1, <3>2, <3>3, StopOther
    <2>3. ASSUME NEW r \in Runs, run'[r].stopped
          PROVE  run'[r].status = "failed" /\ run'[r].kind = "ensemble"
      <3>1. CASE r # exec[x].run
        BY <1>6, <2>3, <3>1 DEF CommitMove, StoppedOK
      <3>2. CASE r = exec[x].run
        <4>1. /\ OnRun(x) /\ run'[r].status = exec[x].write /\ run'[r].kind = run[r].kind
              /\ exec[x].write # "none" /\ (run[r].stopped \/ exec[x].pc = "stopped")
          BY <1>6, <2>3, <3>2 DEF CommitMove
        <4>2. run[r].kind = "ensemble"
          BY <1>0, <3>2, <4>1 DEF StoppedOK, ExecOK, Stopping
        <4>3. exec[x].pc = "stopped" /\ exec[x].write \in {"none", "failed"}
          BY <1>0, <3>2, <4>1, <4>2 DEF StopOK
        <4> QED  BY <4>1, <4>2, <4>3
      <3> QED  BY <3>1, <3>2
    <2> QED  BY <2>1, <2>2, <2>3 DEF StoppedOK
  <1>7. ASSUME NEW x \in Execs, CountMove(x) \/ CheckMove(x)
        PROVE  StoppedOK' /\ \A y \in Execs : StopOK(y)'
    <2>1. StopOK(x)'
      BY <1>7, StopIdle DEF CountMove, CheckMove
    <2> QED  BY <1>1, <1>7, <2>1 DEF CountMove, CheckMove, BatchFrame
  <1>8. ASSUME LossMove PROVE StoppedOK' /\ \A y \in Execs : StopOK(y)'
    <2>1. ASSUME NEW y \in Execs PROVE StopOK(y)'
      <3>1. exec'[y] = exec[y] \/ exec'[y] = Idle
        BY <1>8 DEF LossMove
      <3>2. CASE exec'[y] = Idle
        BY <3>2, StopIdle
      <3>3. CASE exec'[y] = exec[y]
        <4>1. OnRun(y) => exec[y].run \in Runs
          BY <1>0 DEF ExecOK
        <4> QED  BY <1>0, <1>8, <3>3, <4>1, StopOther DEF LossMove
      <3> QED  BY <3>1, <3>2, <3>3
    <2> QED  BY <1>8, <2>1 DEF LossMove, StoppedOK
  <1>9. ASSUME NEW x \in Execs, NEW r \in Runs, NEW g \in Drawn \cup Ensembles, NewRunMove(x, r, g)
        PROVE  StoppedOK' /\ \A y \in Execs : StopOK(y)'
    <2>1. /\ CreateMove(r, IF g \in Ensembles THEN "ensemble" ELSE "live", g)
          /\ exec'[x].pc = "setup" /\ exec'[x].run = r /\ Others(x)
          /\ \A n \in Nodes : exec'[x].at[n] = "off"
      BY <1>9 DEF NewRunMove, Begins
    <2>2. \A y \in Execs : exec[y].run # r
      BY <1>4, <2>1, NoneExecutes DEF CreateMove
    <2>3. StopOK(x)'
      <3>1. CASE g \notin Ensembles
        BY <2>1, <3>1, StopIdle DEF CreateMove
      <3>2. CASE g \in Ensembles
        <4>1. GraphOf(x)' = g /\ g.router = {} /\ ~run'[r].stopped
          BY <2>1, <3>2, GraphTyped DEF GraphOf, CreateMove
        <4>2. \A c \in Nodes : Chair(g, c) => step'[r][c] = "pending"
          BY <2>1, <3>2, <4>1 DEF CreateMove, Chair
        <4>3. \A c \in Nodes : Chair(GraphOf(x)', c) => ChairOK(x, c)'
          BY <2>1, <4>1, <4>2 DEF ChairOK
        <4> QED  BY <2>1, <4>1, <4>3 DEF StopOK, Chair
      <3> QED  BY <3>1, <3>2
    <2> QED  BY <1>2, <2>1, <2>2, <2>3 DEF CreateMove
  <1>10. ASSUME NEW x \in Execs, NEW r \in Runs, NEW loose, NEW partial, Retold(r, loose, partial),
                run[r].kind # "ensemble", Others(x), exec'[x].run = r, UNCHANGED step
         PROVE  StoppedOK' /\ \A y \in Execs : StopOK(y)'
    <2>1. StopOK(x)' /\ ~run'[r].stopped
      BY <1>3, <1>10, StopIdle DEF Retold
    <2> QED  BY <1>2, <1>10, <2>1 DEF Retold
  <1>11. ASSUME NEW x \in Execs, NEW r \in Runs, FileMove(x, r)
         PROVE  StoppedOK' /\ \A y \in Execs : StopOK(y)'
    <2>1. CASE CreateMove(r, "file", batch.graph) /\ Begins(x, "setup", r)
      <3>1. /\ Others(x) /\ exec'[x].run = r /\ run'[r].kind = "file" /\ ~run'[r].stopped
            /\ run[r] = NoRow /\ \A q \in Runs \ {r} : run'[q] = run[q] /\ step'[q] = step[q]
        BY <2>1 DEF CreateMove, Begins
      <3>2. \A y \in Execs : exec[y].run # r
        BY <1>4, <3>1, NoneExecutes
      <3>3. StopOK(x)'
        BY <3>1, StopIdle
      <3> QED  BY <1>2, <3>1, <3>2, <3>3
    <2>2. CASE UNCHANGED <<run, step>> /\ Begins(x, "count", NoRun)
      <3>1. StopOK(x)'
        BY <2>2, StopIdle DEF Begins
      <3> QED  BY <1>1, <2>2, <3>1 DEF Begins
    <2> QED  BY <1>11, <2>1, <2>2 DEF FileMove
  <1>12. ASSUME NEW x \in Execs, Starts(x) PROVE StoppedOK' /\ \A y \in Execs : StopOK(y)'
    <2>1. PICK r \in Runs :
            \/ \E g \in Drawn \cup Ensembles : NewRunMove(x, r, g)
            \/ \E convert \in BOOLEAN : RestartMove(x, r, convert)
            \/ \E n \in Nodes, q \in Routes : AskMove(x, r, n, q)
            \/ \E n \in Nodes : SingleMove(x, r, n)
            \/ FileMove(x, r)
      BY <1>12 DEF Starts
    <2>2. CASE \E n \in Nodes, q \in Routes : AskMove(x, r, n, q)
      <3>1. run[r].kind # "ensemble"
        BY <2>2, GraphTyped DEF AskMove, Base, RowsOK
      <3> QED  BY <1>10, <2>2, <3>1 DEF AskMove, Begins
    <2>3. CASE \E convert \in BOOLEAN : RestartMove(x, r, convert)
      BY <1>10, <2>3 DEF RestartMove, Begins
    <2>4. CASE \E n \in Nodes : SingleMove(x, r, n)
      BY <1>10, <2>4 DEF SingleMove, Begins
    <2> QED  BY <1>9, <1>11, <2>1, <2>2, <2>3, <2>4
  <1>13. CASE Else
    <2> DEFINE x == MaxExec + 1
    <2>1. x \notin Execs
      BY WorkflowsAssumption DEF Execs
    <2> HIDE DEF x
    <2>2. UNCHANGED exec => Others(x)
      BY DEF Others
    <2>3. CASE CleanedMove \/ \E n \in Runs, g \in Drawn : StartMove(n, g)
      BY <1>1, <2>1, <2>2, <2>3 DEF CleanedMove, StartMove, BatchFrame
    <2>4. ASSUME NEW r \in Runs, NEW g \in Drawn, CreateMove(r, "single", g), UNCHANGED exec
          PROVE  StoppedOK' /\ \A y \in Execs : StopOK(y)'
      <3>1. \A y \in Execs : exec[y].run # r
        BY <1>4, <2>4, NoneExecutes DEF CreateMove
      <3> QED  BY <1>2, <2>1, <2>2, <2>4, <3>1 DEF CreateMove
    <2>5. CASE CleanEndMove
      <3>1. run[cleaner].kind # "ensemble" /\ cleaner \in Runs /\ ~run'[cleaner].stopped
        BY <1>3, <2>5 DEF CleanEndMove, Base, NoRun, Runs
      <3> QED  BY <1>2, <2>1, <2>2, <2>5, <3>1 DEF CleanEndMove
    <2>6. ASSUME NEW r \in Runs, CleanMove(r)
          PROVE  StoppedOK' /\ \A y \in Execs : StopOK(y)'
      <3>1. /\ run[r].kind # "ensemble" /\ run'[r].kind = run[r].kind /\ ~run'[r].stopped
            /\ UNCHANGED exec /\ \A q \in Runs \ {r} : run'[q] = run[q] /\ step'[q] = step[q]
        BY <1>3, <2>6 DEF CleanMove, Retold
      <3> QED  BY <1>2, <2>1, <2>2, <3>1
    <2> QED  BY <1>13, <2>3, <2>4, <2>5, <2>6 DEF Else
  <1>14. CASE UNCHANGED vars
    <2> DEFINE x == MaxExec + 1
    <2>1. x \notin Execs
      BY WorkflowsAssumption DEF Execs
    <2> HIDE DEF x
    <2> QED  BY <1>1, <1>14, <2>1 DEF vars, Others
  <1>15. CASE Next
    <2>1. Move
      BY <1>15, Moves
    <2> QED  BY <2>1, <1>5, <1>6, <1>7, <1>8, <1>12, <1>13 DEF Move
  <1> QED  BY <1>14, <1>15

\* A deliberation whose stop was recorded stays failed, whatever the nodes that did
\* not hear the stop still write (mark_run_failed, ensemble_service.py).
THEOREM StoppedIsFailed == Spec => []StoppedStaysFailed
  <1>1. Init => StopInv
    BY StopInit
  <1>2. StopInv /\ [Next]_vars => StopInv'
    <2> SUFFICES ASSUME StopInv, [Next]_vars PROVE StopInv'
      OBVIOUS
    <2>1. Base' /\ Alone'
      BY BaseStep, AloneStep DEF StopInv
    <2>2. StoppedOK' /\ \A y \in Execs : StopOK(y)'
      BY <2>1, StopStep
    <2> QED  BY <2>1, <2>2 DEF StopInv
  <1>3. StopInv => StoppedStaysFailed
    BY DEF StopInv, StoppedOK, StoppedStaysFailed
  <1> QED  BY <1>1, <1>2, <1>3, PTL DEF Spec

-----------------------------------------------------------------------------
(* A run at rest, and the walk that leads there.                             *)

NoneOpen(row) == \A n \in Nodes : row[n] \notin Open
Said(r) == run[r].status = Derive(step[r], run[r].partial) \/ run[r].status = "failed"
Closed(r) == run[r].ended /\ NoneOpen(step[r])
Rest(r) == Said(r) /\ (run[r].partial \/ run[r].status = "waiting" \/ Closed(r))

\* A node run by hand: what it leaves is what it found, but for its own row.  The
\* router of a person leaves a run that waits, and one that fails leaves what it may.
SingleOK(x) ==
  LET e == exec[x]
      r == exec[x].run IN
  /\ e.write = "none" => Said(r)
  /\ e.write # "none" => e.write = Derive(step[r], run[r].partial)
  /\ e.at[e.node] = "over" =>
       \/ Left(x)
       \/ e.node \notin GraphOf(x).human /\ step[r][e.node] \in {"completed", "failed"}
       \/ /\ step[r][e.node] = "waiting"
          /\ e.write = "none" => run[r].status = "waiting"
  /\ \/ run[r].partial
     \/ e.node \in GraphOf(x).human
     \/ /\ \E w \in Nodes \ {e.node} : step[r][w] = "waiting"
        /\ e.write = "none" => run[r].status = "waiting"
     \/ run[r].ended /\ \A n \in Nodes \ {e.node} : step[r][n] \notin Open

\* A result an execution has of a node is that of its row.
Has(result, status) ==
  /\ result = "skipped" => status \in {"skipped", "absent"}
  /\ result \in {"done"} \cup Routes => status = "completed"
  /\ result = "waiting" => status = "waiting"

\* What an execution knows of a node of its run: its result once it is over, or
\* once its wave is; that its user is waited for; the route it has chosen; and
\* that what was started was let in.
NodeKnown(x, n) ==
  LET e == exec[x]
      r == exec[x].run IN
  /\ e.at[n] \in {"off", "over"} => Has(e.got[n], step[r][n])
  /\ e.at[n] # "over" => e.got[n] # "waiting"
  /\ e.at[n] = "over" => e.got[n] \notin {"none", "skipped"}
  /\ WaveOf(x, n) < e.wave => e.got[n] # "none"
  /\ e.pc = "nodes" /\ e.at[n] = "off" /\ WaveOf(x, n) = e.wave => e.got[n] # "none"
  /\ e.at[n] = "over" /\ e.got[n] = "waiting" /\ e.write = "none" => run[r].status = "waiting"
  /\ e.at[n] = "late" => e.got[n] = "failed"
  /\ n \in GraphOf(x).router /\ step[r][n] = "completed" =>
       e.at[n] \in {"off", "over"} /\ e.got[n] = route[r][n]
  /\ e.pc = "nodes" /\ e.at[n] = "start" /\ n \notin GraphOf(x).router =>
       ShouldExecute(GraphOf(x), n, e.got)

Says(x) == exec[x].write # "none" =>
             exec[x].write = Derive(step[exec[x].run], run[exec[x].run].partial)
WalkOK(x) == Says(x) /\ \A n \in GraphOf(x).nodes : NodeKnown(x, n)

\* What an execution knows while it alone touches its run.
Working(x) ==
  LET e == exec[x]
      r == exec[x].run IN
  /\ e.pc = "answer" => step[r][e.node] = "waiting"
  /\ e.pc = "single" => SingleOK(x)
  /\ e.pc \in {"plan", "nodes"} /\ ~e.stop => WalkOK(x)
  /\ e.stop => e.pc \in {"nodes"} \cup Stopping
  /\ e.pc = "nodes" /\ e.stop => \A n \in Nodes : e.at[n] # "start"
  /\ e.pc = "final" /\ e.ok => NoneOpen(step[r])
  /\ e.pc = "end" => NoneOpen(step[r]) /\ e.write \in {Derive(step[r], run[r].partial), "failed"}
  /\ e.pc = "stopped" =>
       /\ NoneOpen(step[r])
       /\ e.write = "none" => Said(r) /\ run[r].ended
       /\ e.write # "none" => e.write \in {Derive(step[r], run[r].partial), "failed"}

\* A run touched by one at a time is at rest, being cleaned, or worked on.
Settles(r) ==
  ~run[r].loose /\ run[r].kind # "none" =>
    /\ ~Busy(r) => Rest(r)
    /\ cleaner = r => NoneOpen(step[r])
    /\ \A x \in Execs : exec[x].run = r => Working(x)

SettledInv == Base /\ Alone /\ \A r \in Runs : Settles(r)

\* A row that waits makes its run wait,
LEMMA WaitingDerived ==
  ASSUME NEW row, NEW partial, NEW n \in Nodes, row[n] = "waiting"
  PROVE  Derive(row, partial) = "waiting"
  BY DEF Derive

\* and nothing else does.
LEMMA DerivedWaiting ==
  ASSUME NEW row, NEW partial, Derive(row, partial) = "waiting"
  PROVE  \E n \in Nodes : row[n] = "waiting"
  BY DEF Derive

\* A full run is completed only when all its rows are finished.
LEMMA DerivedCompleted ==
  ASSUME NEW row, Derive(row, FALSE) = "completed"
  PROVE  \A n \in Nodes : row[n] \in Finished \cup {"absent"}
  BY DEF Derive

\* A run whose rows are pending is running.
LEMMA DerivedPending ==
  ASSUME NEW row, NEW partial, \A n \in Nodes : row[n] \in {"pending", "absent"}
  PROVE  Derive(row, partial) = "running"
  BY DEF Derive, Finished

\* Whether a node is let in depends on the results of those before it.
LEMMA ShouldKept ==
  ASSUME NEW g, NEW n, NEW got, NEW gut,
         \A e \in g.edge : e.to = n => got[e.from] = gut[e.from],
         ShouldExecute(g, n, got)
  PROVE  ShouldExecute(g, n, gut)
  <1>1. {e \in {d \in g.edge : d.to = n} : e.route # Plain /\ got[e.from] \in Routes}
          = {e \in {d \in g.edge : d.to = n} : e.route # Plain /\ gut[e.from] \in Routes}
    OBVIOUS
  <1> QED  BY <1>1 DEF ShouldExecute

\* The waves of the graph of an execution: every edge leads to a later one, and the
\* last one is the one nothing is behind.
LEMMA WavesOrdered ==
  ASSUME Base, NEW x \in Execs, OnRun(x)
  PROVE  /\ \A n \in GraphOf(x).nodes : n \in Nodes /\ WaveOf(x, n) \in Nat /\ WaveOf(x, n) > 0
         /\ \A e \in GraphOf(x).edge : /\ e.from \in GraphOf(x).nodes
                                       /\ WaveOf(x, e.from) < WaveOf(x, e.to)
                                       /\ e.route # Plain => e.from \in GraphOf(x).router
         /\ InWave(exec[x].run, exec[x].wave + 1) = {} =>
              \A n \in GraphOf(x).nodes : WaveOf(x, n) <= exec[x].wave
  <1>1. GraphOf(x) \in Drawn \cup Ensembles /\ exec[x].wave \in Nat
    BY GraphKnown, Typed DEF Base, ExecRow
  <1>2. GraphOf(x).nodes \subseteq Nodes
    BY <1>1, GraphTyped
  <1> DEFINE W == Wave(GraphOf(x))
  <1>3. /\ \A e \in GraphOf(x).edge : /\ e.from \in GraphOf(x).nodes
                                      /\ W[e.from] < W[e.to]
                                      /\ e.route # Plain => e.from \in GraphOf(x).router
        /\ \A n \in GraphOf(x).nodes :
              W[n] \in Nat /\ W[n] > 0 /\ \A w \in 1 .. W[n] : \E m \in GraphOf(x).nodes : W[m] = w
    BY <1>1, GraphsAssumption
  <1>4. \A n : WaveOf(x, n) = W[n]
    BY DEF WaveOf
  <1>5. InWave(exec[x].run, exec[x].wave + 1) = {m \in GraphOf(x).nodes : W[m] = exec[x].wave + 1}
    BY DEF InWave, GraphOf, NodesOf
  <1> HIDE DEF W
  <1>6. ASSUME NEW n \in GraphOf(x).nodes, W[n] > exec[x].wave
        PROVE  \E m \in GraphOf(x).nodes : W[m] = exec[x].wave + 1
    BY <1>1, <1>3, <1>6
  <1>7. ASSUME NEW n \in GraphOf(x).nodes, ~(W[n] <= exec[x].wave) PROVE W[n] > exec[x].wave
    BY <1>1, <1>3, <1>7
  <1> QED  BY <1>2, <1>3, <1>4, <1>5, <1>6, <1>7

\* What an execution has read from the rows, before its first wave.
LEMMA LoadKnown ==
  ASSUME Base, NEW x \in Execs, LoadMove(x)
  PROVE  WalkOK(x)'
  <1> DEFINE r == exec[x].run
             f == exec'[x]
  <1>1. /\ OnRun(x) /\ r \in Runs /\ run' = run /\ step' = step /\ route' = route /\ f.run = r
        /\ f.pc = "plan" /\ f.wave = 1 /\ f.write = "none" /\ f.at = exec[x].at
        /\ exec[x].pc = "load"
    BY DEF LoadMove, Steps, Stays
  <1>2. GraphOf(x)' = GraphOf(x) /\ \A n : WaveOf(x, n)' = WaveOf(x, n)
    BY <1>1 DEF GraphOf, WaveOf
  <1>3. SUFFICES ASSUME NEW n \in GraphOf(x).nodes PROVE NodeKnown(x, n)'
    BY <1>1, <1>2 DEF WalkOK, Says
  <1>4. n \in Nodes /\ ~(WaveOf(x, n) < 1)
    BY <1>1, WavesOrdered
  <1>5. f.at[n] = "off"
    BY <1>1, <1>4 DEF Base, AtOK
  <1>6. f.got[n] = IF step[r][n] = "skipped" THEN "skipped"
                   ELSE IF step[r][n] # "completed" THEN "none"
                   ELSE IF n \in GraphOf(x).router THEN route[r][n] ELSE "done"
    BY <1>4 DEF LoadMove, GraphOf
  <1>7. step[r][n] = "completed" /\ n \in GraphOf(x).router => route[r][n] \in Routes
    BY <1>1, <1>4 DEF Base, RowsOK, GraphOf
  <1>8. Has(f.got[n], step[r][n]) /\ f.got[n] # "waiting"
    BY <1>6, <1>7 DEF Has, Routes
  <1> HIDE DEF f
  <1> QED  BY <1>1, <1>2, <1>4, <1>5, <1>6, <1>8 DEF NodeKnown, f

\* Nothing is open once every node has a result that is no failure.
LEMMA AllDone ==
  ASSUME Base', NEW x \in Execs, OnRun(x)',
         \A n \in GraphOf(x)'.nodes : /\ exec'[x].got[n] \notin {"none", "failed", "waiting"}
                                      /\ Has(exec'[x].got[n], step'[exec'[x].run][n])
  PROVE  NoneOpen(step'[exec'[x].run])
  <1> SUFFICES ASSUME NEW n \in Nodes PROVE step'[exec'[x].run][n] \notin Open
    BY DEF NoneOpen
  <1>1. exec'[x].got[n] \in Result
    <2>1. (TypeOK <=> exec \in [Execs -> ExecRow] /\ TypeOK)'
      BY DEF TypeOK, ExecRow
    <2> QED  BY <2>1 DEF Base, ExecRow
  <1>2. exec'[x].run \in Runs
    BY DEF Base, ExecOK
  <1>3. CASE n \in GraphOf(x)'.nodes
    BY <1>1, <1>3 DEF Has, Result, Open
  <1>4. CASE n \notin GraphOf(x)'.nodes
    BY <1>2, <1>4 DEF Base, RowsOK, GraphOf, NodesOf, Open
  <1> QED  BY <1>3, <1>4

\* What an execution knows when it has planned a wave, or found no other.
LEMMA PlanKnown ==
  ASSUME Base, Base', NEW x \in Execs, PlanMove(x), WalkOK(x)
  PROVE  /\ exec'[x].pc # "final" => WalkOK(x)'
         /\ exec'[x].pc = "final" /\ exec'[x].ok => NoneOpen(step'[exec'[x].run])
  <1> DEFINE r == exec[x].run
             e == exec[x]
             f == exec'[x]
             g == GraphOf(x)
  <1>1. /\ OnRun(x) /\ r \in Runs /\ run' = run /\ route' = route /\ f.run = r /\ e.wave \in Nat
        /\ f.pc \in {"plan", "nodes", "final"} /\ OnRun(x)'
    BY Typed DEF PlanMove, Steps, Stays, Base, ExecRow, OnRun
  <1>2. GraphOf(x)' = g /\ \A n : WaveOf(x, n)' = WaveOf(x, n)
    BY <1>1 DEF GraphOf, WaveOf
  <1>3. Says(x)'
    BY <1>1 DEF PlanMove, Says
  <1>4. ASSUME NEW n \in g.nodes
        PROVE  /\ n \in Nodes /\ WaveOf(x, n) \in Nat /\ NodeKnown(x, n) /\ e.at[n] = "off"
               /\ e.got[n] # "waiting" /\ Has(e.got[n], step[r][n])
               /\ n \in Due(x) <=> WaveOf(x, n) = e.wave /\ e.got[n] \in {"none", "skipped"}
               /\ step[r][n] = "completed" /\ n \in g.router => route[r][n] \in Routes
    <2>1. n \in Nodes /\ WaveOf(x, n) \in Nat /\ NodeKnown(x, n)
      BY <1>1, WavesOrdered DEF WalkOK
    <2>2. e.at[n] = "off"
      BY <2>1 DEF Base, AtOK, PlanMove
    <2>3. n \in Due(x) <=> WaveOf(x, n) = e.wave /\ e.got[n] \in {"none", "skipped"}
      BY DEF Due, InWave, WaveOf, GraphOf, NodesOf
    <2>4. step[r][n] = "completed" /\ n \in g.router => route[r][n] \in Routes
      BY <1>1, <2>1 DEF Base, RowsOK, GraphOf
    <2> QED  BY <2>1, <2>2, <2>3, <2>4 DEF NodeKnown
  <1>5. \A n \in Nodes : /\ f.got[n] = IF n \in Skips(x) THEN "skipped" ELSE e.got[n]
                         /\ step'[r][n] = IF n \in Skips(x) /\ step[r][n] # "absent"
                                          THEN "skipped" ELSE step[r][n]
                         /\ f.at[n] = IF n \in Ready(x) THEN "start" ELSE "off"
    BY DEF PlanMove
  <1>6. \/ f.pc = "nodes" /\ f.wave = e.wave
        \/ f.pc = "plan" /\ f.wave = e.wave + 1 /\ Ready(x) = {}
        \/ /\ f.pc = "final" /\ Ready(x) = {} /\ InWave(r, e.wave + 1) = {}
           /\ f.ok <=> \A n \in Nodes : f.got[n] # "failed"
    BY DEF PlanMove
  <1>7. ASSUME NEW n \in g.nodes
        PROVE  /\ f.at[n] \in {"off", "start"} /\ f.got[n] # "waiting"
               /\ Has(f.got[n], step'[r][n])
               /\ n \notin Ready(x) /\ WaveOf(x, n) <= e.wave => f.got[n] # "none"
               /\ f.at[n] = "start" => n \in Ready(x) /\ WaveOf(x, n) = e.wave
               /\ n \in g.router /\ step'[r][n] = "completed" => f.at[n] = "off" /\ f.got[n] = route[r][n]
    <2>1. Ready(x) \subseteq Due(x) /\ Skips(x) = Due(x) \ Ready(x)
      BY DEF Ready, Skips
    <2>2. n \in Skips(x) => step'[r][n] \in {"absent", "skipped"} /\ f.got[n] = "skipped" /\ f.at[n] = "off"
      BY <1>4, <1>5, <2>1
    <2>3. n \in Ready(x) => /\ step'[r][n] = step[r][n] /\ f.got[n] = e.got[n] /\ f.at[n] = "start"
                            /\ e.got[n] \in {"none", "skipped"} /\ WaveOf(x, n) = e.wave
      BY <1>4, <1>5, <2>1
    <2>4. n \notin Due(x) => /\ step'[r][n] = step[r][n] /\ f.got[n] = e.got[n] /\ f.at[n] = "off"
                             /\ WaveOf(x, n) # e.wave \/ e.got[n] # "none"
      BY <1>4, <1>5, <2>1
    <2>5. WaveOf(x, n) < e.wave => e.got[n] # "none"
      BY <1>4 DEF NodeKnown
    <2>6. n \in g.router /\ step[r][n] = "completed" => e.got[n] = route[r][n] /\ route[r][n] \in Routes
      BY <1>4 DEF NodeKnown
    <2> HIDE DEF e, f, r, g
    <2>7. CASE n \in Skips(x)
      BY <1>4, <2>1, <2>2, <2>7 DEF Has, Routes
    <2>8. CASE n \in Ready(x)
      BY <1>4, <2>3, <2>6, <2>8 DEF Routes
    <2>9. CASE n \notin Due(x)
      BY <1>1, <1>4, <2>1, <2>4, <2>5, <2>6, <2>9
    <2> QED  BY <2>1, <2>7, <2>8, <2>9
  <1>8. ASSUME NEW n \in g.nodes, f.pc = "nodes", f.at[n] = "start"
        PROVE  ShouldExecute(g, n, f.got)
    <2>1. n \in Ready(x) /\ WaveOf(x, n) = e.wave
      BY <1>7, <1>8
    <2>2. ShouldExecute(g, n, e.got)
      BY <2>1 DEF Ready
    <2>3. \A d \in g.edge : d.to = n => e.got[d.from] = f.got[d.from]
      <3> SUFFICES ASSUME NEW d \in g.edge, d.to = n PROVE e.got[d.from] = f.got[d.from]
        OBVIOUS
      <3>1. d.from \in g.nodes /\ WaveOf(x, d.from) < WaveOf(x, n)
        BY <1>1, WavesOrdered
      <3>2. d.from \notin Skips(x) /\ d.from \in Nodes
        BY <1>1, <1>4, <2>1, <3>1 DEF Skips
      <3> QED  BY <1>5, <3>2
    <2> HIDE DEF e, f, r, g
    <2> QED  BY <2>2, <2>3, ShouldKept
  <1>9. ASSUME f.pc # "final", NEW n \in g.nodes PROVE NodeKnown(x, n)'
    <2>1. ~(f.pc = "final")
      BY <1>9
    <2>2. WaveOf(x, n) < f.wave => f.got[n] # "none"
      <3>0. n \in Ready(x) => WaveOf(x, n) = e.wave
        BY <1>4 DEF Ready
      <3> HIDE DEF e, f, r, g
      <3> QED  BY <1>1, <1>4, <1>6, <1>7, <1>9, <3>0
    <2>3. f.pc = "nodes" /\ f.at[n] = "off" /\ WaveOf(x, n) = f.wave => f.got[n] # "none"
      <3>1. f.at[n] = "off" => n \notin Ready(x)
        BY <1>4, <1>5
      <3> HIDE DEF e, f, r, g
      <3> QED  BY <1>1, <1>4, <1>6, <1>7, <1>9, <3>1
    <2>4. f.at[n] \in {"off", "start"} /\ f.got[n] # "waiting" /\ Has(f.got[n], step'[r][n])
          /\ (n \in g.router /\ step'[r][n] = "completed" => f.at[n] = "off" /\ f.got[n] = route[r][n])
      BY <1>7
    <2> HIDE DEF f
    <2> QED  BY <1>1, <1>2, <1>8, <2>2, <2>3, <2>4 DEF NodeKnown, f
  <1>10. CASE f.pc = "final" /\ f.ok
    <2>1. \A n \in g.nodes : n \in Nodes /\ WaveOf(x, n) <= e.wave /\ n \notin Ready(x)
      BY <1>1, <1>6, <1>10, WavesOrdered
    <2>2. \A n \in g.nodes : f.got[n] \notin {"none", "failed", "waiting"} /\ Has(f.got[n], step'[r][n])
      BY SMTT(30), <1>6, <1>7, <1>10, <2>1
    <2> QED  BY <1>1, <1>2, <1>10, <2>2, AllDone
  <1> QED  BY <1>2, <1>3, <1>9, <1>10 DEF WalkOK

\* What it knows when a wave is over, or what it leaves.
LEMMA DecideKnown ==
  ASSUME Base, Base', NEW x \in Execs, NEW r \in Runs, r = exec[x].run, DecideMove(x), WalkOK(x)
  PROVE  /\ exec'[x].pc = "plan" => WalkOK(x)'
         /\ exec'[x].pc = "final" /\ exec'[x].ok => NoneOpen(step'[exec'[x].run])
         /\ exec'[x] = Idle => Rest(r)'
  <1> DEFINE e == exec[x]
             f == exec'[x]
             g == GraphOf(x)
  <1>1. /\ OnRun(x) /\ r \in Runs /\ run' = run /\ route' = route /\ e.wave \in Nat
        /\ e.pc = "nodes" /\ e.write = "none" /\ \A n \in Nodes : e.at[n] \in {"off", "over"}
    BY Typed DEF DecideMove, Steps, Base, ExecRow
  <1>2. ASSUME NEW n \in g.nodes
        PROVE  /\ n \in Nodes /\ WaveOf(x, n) \in Nat /\ NodeKnown(x, n)
               /\ WaveOf(x, n) <= e.wave => e.got[n] # "none"
               /\ Has(e.got[n], step[r][n]) /\ e.at[n] \in {"off", "over"}
    <2>1. n \in Nodes /\ WaveOf(x, n) \in Nat /\ NodeKnown(x, n)
      BY <1>1, WavesOrdered DEF WalkOK
    <2>2. e.at[n] \in {"off", "over"}
      BY <1>1, <2>1
    <2>3. WaveOf(x, n) <= e.wave => e.got[n] # "none"
      <3>1. WaveOf(x, n) <= e.wave => WaveOf(x, n) < e.wave \/ WaveOf(x, n) = e.wave
        BY <1>1, <2>1
      <3> QED  BY <1>1, <2>1, <2>2, <3>1 DEF NodeKnown
    <2> QED  BY <2>1, <2>2, <2>3 DEF NodeKnown
  <1>3. CASE /\ \A n \in Nodes : e.at[n] = "over" => e.got[n] # "waiting"
             /\ UNCHANGED step /\ Onwards(f, e)
    <2>1. f.run = r /\ f.got = e.got /\ f.write = "none" /\ GraphOf(x)' = g
          /\ (\A n : WaveOf(x, n)' = WaveOf(x, n)) /\ f # Idle /\ f.pc \in {"plan", "final"}
      BY <1>1, <1>3 DEF Onwards, GraphOf, WaveOf, Idle
    <2>2. ASSUME NEW n \in g.nodes PROVE e.got[n] # "waiting"
      BY <1>2, <1>3 DEF NodeKnown
    <2>3. CASE f.pc = "plan"
      <3>1. f.wave = e.wave + 1 /\ \A n \in Nodes : f.at[n] = "off"
        BY <1>3, <2>3 DEF Onwards
      <3>2. ASSUME NEW n \in g.nodes PROVE NodeKnown(x, n)'
        <4>1. WaveOf(x, n) < f.wave => e.got[n] # "none"
          <5> HIDE DEF e, f, g
          <5> QED  BY <1>1, <1>2, <3>1
        <4>2. n \in g.router /\ step[r][n] = "completed" => e.got[n] = route[r][n]
          BY <1>2 DEF NodeKnown
        <4> HIDE DEF f
        <4> QED  BY <1>1, <1>2, <1>3, <2>1, <2>2, <2>3, <3>1, <4>1, <4>2 DEF NodeKnown, f
      <3> QED  BY <2>1, <2>3, <3>2 DEF WalkOK, Says
    <2>4. CASE f.pc = "final" /\ f.ok
      <3>1. InWave(r, e.wave + 1) = {} /\ \A n \in Nodes : e.got[n] # "failed"
        BY <1>3, <2>4 DEF Onwards
      <3>2. \A n \in g.nodes : WaveOf(x, n) <= e.wave
        BY <1>1, <3>1, WavesOrdered
      <3>3. \A n \in g.nodes : f.got[n] \notin {"none", "failed", "waiting"} /\ Has(f.got[n], step'[r][n])
        BY <1>2, <1>3, <2>1, <2>2, <3>1, <3>2
      <3>4. OnRun(x)'
        BY <2>4 DEF OnRun
      <3> QED  BY <2>1, <2>4, <3>3, <3>4, AllDone
    <2> QED  BY <2>1, <2>3, <2>4
  <1>4. CASE f = Idle /\ UNCHANGED step /\ \E n \in Nodes : e.at[n] = "over" /\ e.got[n] = "waiting"
    <2>1. PICK n \in Nodes : e.at[n] = "over" /\ e.got[n] = "waiting"
      BY <1>4
    <2>2. n \in g.nodes
      BY <2>1 DEF Base, AtOK
    <2>3. run[r].status = "waiting" /\ step[r][n] = "waiting"
      BY <1>1, <1>2, <2>1, <2>2 DEF NodeKnown, Has
    <2>4. Derive(step[r], run[r].partial) = "waiting"
      BY <2>3, WaitingDerived
    <2>5. Rest(r)'
      BY <1>1, <1>4, <2>3, <2>4 DEF Rest, Said
    <2>6. f.pc = "idle"
      BY <1>4 DEF Idle
    <2> QED  BY <2>5, <2>6
  <1>5. CASE f.pc = "final" /\ ~f.ok
    BY <1>5 DEF Idle
  <1> QED  BY <1>3, <1>4, <1>5 DEF DecideMove

\* The nodes of a wave are let in by those of the waves before.
LEMMA WaveApart ==
  ASSUME Base, NEW x \in Execs, exec[x].pc = "nodes", NEW n \in Nodes, NEW m \in GraphOf(x).nodes,
         exec[x].at[n] # "off", exec[x].at[m] # "off",
         ShouldExecute(GraphOf(x), m, exec[x].got),
         \A k \in Nodes \ {n} : exec'[x].got[k] = exec[x].got[k]
  PROVE  ShouldExecute(GraphOf(x), m, exec'[x].got)
  <1>1. OnRun(x)
    BY DEF OnRun
  <1>2. m \in Nodes /\ n \in GraphOf(x).nodes
    BY <1>1, WavesOrdered DEF Base, AtOK
  <1>3. WaveOf(x, n) = WaveOf(x, m) /\ WaveOf(x, n) \in Nat
    BY <1>1, <1>2, WavesOrdered DEF Base, AtOK
  <1>4. ASSUME NEW d \in GraphOf(x).edge, d.to = m PROVE exec[x].got[d.from] = exec'[x].got[d.from]
    <2>1. d.from \in GraphOf(x).nodes /\ WaveOf(x, d.from) < WaveOf(x, m)
      BY <1>1, <1>4, WavesOrdered
    <2>2. d.from # n /\ d.from \in Nodes
      BY <1>1, <1>3, <2>1, WavesOrdered
    <2> QED  BY <2>2
  <1> QED  BY <1>4, ShouldKept

\* What it knows when a node goes on,
LEMMA NodeWalk ==
  ASSUME Base, NEW x \in Execs, NEW n \in Nodes, NodeStep(x, n), NodeMove(x, n),
         exec[x].pc = "nodes", WalkOK(x)
  PROVE  WalkOK(x)'
  <1> DEFINE r == exec[x].run
             e == exec[x]
             f == exec'[x]
             g == GraphOf(x)
  <1>1. /\ OnRun(x) /\ r \in Runs /\ run' = run /\ f.run = r /\ e.write = "none"
        /\ f.pc = "nodes" /\ f.wave = e.wave /\ f.stop = e.stop
        /\ \A m \in Nodes \ {n} : /\ f.at[m] = e.at[m] /\ f.got[m] = e.got[m]
                                  /\ step'[r][m] = step[r][m] /\ route'[r][m] = route[r][m]
        /\ \/ f.write = Derive(step'[r], run[r].partial)
           \/ f.write = "none"
    BY DEF NodeStep
  <1>2. GraphOf(x)' = g /\ \A m : WaveOf(x, m)' = WaveOf(x, m)
    BY <1>1 DEF GraphOf, WaveOf
  <1>3. Says(x)'
    BY SMTT(30), <1>1 DEF Says
  <1>4. e.at[n] \notin {"off", "over"} /\ n \in g.nodes /\ WaveOf(x, n) = e.wave
    BY DEF NodeMove, Base, AtOK
  <1>5. \A m \in g.nodes : m \in Nodes /\ WaveOf(x, m) \in Nat /\ NodeKnown(x, m)
    BY <1>1, WavesOrdered DEF WalkOK
  <1>6. ASSUME NEW m \in g.nodes, m # n PROVE NodeKnown(x, m)'
    <2>1. ASSUME f.at[m] = "start", m \notin g.router PROVE ShouldExecute(g, m, f.got)
      <3>1. ShouldExecute(g, m, e.got) /\ e.at[m] = "start"
        BY <1>1, <1>5, <1>6, <2>1 DEF NodeKnown
      <3> QED  BY <1>1, <1>4, <1>5, <3>1, WaveApart
    <2>2. /\ f.at[m] = e.at[m] /\ f.got[m] = e.got[m] /\ step'[r][m] = step[r][m]
          /\ route'[r][m] = route[r][m] /\ NodeKnown(x, m)
      BY SMTT(30), <1>1, <1>5, <1>6
    <2> HIDE DEF f
    <2> QED  BY <1>1, <1>2, <2>1, <2>2 DEF NodeKnown, f
  <1>7. NodeKnown(x, n)'
    <2>1. /\ NodeKnown(x, n) /\ e.got[n] # "waiting"
          /\ n \in g.router /\ step[r][n] = "completed" => FALSE
          /\ e.at[n] = "late" => e.got[n] = "failed"
      BY <1>4, <1>5 DEF NodeKnown
    <2>2. ~(WaveOf(x, n) < e.wave)
      BY <1>4, <1>5
    <2>3. e.at[n] # "reset"
      BY DEF Base, AtOK
    <2>4. GraphOf(x) = run[r].graph /\ GraphOf(x).human \subseteq GraphOf(x).router
      BY <1>1, GraphKnown DEF GraphOf
    <2>5. CASE /\ e.at[n] = "start" /\ f.at[n] = "begun" /\ f.got[n] = e.got[n] /\ f.write # "none"
               /\ step'[r][n] = "running" /\ UNCHANGED route
      <3> HIDE DEF f, e
      <3> QED  BY <1>1, <1>2, <2>1, <2>2, <2>5 DEF NodeKnown, f, e
    <2>6. CASE f.at[n] = "over" /\ f.got[n] = "waiting" /\ step'[r][n] = "waiting" /\ f.write # "none"
      <3>1. Has(f.got[n], step'[r][n])
        BY <2>6 DEF Has, Routes
      <3> HIDE DEF f, e
      <3> QED  BY <1>1, <1>2, <2>2, <2>6, <3>1 DEF NodeKnown, f
    <2>7. CASE /\ f.at[n] = "over" /\ step'[r][n] = "completed"
               /\ \/ n \in g.router /\ f.got[n] \in Routes /\ route'[r][n] = f.got[n]
                  \/ n \notin g.router /\ f.got[n] = "done" /\ UNCHANGED route
      <3>1. Has(f.got[n], step'[r][n]) /\ f.got[n] \notin {"none", "skipped", "waiting"}
        BY <2>7 DEF Has, Routes
      <3> HIDE DEF f, e
      <3> QED  BY <1>1, <1>2, <2>2, <2>7, <3>1 DEF NodeKnown, f
    <2>8. CASE /\ f.at[n] = "over" /\ f.got[n] = "failed"
               /\ step'[r][n] = "failed" \/ UNCHANGED step
      <3>1. Has(f.got[n], step'[r][n])
        BY <2>8 DEF Has, Routes
      <3>2. n \in g.router /\ step'[r][n] = "completed" => FALSE
        BY <2>1, <2>8
      <3> HIDE DEF f, e
      <3> QED  BY <1>1, <1>2, <2>2, <2>8, <3>1, <3>2 DEF NodeKnown, f
    <2> QED  BY <2>1, <2>3, <2>4, <2>5, <2>6, <2>7, <2>8 DEF NodeMove
  <1> QED  BY <1>2, <1>3, <1>6, <1>7 DEF WalkOK

\* when one overruns,
LEMMA LateWalk ==
  ASSUME Base, NEW x \in Execs, NEW n \in Nodes, LateMove(x, n), WalkOK(x)
  PROVE  WalkOK(x)'
  <1> DEFINE r == exec[x].run
             e == exec[x]
             f == exec'[x]
             g == GraphOf(x)
  <1>1. /\ OnRun(x) /\ r \in Runs /\ run' = run /\ f.run = r /\ f.write = e.write /\ step' = step
        /\ f.pc = "nodes" /\ f.wave = e.wave /\ route' = route /\ e.pc = "nodes"
        /\ e.at[n] \in {"start", "begun", "ask"} /\ f.at[n] = "late" /\ f.got[n] = "failed"
        /\ \A m \in Nodes \ {n} : f.at[m] = e.at[m] /\ f.got[m] = e.got[m]
    BY DEF LateMove, Steps, Stays
  <1>2. GraphOf(x)' = g /\ \A m : WaveOf(x, m)' = WaveOf(x, m)
    BY <1>1 DEF GraphOf, WaveOf
  <1>3. Says(x)'
    BY <1>1 DEF WalkOK, Says
  <1>5. \A m \in g.nodes : m \in Nodes /\ WaveOf(x, m) \in Nat /\ NodeKnown(x, m)
    BY <1>1, WavesOrdered DEF WalkOK
  <1>6. ASSUME NEW m \in g.nodes, m # n PROVE NodeKnown(x, m)'
    <2>1. ASSUME f.at[m] = "start", m \notin g.router PROVE ShouldExecute(g, m, f.got)
      <3>1. ShouldExecute(g, m, e.got) /\ e.at[m] = "start"
        BY <1>1, <1>5, <1>6, <2>1 DEF NodeKnown
      <3> QED  BY <1>1, <1>5, <3>1, WaveApart
    <2>2. f.at[m] = e.at[m] /\ f.got[m] = e.got[m] /\ NodeKnown(x, m)
      BY <1>1, <1>5, <1>6
    <2> HIDE DEF f
    <2> QED  BY <1>1, <1>2, <2>1, <2>2 DEF NodeKnown, f
  <1>7. n \in g.nodes /\ ~(n \in g.router /\ step[r][n] = "completed")
    BY <1>1, <1>5 DEF NodeKnown, Base, AtOK
  <1>8. NodeKnown(x, n)'
    <2> HIDE DEF f
    <2> QED  BY <1>1, <1>2, <1>7 DEF NodeKnown, f
  <1> QED  BY <1>2, <1>3, <1>6, <1>8 DEF WalkOK

\* and when it has written the status.
LEMMA CommitWalk ==
  ASSUME Base, NEW x \in Execs, CommitMove(x), exec[x].pc \in {"plan", "nodes"}, WalkOK(x)
  PROVE  WalkOK(x)'
  <1> DEFINE r == exec[x].run
             e == exec[x]
             f == exec'[x]
             g == GraphOf(x)
  <1>1. /\ OnRun(x) /\ r \in Runs /\ f.run = r /\ f.write = "none" /\ step' = step /\ e.write # "none"
        /\ f.pc = e.pc /\ f.wave = e.wave /\ route' = route /\ f.got = e.got
        /\ \A m \in Nodes : f.at[m] = IF e.at[m] = "begun" THEN "ask" ELSE e.at[m]
        /\ run'[r].graph = run[r].graph /\ run'[r].status = e.write
    BY DEF CommitMove, Stays
  <1>2. GraphOf(x)' = g /\ \A m : WaveOf(x, m)' = WaveOf(x, m)
    BY <1>1 DEF GraphOf, WaveOf
  <1>3. e.write = Derive(step[r], run[r].partial)
    BY <1>1 DEF WalkOK, Says
  <1>4. \A m \in g.nodes : m \in Nodes /\ NodeKnown(x, m)
    BY <1>1, WavesOrdered DEF WalkOK
  <1>5. ASSUME NEW m \in g.nodes PROVE NodeKnown(x, m)'
    <2>1. f.at[m] = "over" /\ f.got[m] = "waiting" => run'[r].status = "waiting"
      <3> SUFFICES ASSUME f.at[m] = "over", f.got[m] = "waiting" PROVE run'[r].status = "waiting"
        OBVIOUS
      <3>1. m \in Nodes /\ e.at[m] = "over" /\ e.got[m] = "waiting"
        BY <1>1, <1>4
      <3>2. step[r][m] = "waiting"
        BY <1>4, <3>1 DEF NodeKnown, Has
      <3> QED  BY <1>1, <1>3, <3>1, <3>2, WaitingDerived
    <2>2. /\ f.at[m] \in {"off", "over", "start", "late"} => f.at[m] = e.at[m]
          /\ e.at[m] # f.at[m] => e.at[m] = "begun" /\ f.at[m] = "ask"
          /\ NodeKnown(x, m)
      BY SMTT(30), <1>1, <1>4
    <2> HIDE DEF f, e
    <2> QED  BY <1>1, <1>2, <2>1, <2>2 DEF NodeKnown, f, e
  <1> QED  BY <1>1, <1>2, <1>5 DEF WalkOK, Says

\* A node run by hand: it goes on,
LEMMA SingleNode ==
  ASSUME Base, NEW x \in Execs, NEW n \in Nodes, NodeStep(x, n), NodeMove(x, n),
         exec[x].pc = "single", SingleOK(x)
  PROVE  SingleOK(x)'
  <1> DEFINE r == exec[x].run
             e == exec[x]
             f == exec'[x]
             g == GraphOf(x)
  <1>1. /\ OnRun(x) /\ r \in Runs /\ run' = run /\ f.run = r /\ f.node = e.node /\ e.write = "none"
        /\ \A m \in Nodes \ {n} : f.at[m] = e.at[m] /\ step'[r][m] = step[r][m]
        /\ \/ f.write = Derive(step'[r], run[r].partial)
           \/ f.write = "none" /\ UNCHANGED step
    BY DEF NodeStep
  <1>2. e.at[n] \notin {"off", "over", "late"} /\ n = e.node
    <2>1. e.at[n] \notin {"off", "over"}
      BY DEF NodeMove
    <2> QED  BY <2>1 DEF Base, AtOK
  <1>3. g' = g /\ g.human \subseteq g.router
    BY <1>1, GraphKnown DEF GraphOf
  <1>4. f.write # "none" \/ UNCHANGED step
    BY DEF NodeMove
  <1>5. /\ f.write = "none" => \/ run'[r].status = Derive(step'[r], run'[r].partial)
                                \/ run'[r].status = "failed"
        /\ f.write # "none" => f.write = Derive(step'[r], run'[r].partial)
    BY <1>1, <1>4 DEF SingleOK, Said
  <1>6. f.at[n] = "over" => \/ Left(x)'
                            \/ n \notin g.human /\ step'[r][n] \in {"completed", "failed"}
                            \/ step'[r][n] = "waiting" /\ f.write # "none"
    <2>1. Left(x)' <=> f.node \in g.router /\ f.got[f.node] = "failed"
      BY <1>3 DEF Left
    <2> QED  BY <1>1, <1>2, <1>3, <2>1 DEF NodeMove, GraphOf
  <1>7. \/ run[r].partial
        \/ n \in g.human
        \/ /\ \E w \in Nodes \ {n} : step'[r][w] = "waiting"
           /\ run[r].status = "waiting"
        \/ run[r].ended /\ \A m \in Nodes \ {n} : step'[r][m] \notin Open
    <2>1. \/ run[r].partial
          \/ n \in g.human
          \/ /\ \E w \in Nodes \ {n} : step[r][w] = "waiting"
             /\ run[r].status = "waiting"
          \/ run[r].ended /\ \A m \in Nodes \ {n} : step[r][m] \notin Open
      BY <1>1, <1>2 DEF SingleOK
    <2> QED  BY SMTT(30), <1>1, <2>1
  <1>8. f.run = r /\ f.node = n /\ run'[r] = run[r]
    BY <1>1, <1>2
  <1>9. f.at[f.node] = "over" =>
          \/ Left(x)'
          \/ f.node \notin g.human /\ step'[r][f.node] \in {"completed", "failed"}
          \/ step'[r][f.node] = "waiting" /\ f.write # "none"
    BY <1>6, <1>8
  <1>10. \/ run'[r].partial
         \/ f.node \in g.human
         \/ \E w \in Nodes \ {f.node} : step'[r][w] = "waiting" /\ run'[r].status = "waiting"
         \/ run'[r].ended /\ \A m \in Nodes \ {f.node} : step'[r][m] \notin Open
    BY <1>7, <1>8
  <1>11. GraphOf(x)' = g
    BY <1>3
  <1> HIDE DEF e, r, f, g
  <1>12. LET h == exec'[x] IN h = f
    BY DEF f
  <1> QED  BY SMTT(30), <1>5, <1>8, <1>9, <1>10, <1>11, <1>12 DEF SingleOK, Said

\* the status is written,
LEMMA SingleCommit ==
  ASSUME Base, NEW x \in Execs, CommitMove(x), exec[x].pc = "single", SingleOK(x)
  PROVE  SingleOK(x)'
  <1> DEFINE r == exec[x].run
             e == exec[x]
             f == exec'[x]
             g == GraphOf(x)
  <1>1. /\ r \in Runs /\ f.run = r /\ f.node = e.node /\ step' = step /\ f.write = "none"
        /\ e.write # "none" /\ run'[r].partial = run[r].partial /\ run'[r].status = e.write
        /\ run'[r].ended <=> run[r].ended
        /\ run'[r].graph = run[r].graph /\ f.got = e.got
        /\ \A m \in Nodes : f.at[m] = IF e.at[m] = "begun" THEN "ask" ELSE e.at[m]
    BY DEF CommitMove, Stays
  <1>2. e.write = Derive(step[r], run[r].partial)
    BY <1>1 DEF SingleOK
  <1>3. GraphOf(x)' = g /\ (Left(x)' <=> Left(x))
    BY <1>1 DEF GraphOf, Left
  <1>4. run'[r].status = Derive(step'[r], run'[r].partial)
    BY <1>1, <1>2
  <1>5. e.node \in Nodes
    <2>1. OnRun(x)
      BY DEF OnRun
    <2> QED  BY <2>1, WavesOrdered DEF Base, ExecOK
  <1>8. ASSUME NEW w \in Nodes, step[r][w] = "waiting" PROVE run'[r].status = "waiting"
    BY <1>1, <1>2, <1>8, WaitingDerived
  <1>6. f.at[f.node] = "over" =>
          \/ Left(x)'
          \/ f.node \notin g.human /\ step'[r][f.node] \in {"completed", "failed"}
          \/ step'[r][f.node] = "waiting" /\ run'[r].status = "waiting"
    <2>1. f.at[f.node] = "over" => e.at[e.node] = "over"
      BY <1>1, <1>5
    <2> QED  BY <1>1, <1>3, <1>5, <1>8, <2>1 DEF SingleOK
  <1>7. \/ run'[r].partial
        \/ f.node \in g.human
        \/ \E w \in Nodes \ {f.node} : step'[r][w] = "waiting" /\ run'[r].status = "waiting"
        \/ run'[r].ended /\ \A n \in Nodes \ {f.node} : step'[r][n] \notin Open
    <2>1. \/ run[r].partial
          \/ e.node \in g.human
          \/ \E w \in Nodes \ {e.node} : step[r][w] = "waiting"
          \/ run[r].ended /\ \A n \in Nodes \ {e.node} : step[r][n] \notin Open
      BY DEF SingleOK
    <2> QED  BY <1>1, <1>8, <2>1
  <1> HIDE DEF f, g
  <1> QED  BY ZenonT(40), <1>1, <1>3, <1>4, <1>6, <1>7 DEF SingleOK, Said, f

\* and it is over.
LEMMA SingleRest ==
  ASSUME Base, NEW x \in Execs, exec[x].pc = "single", SingleOK(x), exec[x].write = "none",
         exec[x].at[exec[x].node] = "over", ~Left(x)
  PROVE  Rest(exec[x].run)
  <1> DEFINE r == exec[x].run
             c == exec[x].node
  <1>1. Said(r)
    BY DEF SingleOK
  <1>2. CASE run[r].status = "waiting" \/ run[r].partial
    BY <1>1, <1>2 DEF Rest
  <1>3. CASE c \notin GraphOf(x).human /\ step[r][c] \in {"completed", "failed"}
    <2>1. \A n \in Nodes : \/ n = c /\ step[r][n] \notin Open
                           \/ n \in Nodes \ {c}
      BY <1>3 DEF Open
    <2> QED  BY <1>1, <1>3, <2>1 DEF SingleOK, Rest, Closed, NoneOpen
  <1> QED  BY <1>2, <1>3 DEF SingleOK

\* It begins in a run at rest.
LEMMA SingleBegins ==
  ASSUME Base, Base', NEW x \in Execs, NEW r \in Runs, NEW n \in Nodes, SingleMove(x, r, n), Rest(r)
  PROVE  SingleOK(x)'
  <1> DEFINE f == exec'[x]
  <1>1. /\ f.run = r /\ f.node = n /\ f.write = "none" /\ f.at[n] \in {"reset", "start"}
        /\ step' = step
        /\ run'[r].status = run[r].status /\ run'[r].ended = run[r].ended
        /\ run'[r].partial <=> run[r].partial
        /\ run'[r].graph = run[r].graph
    BY DEF SingleMove, Begins, Retold
  <1>2. run'[r].partial = run[r].partial
    <2>1. run[r].partial \in BOOLEAN /\ run' \in [Runs -> RunRow]
      BY Typed DEF Base, RunRow, SingleMove, Retold
    <2>2. run'[r].partial \in BOOLEAN
      BY <2>1 DEF RunRow
    <2> QED  BY <1>1, <2>1, <2>2
  <1>3. Said(r) /\ (run[r].partial \/ run[r].status = "waiting" \/ Closed(r))
    BY DEF Rest
  <1>4. run[r].status = "waiting" => \/ n \in run[r].graph.human
                                     \/ \E w \in Nodes \ {n} : step[r][w] = "waiting"
    <2> SUFFICES ASSUME run[r].status = "waiting", n \notin run[r].graph.human
                 PROVE  \E w \in Nodes \ {n} : step[r][w] = "waiting"
      OBVIOUS
    <2>1. Derive(step[r], run[r].partial) = "waiting"
      BY <1>3 DEF Said
    <2>2. PICK w \in Nodes : step[r][w] = "waiting"
      BY <2>1, DerivedWaiting
    <2>3. w \in run[r].graph.human
      BY <2>2 DEF Base, RowsOK
    <2> QED  BY <2>2, <2>3
  <1>5. GraphOf(x)' = run[r].graph
    BY <1>1 DEF GraphOf
  <1> HIDE DEF f
  <1> QED  BY <1>1, <1>2, <1>3, <1>4, <1>5 DEF SingleOK, Said, Closed, NoneOpen, f

\* mark_failed leaves nothing open.
LEMMA FailedNoneOpen ==
  ASSUME NEW row
  PROVE  NoneOpen(FailOpen(row))
  BY DEF NoneOpen, FailOpen, Open

\* A stopped deliberation, of which nodes still end.
LEMMA StoppedNode ==
  ASSUME Base, NEW x \in Execs, NEW n \in Nodes, NodeStep(x, n), NodeMove(x, n),
         exec[x].pc = "stopped", NoneOpen(step[exec[x].run])
  PROVE  /\ NoneOpen(step'[exec[x].run])
         /\ exec'[x].write = Derive(step'[exec[x].run], run[exec[x].run].partial)
  <1> DEFINE r == exec[x].run
  <1>1. /\ OnRun(x) /\ r \in Runs
        /\ \A m \in Nodes \ {n} : step'[r][m] = step[r][m]
        /\ \/ exec'[x].write = Derive(step'[r], run[r].partial)
           \/ exec'[x].write = "none" /\ UNCHANGED step
    BY DEF NodeStep
  <1>2. run[r].kind = "ensemble" /\ GraphOf(x).router = {} /\ GraphOf(x).human = {}
    BY SMTT(30), <1>1, GraphKnown DEF Base, ExecOK, Stopping
  <1>3. exec[x].at[n] \in {"ask"}
    BY ZenonT(40) DEF NodeMove, Base, AtOK, Stopping
  <1>4. exec'[x].write # "none" /\ step'[r][n] \in {"completed", "failed"}
    BY <1>2, <1>3 DEF NodeMove, GraphOf
  <1>5. NoneOpen(step'[r])
    BY <1>1, <1>4 DEF NoneOpen, Open
  <1> QED  BY <1>1, <1>4, <1>5

\* An execution that goes on alone on its run keeps what it knows, or leaves the
\* run at rest.
LEMMA WalksWorking ==
  ASSUME Base, Base', NEW x \in Execs, NEW r \in Runs, r = exec[x].run, Walks(x), Working(x)
  PROVE  /\ exec'[x] # Idle => Working(x)'
         /\ exec'[x] = Idle => Rest(r)'
  <1> DEFINE e == exec[x]
             f == exec'[x]
  <1>1. Steps(x) /\ OnRun(x) /\ run' = run /\ (f = Idle \/ f.run = r)
    BY WalksRun DEF Steps
  <1>2. Idle.pc = "idle"
    BY DEF Idle
  <1>3. CASE AnswerMove(x)
    <2>1. step[r][e.node] = "waiting"
      BY <1>3 DEF AnswerMove, Working
    <2>2. f.pc = "load" /\ ~f.stop
      BY <1>3, <2>1 DEF AnswerMove
    <2> HIDE DEF f
    <2> QED  BY <1>2, <2>2 DEF Working, f
  <1>4. CASE LoadMove(x)
    <2>1. WalkOK(x)'
      BY <1>4, LoadKnown
    <2>2. f.pc = "plan" /\ ~f.stop
      BY <1>4 DEF LoadMove, Working, Stopping
    <2> HIDE DEF f
    <2> QED  BY <1>2, <2>1, <2>2 DEF Working, f
  <1>5. CASE PlanMove(x)
    <2>1. ~e.stop /\ WalkOK(x)
      BY <1>5 DEF PlanMove, Working, Stopping
    <2>2. f.pc \in {"plan", "nodes", "final"} /\ ~f.stop
      BY <1>5, <2>1 DEF PlanMove
    <2>3. /\ f.pc # "final" => WalkOK(x)'
          /\ f.pc = "final" /\ f.ok => NoneOpen(step'[f.run])
      BY <1>5, <2>1, PlanKnown
    <2> HIDE DEF f
    <2> QED  BY <1>2, <2>2, <2>3 DEF Working, f
  <1>6. CASE DecideMove(x)
    <2>1. ~e.stop /\ WalkOK(x) /\ e.pc = "nodes"
      BY <1>6 DEF DecideMove, Working
    <2>2. /\ f.pc = "plan" => WalkOK(x)'
          /\ f.pc = "final" /\ f.ok => NoneOpen(step'[f.run])
          /\ f = Idle => Rest(r)'
      BY SMTT(30), <1>6, <2>1, DecideKnown
    <2>3. f # Idle => f.pc \in {"plan", "final"} /\ ~f.stop
      BY <1>6, <2>1 DEF DecideMove, Onwards
    <2> HIDE DEF f
    <2> QED  BY <1>2, <2>2, <2>3 DEF Working, f
  <1>7. CASE FinalMove(x)
    <2>1. ~e.stop /\ (e.ok => NoneOpen(step[r]))
      BY <1>7 DEF FinalMove, Working, Stopping
    <2>2. f.pc = "end" /\ ~f.stop /\ f.run = r
      BY <1>7, <2>1 DEF FinalMove, Stays
    <2>3. NoneOpen(step'[r]) /\ f.write \in {Derive(step'[r], run[r].partial), "failed"}
      BY <1>7, <2>1, FailedNoneOpen DEF FinalMove
    <2> HIDE DEF f
    <2> QED  BY <1>1, <1>2, <2>2, <2>3 DEF Working, f
  <1>14. CASE BeginMove(x)
    <2>1. f.pc = "load" /\ ~f.stop
      BY <1>14 DEF BeginMove, Working, Stopping
    <2> HIDE DEF f
    <2> QED  BY <1>2, <2>1 DEF Working, f
  <1>8. CASE EndMove(x)
    <2>0. UNCHANGED step /\ f = Idle /\ e.write = "none"
      BY <1>8 DEF EndMove
    <2>1. CASE e.pc = "single" /\ e.at[e.node] = "over" /\ ~Left(x)
      <3>1. Rest(r)
        BY <2>0, <2>1, SingleRest DEF Working
      <3> QED  BY <1>1, <2>0, <3>1 DEF Rest, Said, Closed
    <2>2. CASE e.pc = "stopped"
      <3>1. NoneOpen(step[r]) /\ Said(r) /\ run[r].ended
        BY <2>0, <2>2 DEF Working
      <3> QED  BY <1>1, <2>0, <3>1 DEF Rest, Said, Closed
    <2> QED  BY <1>8, <2>1, <2>2 DEF EndMove
  <1>9. CASE StoppedMove(x)
    <2>1. f.pc = "stopped" /\ f.write = "failed" /\ step'[r] = FailOpen(step[r]) /\ f.run = r
      BY <1>9 DEF StoppedMove, Stays
    <2>2. NoneOpen(step'[r])
      BY <2>1, FailedNoneOpen
    <2> HIDE DEF f
    <2> QED  BY <1>2, <2>1, <2>2 DEF Working, Stopping, f
  <1>10. CASE BreakMove(x)
    <2>1. f.pc = "final" /\ ~f.ok /\ ~f.stop
      BY <1>10 DEF BreakMove, Working, Stopping
    <2> HIDE DEF f
    <2> QED  BY <1>2, <2>1 DEF Working, f
  <1>11. CASE StopMove(x)
    <2>1. f.pc \in {"nodes", "stopping"} /\ f.stop
      BY <1>11 DEF StopMove
    <2>2. f.pc = "nodes" => \A n \in Nodes : f.at[n] # "start"
      BY <1>11 DEF StopMove
    <2> HIDE DEF f
    <2> QED  BY <1>2, <2>1, <2>2 DEF Working, Stopping, f
  <1>12. ASSUME NEW n \in Nodes, LateMove(x, n) PROVE f # Idle /\ Working(x)'
    <2>1. /\ f.pc = "nodes" /\ e.pc = "nodes" /\ f.stop = e.stop /\ f.at[n] = "late"
          /\ \A m \in Nodes \ {n} : f.at[m] = e.at[m]
      BY <1>12 DEF LateMove
    <2>2. ~f.stop => WalkOK(x)'
      BY <1>12, <2>1, LateWalk DEF Working
    <2>3. f.stop => \A m \in Nodes : f.at[m] # "start"
      BY <2>1 DEF Working
    <2> HIDE DEF f
    <2> QED  BY <1>2, <2>1, <2>2, <2>3 DEF Working, f
  <1>13. ASSUME NEW n \in Nodes, NodeStep(x, n), NodeMove(x, n) PROVE f # Idle /\ Working(x)'
    <2>1. /\ f.pc = e.pc /\ f.stop = e.stop /\ f.run = r
          /\ \A m \in Nodes \ {n} : f.at[m] = e.at[m]
      BY <1>13 DEF NodeStep
    <2>2. e.at[n] \notin {"off", "over"}
      BY <1>13 DEF NodeMove
    <2>3. e.pc \in {"nodes", "single"} \cup Stopping
      BY <2>2, Typed DEF Base, AtOK, Stopping, ExecRow, ExecPc, OnRun
    <2>4. CASE e.pc = "nodes"
      <3>1. ~f.stop => WalkOK(x)'
        BY <1>13, <2>1, <2>4, NodeWalk DEF Working
      <3>2. e.at[n] # "reset"
        BY <2>4 DEF Base, AtOK
      <3>3. f.at[n] # "start"
        BY <1>13, <3>2 DEF NodeMove
      <3>4. f.stop => \A m \in Nodes : f.at[m] # "start"
        BY <2>1, <2>4, <3>3 DEF Working
      <3> HIDE DEF f
      <3> QED  BY <1>2, <2>1, <2>4, <3>1, <3>4 DEF Working, f
    <2>5. CASE e.pc = "single"
      <3>1. SingleOK(x)'
        BY <1>13, <2>5, SingleNode DEF Working
      <3>2. ~f.stop
        BY <2>1, <2>5 DEF Working, Stopping
      <3> HIDE DEF f
      <3> QED  BY <1>2, <2>1, <2>5, <3>1, <3>2 DEF Working, f
    <2>6. CASE e.pc = "stopping"
      <3> HIDE DEF f
      <3> QED  BY <1>2, <2>1, <2>6 DEF Working, Stopping, f
    <2>7. CASE e.pc = "stopped"
      <3>1. NoneOpen(step'[r]) /\ f.write = Derive(step'[r], run[r].partial)
        BY <1>13, <2>7, StoppedNode DEF Working
      <3>2. Derive(step'[r], run[r].partial) # "none"
        BY Derived DEF RunStatus
      <3> HIDE DEF f
      <3> QED  BY <1>1, <1>2, <2>1, <2>7, <3>1, <3>2 DEF Working, Stopping, f
    <2> QED  BY <2>3, <2>4, <2>5, <2>6, <2>7 DEF Stopping
  <1> QED  BY <1>3, <1>4, <1>5, <1>6, <1>7, <1>8, <1>9, <1>10, <1>11, <1>12, <1>13,
            <1>14 DEF Walks

\* So does one that has written the status.
LEMMA CommitWorking ==
  ASSUME Base, NEW x \in Execs, NEW r \in Runs, r = exec[x].run, CommitMove(x), Working(x)
  PROVE  /\ exec'[x].run = r => Working(x)'
         /\ exec'[x].run # r => Rest(r)'
  <1> DEFINE e == exec[x]
             f == exec'[x]
  <1>1. /\ OnRun(x) /\ step' = step /\ e.write # "none" /\ f.write = "none"
        /\ run'[r].status = e.write /\ run'[r].partial = run[r].partial
        /\ (run'[r].ended <=> run[r].ended \/ e.pc \in {"end", "stopped"})
    BY DEF CommitMove
  <1>2. CASE e.pc = "end"
    <2>1. f.run = NoRun /\ r # NoRun
      BY <1>2 DEF CommitMove, Idle, NoRun, Runs
    <2>2. NoneOpen(step[r]) /\ e.write \in {Derive(step[r], run[r].partial), "failed"}
      BY <1>2 DEF Working
    <2> HIDE DEF f
    <2> QED  BY <1>1, <1>2, <2>1, <2>2 DEF Rest, Said, Closed, f
  <1>3. CASE e.pc # "end"
    <2>1. /\ f.pc = e.pc /\ f.run = r /\ f.ok = e.ok /\ f.stop = e.stop
          /\ \A n \in Nodes : f.at[n] = "start" => e.at[n] = "start"
      BY <1>3 DEF CommitMove, Stays
    <2>2. e.pc # "answer"
      BY <1>1 DEF Base, ExecOK
    <2>3. e.pc = "single" => SingleOK(x)'
      BY SingleCommit DEF Working
    <2>4. e.pc \in {"plan", "nodes"} /\ ~e.stop => WalkOK(x)'
      BY CommitWalk DEF Working
    <2>5. e.pc = "stopped" => NoneOpen(step[r]) /\ Said(r)' /\ run'[r].ended
      BY <1>1, <2>1 DEF Working, Said
    <2> HIDE DEF f
    <2> QED  BY <1>1, <1>3, <2>1, <2>2, <2>3, <2>4, <2>5 DEF Working, f
  <1> QED  BY <1>2, <1>3

\* A run that a step leaves as it was, with all that executes it.
Untouched(q) ==
  /\ run'[q].kind = run[q].kind /\ run'[q].graph = run[q].graph
  /\ run'[q].status = run[q].status /\ run'[q].partial = run[q].partial
  /\ run'[q].ended = run[q].ended /\ (run'[q].loose <=> run[q].loose)
  /\ step'[q] = step[q] /\ route'[q] = route[q] /\ (cleaner' = q <=> cleaner = q)
  /\ \A y \in Execs : exec[y].run = q \/ exec'[y].run = q => exec'[y] = exec[y]

\* Its executions know what they knew,
LEMMA WorkingOther ==
  ASSUME Base, NEW q \in Runs, Untouched(q), NEW y \in Execs, exec[y].run = q, Working(y)
  PROVE  Working(y)'
  <1>1. /\ exec'[y] = exec[y] /\ run'[q].graph = run[q].graph
        /\ run'[q].status = run[q].status /\ run'[q].partial = run[q].partial
        /\ run'[q].ended = run[q].ended /\ step'[q] = step[q] /\ route'[q] = route[q]
    BY DEF Untouched
  <1>2. GraphOf(y)' = GraphOf(y) /\ \A n : WaveOf(y, n)' = WaveOf(y, n)
    BY <1>1 DEF GraphOf, WaveOf
  <1>3. WalkOK(y) => WalkOK(y)'
    <2>1. ASSUME NEW n, NodeKnown(y, n) PROVE NodeKnown(y, n)'
      BY <1>1, <1>2, <2>1 DEF NodeKnown
    <2>2. Says(y) => Says(y)'
      BY <1>1 DEF Says
    <2> QED  BY <1>2, <2>1, <2>2 DEF WalkOK
  <1>4. SingleOK(y) => SingleOK(y)'
    <2>1. Left(y)' <=> Left(y)
      BY <1>1, <1>2 DEF Left
    <2> QED  BY <1>1, <1>2, <2>1 DEF SingleOK, Said
  <1> QED  BY <1>1, <1>3, <1>4 DEF Working, Said

\* and it is settled as it was.
LEMMA SettlesOther ==
  ASSUME Base, NEW q \in Runs, Untouched(q), Settles(q)
  PROVE  Settles(q)'
  <1>1. SUFFICES ASSUME ~run'[q].loose, run'[q].kind # "none" PROVE Settles(q)'
    BY DEF Settles
  <1>2. ~run[q].loose /\ run[q].kind # "none"
    BY <1>1 DEF Untouched
  <1>3. Busy(q)' <=> Busy(q)
    BY DEF Busy, Untouched
  <1>4. Rest(q) => Rest(q)'
    BY DEF Rest, Said, Closed, Untouched
  <1>5. cleaner' = q => NoneOpen(step'[q])
    BY <1>2 DEF Settles, Untouched
  <1>6. ASSUME NEW y \in Execs, exec'[y].run = q PROVE Working(y)'
    <2>1. exec[y].run = q
      BY <1>6 DEF Untouched
    <2> QED  BY <1>2, <2>1, WorkingOther DEF Settles
  <1> QED  BY <1>2, <1>3, <1>4, <1>5, <1>6 DEF Settles

\* One execution is on a run that is settled, and this execution moves.
LEMMA SettlesMoved ==
  ASSUME Base, Base', Alone, NEW x \in Execs, NEW r \in Runs, exec[x].run = r, Others(x),
         UNCHANGED cleaner, run'[r].kind = run[r].kind, run'[r].loose <=> run[r].loose,
         Settles(r), Working(x) => /\ exec'[x].run = r => Working(x)'
                                   /\ exec'[x].run # r => Rest(r)'
  PROVE  Settles(r)'
  <1>1. SUFFICES ASSUME ~run'[r].loose, run'[r].kind # "none" PROVE Settles(r)'
    BY DEF Settles
  <1>2. Working(x)
    BY <1>1 DEF Settles
  <1>3. cleaner # r /\ \A y \in Execs \ {x} : exec[y].run # r
    BY <1>1 DEF Alone
  <1>4. cleaner' # r /\ \A y \in Execs \ {x} : exec'[y].run # r
    BY <1>3 DEF Others
  <1>5. ~Busy(r)' => exec'[x].run # r
    BY DEF Busy
  <1> QED  BY <1>2, <1>4, <1>5 DEF Settles

\* An execution begins on a run nothing else executes.
LEMMA SettlesBegun ==
  ASSUME NEW x \in Execs, NEW r \in Runs, exec'[x].run = r,
         ~run'[r].loose => /\ Working(x)' /\ cleaner' # r
                           /\ \A y \in Execs \ {x} : exec'[y].run # r
  PROVE  Settles(r)'
  <1>1. Busy(r)'
    BY DEF Busy
  <1> QED  BY <1>1 DEF Settles

\* Every step keeps the runs settled.
LEMMA SettlesStep ==
  ASSUME SettledInv, Base', [Next]_vars
  PROVE  \A q \in Runs : Settles(q)'
  <1> USE DEF SettledInv
  <1>0. NoRun \notin Runs /\ Idle.run = NoRun /\ NoRow.kind = "none"
    BY DEF NoRun, Runs, Idle, NoRow
  <1>1. ASSUME NEW r, \A q \in Runs \ {r} : Untouched(q), r \in Runs => Settles(r)'
        PROVE  \A q \in Runs : Settles(q)'
    BY <1>1, SettlesOther
  <1>2. ASSUME NEW x \in Execs, Walks(x) PROVE \A q \in Runs : Settles(q)'
    <2>1. PICK r \in Runs : r = exec[x].run
      BY <1>2, WalksRun DEF Steps
    <2>2. Steps(x) /\ exec'[x].run \in {r, NoRun} /\ (exec'[x].run = r \/ exec'[x] = Idle)
      BY <1>0, <1>2, <2>1, WalksRun
    <2>3. \A q \in Runs \ {r} : Untouched(q)
      BY <1>0, <2>1, <2>2 DEF Steps, Others, Untouched
    <2>4. Working(x) => /\ exec'[x].run = r => Working(x)'
                        /\ exec'[x].run # r => Rest(r)'
      BY <1>0, <1>2, <2>1, <2>2, WalksWorking
    <2>5. Settles(r)'
      BY <2>1, <2>2, <2>4, SettlesMoved DEF Steps
    <2> QED  BY <1>1, <2>3, <2>5
  <1>3. ASSUME NEW x \in Execs, CommitMove(x) PROVE \A q \in Runs : Settles(q)'
    <2>1. PICK r \in Runs : r = exec[x].run
      BY <1>3 DEF CommitMove
    <2>2. exec'[x].run \in {r, NoRun} /\ Others(x)
      BY <1>0, <1>3, <2>1 DEF CommitMove, Stays
    <2>3. \A q \in Runs \ {r} : Untouched(q)
      BY <1>0, <1>3, <2>1, <2>2 DEF CommitMove, Others, Untouched
    <2>4. Working(x) => /\ exec'[x].run = r => Working(x)'
                        /\ exec'[x].run # r => Rest(r)'
      BY <1>3, <2>1, CommitWorking
    <2>5. Settles(r)'
      BY <1>3, <2>1, <2>2, <2>4, SettlesMoved DEF CommitMove
    <2> QED  BY <1>1, <2>3, <2>5
  <1>4. ASSUME NEW x \in Execs, CountMove(x) \/ CheckMove(x) PROVE \A q \in Runs : Settles(q)'
    <2>1. exec[x].run = NoRun /\ exec'[x].run = NoRun /\ Others(x) /\ BatchFrame
      BY <1>0, <1>4 DEF CountMove, CheckMove, Base, ExecOK
    <2>2. \A q \in Runs : Untouched(q)
      BY <1>0, <2>1 DEF BatchFrame, Others, Untouched
    <2> QED  BY <1>1, <1>0, <2>2
  <1>5. ASSUME LossMove PROVE \A q \in Runs : Settles(q)'
    <2> SUFFICES ASSUME NEW q \in Runs PROVE Settles(q)'
      OBVIOUS
    <2>1. CASE \E y \in Execs : exec[y].run = q /\ exec'[y] # exec[y]
      BY <1>5, <2>1 DEF LossMove, Settles
    <2>2. CASE \A y \in Execs : exec[y].run = q => exec'[y] = exec[y]
      <3>1. \A y \in Execs : exec'[y] = exec[y] \/ exec'[y] = Idle
        BY <1>5 DEF LossMove
      <3>2. \A y \in Execs : exec[y].run = q \/ exec'[y].run = q => exec'[y] = exec[y]
        BY <1>0, <2>2, <3>1
      <3>3. Untouched(q)
        BY <1>5, <2>2, <3>2 DEF LossMove, Untouched
      <3> QED  BY <3>3, SettlesOther
    <2> QED  BY <2>1, <2>2
  <1>6. ASSUME NEW x, NEW r \in Runs, NEW kind, NEW g, CreateMove(r, kind, g),
               UNCHANGED <<route, cleaner>>, \A y \in Execs \ {x} : exec'[y] = exec[y],
               x \in Execs => exec[x] = Idle /\ exec'[x].run = r
        PROVE  /\ \A q \in Runs \ {r} : Untouched(q)
               /\ cleaner' # r /\ \A y \in Execs : exec[y].run # r
    <2>1. run[r].kind = "none"
      BY <1>0, <1>6 DEF CreateMove
    <2>2. \A y \in Execs : exec[y].run # r
      BY <2>1, NoneExecutes
    <2>3. cleaner # r
      BY <1>0, <2>1 DEF Base
    <2> QED  BY <1>0, <1>6, <2>2, <2>3 DEF CreateMove, Untouched
  <1>7. ASSUME NEW x \in Execs, NEW r \in Runs, NEW kind, NEW g, CreateMove(r, kind, g),
               UNCHANGED <<route, cleaner>>, Begins(x, "setup", r)
        PROVE  \A q \in Runs : Settles(q)'
    <2>1. exec'[x].run = r /\ exec[x] = Idle /\ \A y \in Execs \ {x} : exec'[y] = exec[y]
      BY <1>7 DEF Begins, Others
    <2>2. /\ \A q \in Runs \ {r} : Untouched(q)
          /\ cleaner' # r /\ \A y \in Execs : exec[y].run # r
      BY <1>6, <1>7, <2>1
    <2>3. Working(x)'
      BY <1>7 DEF Begins, Working
    <2>4. Settles(r)'
      BY <2>1, <2>2, <2>3, SettlesBegun
    <2> QED  BY <1>1, <2>2, <2>4
  <1>8. ASSUME NEW x \in Execs, NEW r \in Runs, NEW loose, NEW partial, Retold(r, loose, partial),
               Busy(r) => loose, ~loose => Working(x)', exec[x] = Idle, exec'[x].run = r, Others(x),
               UNCHANGED <<step, route, cleaner>>
        PROVE  \A q \in Runs : Settles(q)'
    <2>1. \A q \in Runs \ {r} : Untouched(q)
      BY <1>0, <1>8 DEF Retold, Others, Untouched
    <2>2. ~run'[r].loose => ~Busy(r) /\ Working(x)'
      BY <1>8 DEF Retold
    <2>3. ~run'[r].loose => cleaner' # r /\ \A y \in Execs \ {x} : exec'[y].run # r
      BY <1>8, <2>2 DEF Busy, Others
    <2>4. Settles(r)'
      BY <1>8, <2>2, <2>3, SettlesBegun
    <2> QED  BY <1>1, <2>1, <2>4
  <1>9. ASSUME NEW x \in Execs, Starts(x) PROVE \A q \in Runs : Settles(q)'
    <2>1. PICK r \in Runs :
            \/ \E g \in Drawn \cup Ensembles : NewRunMove(x, r, g)
            \/ \E convert \in BOOLEAN : RestartMove(x, r, convert)
            \/ \E n \in Nodes, q \in Routes : AskMove(x, r, n, q)
            \/ \E n \in Nodes : SingleMove(x, r, n)
            \/ FileMove(x, r)
      BY <1>9 DEF Starts
    <2>2. CASE \E g \in Drawn \cup Ensembles : NewRunMove(x, r, g)
      BY <1>7, <2>2 DEF NewRunMove
    <2>3. CASE FileMove(x, r)
      <3>1. CASE CreateMove(r, "file", batch.graph) /\ Begins(x, "setup", r)
        BY <1>7, <2>3, <3>1 DEF FileMove
      <3>2. CASE UNCHANGED <<run, step>> /\ Begins(x, "count", NoRun)
        <4>1. \A q \in Runs : Untouched(q)
          BY <1>0, <2>3, <3>2 DEF FileMove, Begins, Others, Untouched
        <4> QED  BY <1>0, <1>1, <4>1
      <3> QED  BY <2>3, <3>1, <3>2 DEF FileMove
    <2>4. CASE \E convert \in BOOLEAN : RestartMove(x, r, convert)
      <3>1. PICK convert \in BOOLEAN : RestartMove(x, r, convert)
        BY <2>4
      <3>2. Working(x)'
        BY <3>1 DEF RestartMove, Begins, Working
      <3> QED  BY <1>8, <3>1, <3>2 DEF RestartMove, Begins
    <2>5. CASE \E n \in Nodes, q \in Routes : AskMove(x, r, n, q)
      <3>1. PICK n \in Nodes, q \in Routes : AskMove(x, r, n, q)
        BY <2>5
      <3>2. /\ step'[r][n] = "waiting" /\ exec'[x].node = n /\ exec'[x].run = r
            /\ exec'[x].pc = "answer" /\ ~exec'[x].stop
        BY <3>1 DEF AskMove, Begins
      <3>3. Working(x)'
        BY <3>2 DEF Working
      <3> QED  BY <1>8, <3>1, <3>3 DEF AskMove, Begins
    <2>6. CASE \E n \in Nodes : SingleMove(x, r, n)
      <3>1. PICK n \in Nodes : SingleMove(x, r, n)
        BY <2>6
      <3>2. ASSUME ~(run[r].loose \/ Busy(r)) PROVE Working(x)'
        <4>1. Rest(r)
          BY <3>1, <3>2 DEF Settles, SingleMove
        <4>2. SingleOK(x)'
          BY <3>1, <4>1, SingleBegins
        <4> QED  BY <3>1, <4>2 DEF SingleMove, Begins, Working
      <3> QED  BY <1>8, <3>1, <3>2 DEF SingleMove, Begins
    <2> QED  BY <2>1, <2>2, <2>3, <2>4, <2>5, <2>6
  <1>10. CASE Else
    <2> DEFINE x == MaxExec + 1
    <2>1. x \notin Execs
      BY WorkflowsAssumption DEF Execs
    <2> HIDE DEF x
    <2>2. CASE CleanedMove \/ \E n \in Runs, g \in Drawn : StartMove(n, g)
      <3>1. \A q \in Runs : Untouched(q)
        BY <2>2 DEF CleanedMove, StartMove, BatchFrame, Untouched
      <3> QED  BY <1>0, <1>1, <3>1
    <2>3. ASSUME NEW r \in Runs, NEW g \in Drawn, CreateMove(r, "single", g),
                 UNCHANGED <<route, exec, cleaner>>
          PROVE  \A q \in Runs : Settles(q)'
      <3>1. /\ \A q \in Runs \ {r} : Untouched(q)
            /\ cleaner' # r /\ \A y \in Execs : exec[y].run # r
        BY <1>6, <2>1, <2>3
      <3>2. run'[r].partial /\ run'[r].status = "running"
        BY <2>3 DEF CreateMove
      <3>3. \A n \in Nodes : step'[r][n] \in {"pending", "absent"}
        BY <2>3 DEF CreateMove
      <3>4. Rest(r)'
        BY <3>2, <3>3, DerivedPending DEF Rest, Said
      <3>5. Settles(r)'
        BY <2>3, <3>1, <3>4 DEF Settles
      <3> QED  BY <1>1, <3>1, <3>5
    <2>4. CASE CleanEndMove
      <3>1. \A q \in Runs \ {cleaner} : Untouched(q)
        BY <1>0, <2>4 DEF CleanEndMove, Untouched
      <3>2. ASSUME NEW r \in Runs, r = cleaner PROVE Settles(r)'
        <4>1. SUFFICES ASSUME ~run'[r].loose, run'[r].kind # "none" PROVE Settles(r)'
          BY DEF Settles
        <4>2. /\ ~run[r].loose /\ run[r].kind # "none" /\ step' = step /\ exec' = exec
              /\ run'[r].status = "failed" /\ run'[r].ended /\ cleaner' # r
          BY <1>0, <2>4, <3>2, <4>1 DEF CleanEndMove
        <4>3. NoneOpen(step[r]) /\ \A y \in Execs : exec[y].run # r
          BY <3>2, <4>2 DEF Settles, Alone
        <4>4. Rest(r)'
          BY <4>2, <4>3 DEF Rest, Said, Closed
        <4> QED  BY <4>2, <4>3, <4>4 DEF Settles
      <3> QED  BY <1>1, <2>4, <3>1, <3>2 DEF CleanEndMove
    <2>5. ASSUME NEW r \in Runs, CleanMove(r) PROVE \A q \in Runs : Settles(q)'
      <3>1. \A q \in Runs \ {r} : Untouched(q)
        BY <1>0, <2>5 DEF CleanMove, Retold, Untouched
      <3>2. Settles(r)'
        <4>1. SUFFICES ASSUME ~run'[r].loose PROVE Settles(r)'
          BY DEF Settles
        <4>2. cleaner' = r /\ exec' = exec /\ step'[r] = FailOpen(step[r]) /\ ~Busy(r)
          BY <2>5, <4>1 DEF CleanMove, Retold
        <4>3. Busy(r)' /\ NoneOpen(step'[r]) /\ \A y \in Execs : exec'[y].run # r
          BY <4>2, FailedNoneOpen DEF Busy
        <4> QED  BY <4>3 DEF Settles
      <3> QED  BY <1>1, <3>1, <3>2
    <2> QED  BY <1>10, <2>2, <2>3, <2>4, <2>5 DEF Else
  <1>11. CASE UNCHANGED vars
    <2>1. \A q \in Runs : Untouched(q)
      BY <1>11 DEF vars, Untouched
    <2> QED  BY <1>0, <1>1, <2>1
  <1>12. CASE Next
    <2>1. Move
      BY <1>12, Moves
    <2> QED  BY <2>1, <1>2, <1>3, <1>4, <1>5, <1>9, <1>10 DEF Move
  <1> QED  BY <1>11, <1>12

\* At first no run exists, let alone one that is unsettled.
LEMMA SettledInit ==
  ASSUME Init
  PROVE  SettledInv
  <1>1. Base
    BY BaseInit
  <1>2. Idle.run = NoRun /\ NoRun \notin Runs /\ NoRow.kind = "none"
    BY DEF NoRun, Runs, Idle, NoRow
  <1>3. Alone /\ \A r \in Runs : Settles(r)
    BY <1>2 DEF Init, Alone, Settles
  <1> QED  BY <1>1, <1>3 DEF SettledInv

\* What the execution, the cleanup and the rows of a run know holds of every run.
LEMMA RunsSettle == Spec => []SettledInv
  <1>1. Init => SettledInv
    BY SettledInit
  <1>2. SettledInv /\ [Next]_vars => SettledInv'
    <2> SUFFICES ASSUME SettledInv, [Next]_vars PROVE SettledInv'
      OBVIOUS
    <2>1. Base' /\ Alone'
      BY BaseStep, AloneStep DEF SettledInv
    <2>2. \A q \in Runs : Settles(q)'
      BY <2>1, SettlesStep
    <2> QED  BY <2>1, <2>2 DEF SettledInv
  <1> QED  BY <1>1, <1>2, PTL DEF Spec

\* At rest a run is what its steps say: it waits for an answer, or it has ended with
\* no step left open, completed only if every step is finished, unless since a walk
\* over it last began alone two touched it at once, its execution was killed or ended
\* where nothing fails the run, or its router failed when run by hand (run_status.py,
\* finalize_run).
THEOREM RestingIsSettled == Spec => []RestingRunIsSettled
  <1>1. SettledInv => RestingRunIsSettled
    <2> SUFFICES ASSUME SettledInv, NEW r \in Runs, run[r].kind # "none", ~Busy(r), ~run[r].loose
                 PROVE  LET S == {step[r][n] : n \in Nodes} IN
                        /\ run[r].status = Derive(step[r], run[r].partial) \/ run[r].status = "failed"
                        /\ run[r].status = "completed" /\ ~run[r].partial => S \subseteq Finished \cup {"absent"}
                        /\ \/ run[r].partial
                           \/ run[r].status = "waiting"
                           \/ run[r].ended /\ S \cap Open = {}
      BY DEF RestingRunIsSettled
    <2>1. Rest(r)
      BY DEF SettledInv, Settles
    <2>2. ASSUME run[r].status = "completed", ~run[r].partial
          PROVE  \A n \in Nodes : step[r][n] \in Finished \cup {"absent"}
      <3>1. Derive(step[r], FALSE) = "completed"
        <4>1. run[r].partial \in BOOLEAN
          BY Typed DEF SettledInv, Base, RunRow
        <4>2. run[r].partial = FALSE
          BY <2>2, <4>1
        <4> QED  BY <2>1, <2>2, <4>2 DEF Rest, Said
      <3> QED  BY <3>1, DerivedCompleted
    <2> QED  BY <2>1, <2>2 DEF Rest, Said, Closed, NoneOpen
  <1> QED  BY <1>1, RunsSettle, PTL

\* Only an execution that starts a node makes its row running.
LEMMA OnlyStarts ==
  ASSUME Base, Next, NEW r \in Runs, NEW n \in Nodes,
         step[r][n] # "running", step'[r][n] = "running"
  PROVE  \E x \in Execs : exec[x].run = r /\ exec[x].at[n] = "start"
  <1>1. FailOpen(step[r])[n] # "running"
    BY DEF FailOpen, Open
  <1>2. ASSUME NEW x \in Execs, Walks(x)
        PROVE  exec[x].run = r /\ exec[x].at[n] = "start"
    <2>1. Steps(x)
      BY <1>2, WalksRun
    <2>2. exec[x].run = r
      BY <2>1 DEF Steps
    <2>3. step' # step
      OBVIOUS
    <2>4. ~AnswerMove(x) /\ ~LoadMove(x) /\ ~BreakMove(x) /\ ~StopMove(x) /\ ~EndMove(x)
          /\ ~BeginMove(x)
      <3>1. AnswerMove(x) => step'[r][n] \in {step[r][n], "completed"}
        BY <2>2, <2>3, Typed DEF AnswerMove, Base, Rows
      <3> QED  BY <2>3, <3>1 DEF LoadMove, BreakMove, StopMove, EndMove, BeginMove
    <2>5. ~PlanMove(x) /\ ~FinalMove(x) /\ ~StoppedMove(x)
      BY <1>1, <2>2 DEF PlanMove, FinalMove, StoppedMove
    <2>6. ~DecideMove(x)
      <3>1. DecideMove(x) => step'[r][n] \in {step[r][n], "failed"}
        BY ZenonT(40), <2>2, <2>3, Typed DEF DecideMove, Base, Rows
      <3> QED  BY <3>1
    <2>7. ASSUME NEW m \in Nodes, LateMove(x, m) PROVE FALSE
      BY <2>3, <2>7 DEF LateMove
    <2>8. ASSUME NEW m \in Nodes, NodeStep(x, m), NodeMove(x, m) PROVE exec[x].at[n] = "start"
      <3>1. m = n
        BY <2>2, <2>8 DEF NodeStep
      <3> QED  BY <2>2, <2>3, <2>8, <3>1 DEF NodeMove
    <2> QED  BY <1>2, <2>2, <2>4, <2>5, <2>6, <2>7, <2>8 DEF Walks
  <1>3. ASSUME NEW q \in Runs, NEW kind, NEW g, CreateMove(q, kind, g) PROVE FALSE
    BY <1>3 DEF CreateMove
  <1>4. ASSUME NEW x \in Execs, Starts(x) PROVE FALSE
    BY <1>3, <1>4 DEF Starts, NewRunMove, RestartMove, AskMove, SingleMove, FileMove
  <1>5. ASSUME LossMove \/ \E x \in Execs : CommitMove(x) \/ CountMove(x) \/ CheckMove(x)
        PROVE  FALSE
    BY <1>5 DEF CommitMove, CountMove, CheckMove, LossMove, BatchFrame
  <1>6. CASE Else
    BY <1>1, <1>3, <1>6 DEF Else, StartMove, CleanedMove, CleanEndMove, CleanMove, BatchFrame
  <1> QED  BY <1>2, <1>4, <1>5, <1>6, Moves DEF Move

\* A node is not started behind a router that has decided for another route; a
\* plain edge beside the routed one does not let it in.  Exempt are steps run by
\* hand and runs touched by two at once (execution_routing.py).
THEOREM RouteIsObeyed == Spec => RouteObeyed
  <1>1. ASSUME SettledInv, Next, NEW r \in Runs, NEW n \in NodesOf(r) \ run[r].graph.router,
               step[r][n] # "running", step'[r][n] = "running", ~run[r].loose,
               \A x \in Execs : exec[x].run = r => exec[x].pc # "single",
               NEW e \in run[r].graph.edge, e.to = n, e.route # Plain,
               step[r][e.from] = "completed"
        PROVE  \E d \in run[r].graph.edge :
                  /\ d.to = n /\ d.route # Plain /\ step[r][d.from] = "completed"
                  /\ route[r][d.from] = d.route
    <2> DEFINE g == run[r].graph
    <2>1. run[r].kind # "none" /\ Base
      BY <1>1 DEF SettledInv, Base, RowsOK, NodesOf, NoRow, NoGraph
    <2>2. n \in Nodes
      BY <2>1, GraphTyped DEF Base, RowsOK, NodesOf
    <2>3. PICK x \in Execs : exec[x].run = r /\ exec[x].at[n] = "start"
      BY <1>1, <2>1, <2>2, OnlyStarts
    <2>4. OnRun(x) /\ GraphOf(x) = g
      BY <2>1, <2>2, <2>3 DEF Base, AtOK, GraphOf
    <2>5. exec[x].pc = "nodes"
      <3>1. exec[x].pc \in ExecPc
        BY <2>1, Typed DEF Base, ExecRow
      <3> QED  BY <1>1, <2>1, <2>2, <2>3, <2>4, <3>1 DEF Base, AtOK, ExecPc, Stopping, OnRun
    <2>6. WalkOK(x)
      BY <1>1, <2>1, <2>2, <2>3, <2>5 DEF SettledInv, Settles, Working
    <2>7. \A m \in g.nodes : NodeKnown(x, m)
      BY <2>4, <2>6 DEF WalkOK
    <2>8. ShouldExecute(g, n, exec[x].got)
      <3>1. n \in g.nodes /\ n \notin g.router
        BY DEF NodesOf
      <3> QED  BY <2>3, <2>4, <2>5, <2>7, <3>1 DEF NodeKnown
    <2>9. ASSUME NEW d \in g.edge, d.route # Plain
          PROVE  /\ d.from \in Nodes /\ d.from \in g.nodes /\ d.from \in g.router
                 /\ step[r][d.from] = "completed" =>
                      exec[x].got[d.from] = route[r][d.from] /\ exec[x].got[d.from] \in Routes
                 /\ exec[x].got[d.from] \in Routes => step[r][d.from] = "completed"
      <3>1. d.from \in Nodes /\ d.from \in g.nodes /\ d.from \in g.router
        BY <2>1, <2>4, <2>9, WavesOrdered
      <3>2. step[r][d.from] = "completed" => route[r][d.from] \in Routes
        BY <2>1, <3>1 DEF Base, RowsOK
      <3>3. exec[x].got[d.from] \in Routes => exec[x].at[d.from] \in {"off", "over"}
        BY <2>1, <3>1 DEF Base, AtOK
      <3> QED  BY <2>3, <2>4, <2>7, <3>1, <3>2, <3>3 DEF NodeKnown, Has
    <2>10. exec[x].got[e.from] \in Routes
      BY <1>1, <2>9
    <2>11. PICK d \in g.edge : /\ d.to = n /\ d.route # Plain /\ exec[x].got[d.from] \in Routes
                               /\ exec[x].got[d.from] = d.route
      BY <1>1, <2>8, <2>10 DEF ShouldExecute
    <2> QED  BY <2>9, <2>11
  <1>2. SettledInv /\ [Next]_vars =>
          [\A r \in Runs : \A n \in NodesOf(r) \ run[r].graph.router :
             LET routed == {e \in run[r].graph.edge : e.to = n /\ e.route # Plain
                                                      /\ step[r][e.from] = "completed"} IN
             step[r][n] # "running" /\ step'[r][n] = "running" /\ ~run[r].loose
               /\ (\A x \in Execs : exec[x].run = r => exec[x].pc # "single")
             => routed = {} \/ \E e \in routed : route[r][e.from] = e.route]_vars
    <2> SUFFICES ASSUME SettledInv, Next, NEW r \in Runs, NEW n \in NodesOf(r) \ run[r].graph.router,
                        step[r][n] # "running", step'[r][n] = "running", ~run[r].loose,
                        \A x \in Execs : exec[x].run = r => exec[x].pc # "single",
                        {e \in run[r].graph.edge : e.to = n /\ e.route # Plain
                                                   /\ step[r][e.from] = "completed"} # {}
                 PROVE  \E e \in {d \in run[r].graph.edge : d.to = n /\ d.route # Plain
                                                   /\ step[r][d.from] = "completed"} :
                           route[r][e.from] = e.route
      OBVIOUS
    <2>1. PICK e \in run[r].graph.edge : e.to = n /\ e.route # Plain /\ step[r][e.from] = "completed"
      OBVIOUS
    <2> QED  BY <1>1, <2>1
  <1> QED  BY <1>2, RunsSettle, PTL DEF Spec, RouteObeyed

=============================================================================
