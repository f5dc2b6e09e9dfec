---------------------------- MODULE ResearchProofs ----------------------------
(***************************************************************************)
(* Theorems about Research, for any Scouts, turns and requests to cancel.  *)
(* The inductive invariant says what a process holds of its run at each of *)
(* its statements (Knows), what the row of a run is before the run has an  *)
(* id (Young), and that a row which is no longer live while the process of *)
(* its run still reads was written by an attempt to cancel it (Warned).    *)
(***************************************************************************)
EXTENDS Research, TLAPS

Row == [status : Status, hid : BOOLEAN, intent : BOOLEAN, tried : BOOLEAN,
        past : {"open", "ended", "reopened"}]
Place == {"idle", "ready", "start", "save", "recheck", "claim", "stop", "ask", "apply",
          "stream", "settle", "waiting", "finish", "reply", "complete", "finished",
          "notify", "siblings", "flag", "end"}
Process == [pc : Place, run : Runs \cup {NoRun}, rec : Record, flag : BOOLEAN,
            prompt : Nat, waits : BOOLEAN]
Thread == [pending : BOOLEAN, posted : Nat, upto : Nat, untold : SUBSET Nat, lost : BOOLEAN]

-----------------------------------------------------------------------------
(* The inductive invariant *)

Attempting == {"claim", "stop", "ask", "apply"}
Reading == {"recheck", "stream", "settle", "waiting", "finish", "reply", "complete"}

\* What an actor is about to do with the run it works on, and what it has read of it.
Knows(a) ==
  /\ a \in Runs /\ proc[a].pc \notin {"idle", "end"} => proc[a].run = a
  /\ a \in Requests => proc[a].pc \in Attempting \cup {"idle", "end"}
  /\ proc[a].pc \in Attempting => proc[a].run \in Runs /\ run[proc[a].run].hid
  /\ proc[a].pc \in {"stop", "ask", "apply"} => run[proc[a].run].tried
  /\ proc[a].pc \in {"apply", "settle"} /\ proc[a].rec \in Truth =>
       remote[proc[a].run] = proc[a].rec
  /\ proc[a].pc \in {"reply", "complete"} => remote[proc[a].run] = "completed"

\* Until it has an id the row of a run is written by its own process only, but for
\* the intent.
Young(r) ==
  /\ proc[r].pc = "ready" => run[r] = NewRun("none")
  /\ proc[r].pc \in {"start", "save"} => run[r].status = "live" /\ ~run[r].hid
  /\ proc[r].pc \in Reading => run[r].hid

\* While the process of a run reads, only an attempt to cancel writes its row.
Warned(r) ==
  proc[r].pc \in Reading \cup Attempting /\ run[r].status # "live" => run[r].tried

\* The two parts of OutcomeStands and StopNotLost, of one run.
Agrees(r) ==
  /\ run[r].status \in Truth /\ run[r].hid => run[r].status = remote[r]
  /\ run[r].past = "ended" => run[r].status \in Truth
Heeded(r) ==
  run[r].status = "live" /\ run[r].hid /\ run[r].intent =>
    \/ run[r].tried
    \/ ~Looked(r)
    \/ \E q \in Requests : proc[q].run = r /\ proc[q].pc = "claim"
    \/ thread.lost

Settles(r) == Young(r) /\ Warned(r) /\ Agrees(r) /\ Heeded(r)
IInv == TypeOK /\ (\A a \in Actors : Knows(a)) /\ (\A r \in Runs : Settles(r))

\* Types, with the sets of their records named.
LEMMA Types ==
  TypeOK <=> /\ run \in [Runs -> Row] /\ remote \in [Runs -> Remote]
             /\ proc \in [Actors -> Process] /\ thread \in Thread
             /\ jobs \in Nat /\ events \in Nat
BY DEF TypeOK, Row, Process, Place, Thread

\* A row, a process and a thread have fields of these kinds.
LEMMA Fields ==
  ASSUME TypeOK
  PROVE  /\ \A r \in Runs : /\ run[r] \in Row /\ run[r].status \in Status
                            /\ run[r].hid \in BOOLEAN /\ run[r].intent \in BOOLEAN
                            /\ run[r].tried \in BOOLEAN
                            /\ run[r].past \in {"open", "ended", "reopened"}
                            /\ remote[r] \in Remote
         /\ \A a \in Actors : /\ proc[a] \in Process /\ proc[a].pc \in Place
                              /\ proc[a].run \in Runs \cup {NoRun} /\ proc[a].rec \in Record
                              /\ proc[a].flag \in BOOLEAN /\ proc[a].prompt \in Nat
                              /\ proc[a].waits \in BOOLEAN
         /\ thread.pending \in BOOLEAN /\ thread.posted \in Nat /\ thread.upto \in Nat
         /\ thread.untold \in SUBSET Nat /\ thread.lost \in BOOLEAN
<1>1. \A r \in Runs : run[r] \in Row /\ remote[r] \in Remote
  BY Types
<1>2. \A a \in Actors : proc[a] \in Process
  BY Types
<1>3. thread \in Thread
  BY Types
<1>4. QED
  BY <1>1, <1>2, <1>3 DEF Row, Process, Thread

-----------------------------------------------------------------------------
(* What one step does to processes and rows *)

\* Nobody but a moves, and a goes to p.
Moves(a, p) ==
  /\ proc' \in [Actors -> Process]
  /\ proc'[a] = p
  /\ \A b \in Actors \ {a} : proc'[b] = proc[b]

\* No row but that of r changes, which becomes w.
Writes(r, w) ==
  /\ run' \in [Runs -> Row]
  /\ run'[r] = w
  /\ \A s \in Runs \ {r} : run'[s] = run[s]

\* A process that is over, and one with nothing in hand, are processes.
LEMMA NewProcType ==
  ASSUME NEW pc \in Place, NEW r \in Runs \cup {NoRun}, NEW w \in BOOLEAN
  PROVE  /\ NewProc(pc, r, w) \in Process /\ NewProc(pc, r, w).pc = pc
         /\ NewProc(pc, r, w).run = r /\ NewProc(pc, r, w).rec = "none"
BY DEF NewProc, Process, Record

\* The process after Goto.
Gone(a, pc) == IF pc = "end" THEN NewProc(pc, NoRun, FALSE)
               ELSE [proc[a] EXCEPT !.pc = pc, !.rec = "none"]

LEMMA GotoMoves ==
  ASSUME TypeOK, NEW a \in Actors, NEW pc \in Place, Goto(a, pc)
  PROVE  /\ Moves(a, Gone(a, pc)) /\ Gone(a, pc).pc = pc /\ Gone(a, pc).rec = "none"
         /\ pc # "end" => Gone(a, pc).run = proc[a].run
<1>1. proc \in [Actors -> Process] /\ proc[a] \in Process
  BY Types
<1>2. Gone(a, pc) \in Process /\ Gone(a, pc).pc = pc /\ Gone(a, pc).rec = "none"
      /\ (pc # "end" => Gone(a, pc).run = proc[a].run)
  <2>1. CASE pc = "end"
    BY <2>1, NewProcType DEF Gone
  <2>2. CASE pc # "end"
    BY <1>1, <2>2 DEF Gone, Process, Record
  <2>3. QED
    BY <2>1, <2>2
<1>3. proc' = [proc EXCEPT ![a] = Gone(a, pc)]
  BY <1>1 DEF Goto, Gone
<1>4. QED
  BY <1>1, <1>2, <1>3 DEF Moves

\* The row after Write.
Written(r, status, past) ==
  [run[r] EXCEPT !.status = status, !.past = IF status \in Truth THEN "ended" ELSE past]

LEMMA WriteWrites ==
  ASSUME TypeOK, NEW r \in Runs, NEW status \in Status,
         NEW past \in {"open", "ended", "reopened"}, Write(r, status, past)
  PROVE  /\ Writes(r, Written(r, status, past))
         /\ LET w == Written(r, status, past) IN
              /\ w.status = status /\ w.hid = run[r].hid /\ w.intent = run[r].intent
              /\ w.tried = run[r].tried
              /\ w.past = IF status \in Truth THEN "ended" ELSE past
<1>1. run \in [Runs -> Row] /\ run[r] \in Row
  BY Types
<1>2. run' = [run EXCEPT ![r] = Written(r, status, past)]
  BY <1>1 DEF Write, Written
<1>3. Written(r, status, past) \in Row
  BY <1>1 DEF Written, Row
<1>4. QED
  BY <1>1, <1>2, <1>3 DEF Writes, Written, Row

\* The same, without its name.
LEMMA WriteRow ==
  ASSUME TypeOK, NEW r \in Runs, NEW status \in Status,
         NEW past \in {"open", "ended", "reopened"}, Write(r, status, past)
  PROVE  \E w \in Row : /\ Writes(r, w) /\ w.status = status /\ w.hid = run[r].hid
                        /\ w.intent = run[r].intent /\ w.tried = run[r].tried
                        /\ w.past = IF status \in Truth THEN "ended" ELSE past
BY WriteWrites DEF Writes

\* The mark of a run left behind stays.
LEMMA LostKeeps ==
  ASSUME TypeOK, NEW when \in BOOLEAN, Lost(when)
  PROVE  thread' \in Thread /\ (thread.lost => thread'.lost) /\ (when => thread'.lost)
<1>1. thread \in Thread
  BY Types
<1>2. QED
  BY <1>1 DEF Lost, Thread

-----------------------------------------------------------------------------
(* What a step leaves alone *)

\* A run keeps what others know of it: its id, an attempt, its outcome on Hermes.
Grows(r) ==
  /\ run[r].hid => run'[r].hid
  /\ run[r].tried => run'[r].tried
  /\ remote[r] \in Truth => remote'[r] = remote[r]

\* Who does not move still knows what it knew of a run that grew.
LEMMA StillKnows ==
  ASSUME TypeOK, NEW a \in Actors, Knows(a), proc'[a] = proc[a],
         proc[a].run \in Runs /\ proc[a].pc \notin {"idle", "end"} => Grows(proc[a].run)
  PROVE  Knows(a)'
<1>1. proc[a].pc \notin {"idle", "end"} /\ (a \in Runs \/ proc[a].pc \in Attempting)
        => proc[a].run \in Runs
  BY DEF Knows
<1>2. a \in Runs \/ a \in Requests
  BY DEF Actors
<1>3. proc[a].pc \in Attempting \cup {"settle", "reply", "complete"} => proc[a].run \in Runs
  BY <1>1, <1>2 DEF Knows, Attempting
<1>4. "completed" \in Truth
  BY DEF Truth
<1>5. QED
  BY <1>3, <1>4 DEF Knows, Grows, Attempting

\* A run whose row and process nobody touches is as settled as before, unless a
\* request that was to claim it moved.
LEMMA StillSettles ==
  ASSUME TypeOK, NEW r \in Runs, Settles(r), proc'[r] = proc[r], run'[r] = run[r],
         remote[r] \in Truth => remote'[r] = remote[r],
         thread.lost => thread'.lost,
         NEW a \in Actors, \A b \in Actors \ {a} : proc'[b] = proc[b],
         a \in Requests /\ proc[a].pc = "claim" => proc[a].run # r
  PROVE  Settles(r)'
<1>1. Requests \subseteq Actors
  BY DEF Actors
<1>2. Heeded(r)'
  BY <1>1 DEF Settles, Heeded, Looked
<1>3. Young(r)' /\ Warned(r)' /\ Agrees(r)'
  BY DEF Settles, Young, Warned, Agrees
<1>4. QED
  BY <1>2, <1>3 DEF Settles

\* One step of a on the run r: nothing else changes but counters and the thread.
Touches(a, r) ==
  /\ run' \in [Runs -> Row] /\ remote' \in [Runs -> Remote] /\ proc' \in [Actors -> Process]
  /\ thread' \in Thread /\ jobs' \in Nat /\ events' \in Nat
  /\ \A b \in Actors \ {a} : proc'[b] = proc[b]
  /\ \A s \in Runs \ {r} : run'[s] = run[s] /\ remote'[s] = remote[s]
  /\ thread.lost => thread'.lost
  /\ a \in Runs => a = r
  /\ a \in Requests /\ proc[a].pc = "claim" => proc[a].run = r

\* Scouts and turns are not requests.
LEMMA Kinds ==
  ASSUME ResearchAssumption
  PROVE  /\ \A r \in Runs : r \in Actors /\ r \notin Requests
         /\ \A q \in Requests : q \in Actors /\ q \notin Runs
         /\ \A a \in Actors : a \in Runs \/ a \in Requests
         /\ Scouts \subseteq Runs /\ Turns \subseteq Runs
         /\ \A r \in Runs : r \in Scouts \/ r \in Turns
         /\ \A r \in Turns : r \notin Scouts
BY DEF ResearchAssumption, Runs, Actors

\* Such a step keeps the invariant if it keeps it of a and of r, and if who else works
\* on r still knows it.
LEMMA Assemble ==
  ASSUME ResearchAssumption, IInv, NEW a \in Actors, NEW r \in Runs, Touches(a, r),
         \A b \in Actors \ {a} :
           proc[b].run = r /\ proc[b].pc \notin {"idle", "end"} => Grows(r),
         Knows(a)', Settles(r)'
  PROVE  IInv'
<1>1. TypeOK'
  BY Types DEF Touches, TypeOK, Row, Process, Place, Thread
<1>2. ASSUME NEW b \in Actors
      PROVE  Knows(b)'
  <2>1. CASE b = a
    BY <2>1
  <2>2. CASE b # a
    <3>1. \A s \in Runs \ {r} : Grows(s)
      BY DEF Touches, Grows
    <3>2. QED
      BY <2>2, <3>1, StillKnows DEF IInv, Touches
  <2>3. QED
    BY <2>1, <2>2
<1>3. ASSUME NEW s \in Runs
      PROVE  Settles(s)'
  <2>1. CASE s = r
    BY <2>1
  <2>2. CASE s # r
    <3>1. s \in Actors /\ s # a
      BY <2>2, Kinds DEF Touches
    <3>2. proc'[s] = proc[s] /\ run'[s] = run[s] /\ remote'[s] = remote[s]
      BY <2>2, <3>1 DEF Touches
    <3>3. TypeOK /\ Settles(s) /\ (thread.lost => thread'.lost)
          /\ \A b \in Actors \ {a} : proc'[b] = proc[b]
      BY DEF IInv, Touches
    <3>4. a \in Requests /\ proc[a].pc = "claim" => proc[a].run # s
      BY <2>2 DEF Touches
    <3>5. QED
      BY <3>2, <3>3, <3>4, StillSettles
  <2>3. QED
    BY <2>1, <2>2
<1>4. QED
  BY <1>1, <1>2, <1>3 DEF IInv

\* What the invariant says of the process of a run that is under way.
LEMMA Own ==
  ASSUME ResearchAssumption, IInv, NEW r \in Runs, proc[r].pc \notin {"idle", "end"}
  PROVE  /\ TypeOK /\ proc[r].run = r /\ r \in Actors /\ r \notin Requests
         /\ Knows(r) /\ Settles(r)
BY Kinds DEF IInv, Knows

\* The types of what a step leaves alone.
LEMMA OldTypes ==
  ASSUME TypeOK
  PROVE  /\ run \in [Runs -> Row] /\ remote \in [Runs -> Remote] /\ proc \in [Actors -> Process]
         /\ thread \in Thread /\ jobs \in Nat /\ events \in Nat
         /\ (Event => events' \in Nat)
BY Types DEF Event

\* Nobody else works on a run that has no id.
LEMMA Alone ==
  ASSUME ResearchAssumption, IInv, NEW r \in Runs, ~run[r].hid, NEW b \in Actors, b # r
  PROVE  ~(proc[b].run = r /\ proc[b].pc \notin {"idle", "end"})
BY Kinds DEF IInv, Knows

-----------------------------------------------------------------------------
(* Each step keeps the invariant: a run starts *)

\* A step of a run that only goes on: nothing else changes but the thread and counters.
LEMMA GoOn ==
  ASSUME ResearchAssumption, IInv, NEW r \in Runs, NEW p \in Process, Moves(r, p),
         UNCHANGED <<run, remote>>, thread' \in Thread, jobs' \in Nat, events' \in Nat,
         thread.lost => thread'.lost,
         proc[r].pc \notin {"idle", "end"},
         p.pc \notin {"idle", "end"} => p.run = r,
         p.pc \in {"claim", "recheck"} \/ Looked(r) \/ thread'.lost \/ (run[r].intent = FALSE),
         p.pc \in Attempting => run[r].hid,
         p.pc \in {"stop", "ask", "apply"} => run[r].tried,
         p.pc \in {"apply", "settle"} /\ p.rec \in Truth => remote[r] = p.rec,
         p.pc \in {"reply", "complete"} => remote[r] = "completed",
         p.pc \in {"ready", "start", "save"} => p.pc = proc[r].pc,
         p.pc \in Reading \cup Attempting => proc[r].pc \in Reading \cup Attempting
  PROVE  IInv'
<1>1. /\ TypeOK /\ proc[r].run = r /\ r \in Actors /\ r \notin Requests
      /\ Knows(r) /\ Settles(r)
  BY Own
<1>2. proc'[r] = p /\ \A b \in Actors \ {r} : proc'[b] = proc[b]
  BY DEF Moves
<1>3. Touches(r, r)
  BY <1>1, <1>2, OldTypes DEF Touches, Moves
<1>4. Grows(r)
  BY DEF Grows
<1>5. Knows(r)'
  <2>1. p.pc \in Attempting \cup {"apply", "settle", "reply", "complete"} =>
          p.pc \notin {"idle", "end"}
    BY DEF Attempting
  <2>2. QED
    BY <1>1, <1>2, <2>1 DEF Knows, Attempting
<1>6. Young(r)' /\ Warned(r)' /\ Agrees(r)'
  <2>1. Young(r) /\ Warned(r) /\ Agrees(r)
    BY <1>1 DEF Settles
  <2>2. proc[r].pc \in Attempting => run[r].hid
    BY <1>1 DEF Knows
  <2>3. Young(r)'
    BY <1>2, <2>1, <2>2 DEF Young, Reading, Attempting
  <2>4. QED
    BY <1>2, <2>1, <2>3 DEF Warned, Agrees
<1>7. Heeded(r)'
  <2>1. Heeded(r)
    BY <1>1 DEF Settles
  <2>2. \A q \in Requests : q \in Actors \ {r}
    BY <1>1, Kinds
  <2>3. QED
    BY <1>2, <2>1, <2>2 DEF Heeded, Looked
<1>8. QED
  BY <1>1, <1>3, <1>4, <1>5, <1>6, <1>7, Assemble DEF Settles

\* The row of a new turn.
LEMMA NewRunRow ==
  ASSUME NEW status \in Status
  PROVE  /\ NewRun(status) \in Row /\ NewRun(status).status = status
         /\ ~NewRun(status).hid /\ ~NewRun(status).tried /\ ~NewRun(status).intent
         /\ NewRun(status).past = "open"
BY DEF NewRun, Row

\* A new turn takes a row that nobody works on.
LEMMA PrepareKeeps ==
  ASSUME ResearchAssumption, IInv, NEW r \in Turns, Unused(r), Prepare(r),
         thread' = thread, jobs' \in Nat, events' \in Nat
  PROVE  IInv'
<1> DEFINE p == [NewProc("ready", r, FALSE) EXCEPT !.flag = thread.pending,
                                                   !.prompt = thread.posted]
<1>1. TypeOK /\ r \in Runs /\ r \in Actors /\ r \notin Requests
  BY Kinds DEF IInv
<1>2. p \in Process /\ p.pc = "ready" /\ p.run = r
  BY <1>1, Fields DEF NewProc, Process, Place, Record
<1>3. /\ proc'[r] = p /\ proc' \in [Actors -> Process]
      /\ \A b \in Actors \ {r} : proc'[b] = proc[b]
  BY <1>1, <1>2, OldTypes DEF Prepare
<1>4. /\ run' \in [Runs -> Row] /\ remote' \in [Runs -> Remote] /\ run'[r] = NewRun("none")
      /\ \A s \in Runs \ {r} : run'[s] = run[s] /\ remote'[s] = remote[s]
  BY <1>1, OldTypes, NewRunRow DEF Prepare, Status, Remote
<1>5. Touches(r, r)
  BY <1>1, <1>3, <1>4, OldTypes DEF Touches
<1>6. \A b \in Actors \ {r} : ~(proc[b].run = r /\ proc[b].pc \notin {"idle", "end"})
  BY <1>1, Kinds DEF IInv, Knows, Unused
<1>7. Knows(r)'
  BY <1>1, <1>2, <1>3 DEF Knows, Attempting
<1>8. Settles(r)'
  <2>1. "none" \in Status /\ "none" \notin Truth
    BY DEF Status, Truth
  <2>2. /\ run'[r] = NewRun("none") /\ run'[r].status = "none" /\ run'[r].past = "open"
        /\ ~run'[r].hid
    BY <1>4, <2>1, NewRunRow
  <2>3. proc'[r].pc = "ready"
    BY <1>2, <1>3
  <2>4. QED
    BY <2>1, <2>2, <2>3 DEF Settles, Young, Warned, Agrees, Heeded, Reading, Attempting
<1>9. QED
  BY <1>1, <1>5, <1>6, <1>7, <1>8, Assemble

\* A message begins a turn.
LEMMA PostKeeps ==
  ASSUME ResearchAssumption, IInv, NEW r \in Turns, Post(r)
  PROVE  IInv'
<1>1. jobs' \in Nat /\ events' \in Nat
  BY OldTypes DEF IInv, Post
<1>2. QED
  BY <1>1, PrepareKeeps DEF Post

\* Counters alone do not matter to the invariant.
LEMMA StutterKeeps ==
  ASSUME ResearchAssumption, IInv, UNCHANGED <<run, remote, proc, thread>>,
         jobs' \in Nat, events' \in Nat
  PROVE  IInv'
<1>1. TypeOK'
  BY DEF IInv, TypeOK
<1>2. QED
  BY <1>1 DEF IInv, Knows, Settles, Young, Warned, Agrees, Heeded, Looked

\* A follow-up job begins a turn or does nothing.
LEMMA FollowupKeeps ==
  ASSUME ResearchAssumption, IInv, NEW r \in Turns, Followup(r)
  PROVE  IInv'
<1>1. jobs' \in Nat /\ events' \in Nat /\ thread' = thread
  BY OldTypes DEF IInv, Followup
<1>2. CASE UNCHANGED <<run, remote, proc>>
  BY <1>1, <1>2, StutterKeeps
<1>3. CASE Prepare(r)
  BY <1>1, <1>3, PrepareKeeps DEF Followup
<1>4. QED
  BY <1>2, <1>3 DEF Followup

\* A process that goes on with a record in hand.
Holding(a, pc, rec) == [proc[a] EXCEPT !.pc = pc, !.rec = rec]
Holds(a, pc, rec) == proc' = [proc EXCEPT ![a].pc = pc, ![a].rec = rec]

LEMMA HoldMoves ==
  ASSUME TypeOK, NEW a \in Actors, NEW pc \in Place, NEW rec \in Record, Holds(a, pc, rec)
  PROVE  /\ Holding(a, pc, rec) \in Process /\ Moves(a, Holding(a, pc, rec))
         /\ Holding(a, pc, rec).pc = pc /\ Holding(a, pc, rec).rec = rec
         /\ Holding(a, pc, rec).run = proc[a].run
BY Types DEF Moves, Process, Holds, Holding

\* The process of a run that writes a status on its row, and has no more to do with
\* Hermes unless the run is at work.
LEMMA WritesOwn ==
  ASSUME ResearchAssumption, IInv, NEW r \in Runs, NEW p \in Process, NEW w \in Row,
         proc[r].pc \in (Reading \ {"recheck"}) \cup {"start"}, Moves(r, p), Writes(r, w),
         remote' \in [Runs -> Remote], \A s \in Runs \ {r} : remote'[s] = remote[s],
         run[r].hid => remote'[r] = remote[r],
         thread' \in Thread, jobs' \in Nat, events' \in Nat, thread.lost => thread'.lost,
         w.hid = run[r].hid, w.intent = run[r].intent, w.tried = run[r].tried,
         w.status \in Truth /\ w.hid => w.status = remote[r],
         w.past = "ended" => w.status \in Truth,
         p.pc \in {"finish", "finished", "notify", "end"}, p.pc # "end" => p.run = r,
         p.pc = "finish" => w.status = "live" /\ w.hid
  PROVE  IInv'
<1>0. proc[r].pc \notin {"idle", "end"} /\ Looked(r)
  BY DEF Reading, Looked
<1>1. /\ TypeOK /\ proc[r].run = r /\ r \in Actors /\ r \notin Requests
      /\ Knows(r) /\ Settles(r)
  BY <1>0, Own
<1>2. proc'[r] = p /\ (\A b \in Actors \ {r} : proc'[b] = proc[b]) /\ run'[r] = w
  BY DEF Moves, Writes
<1>3. Touches(r, r)
  BY <1>1, <1>2 DEF Touches, Moves, Writes
<1>4. \A b \in Actors \ {r} : proc[b].run = r /\ proc[b].pc \notin {"idle", "end"} => Grows(r)
  BY <1>2, Alone DEF Grows
<1>5. Knows(r)'
  BY <1>1, <1>2 DEF Knows, Attempting
<1>6. Young(r)' /\ Warned(r)'
  BY <1>2 DEF Young, Warned, Reading, Attempting
<1>7. Agrees(r)'
  BY <1>2 DEF Agrees
<1>8. Heeded(r)'
  <2>1. Heeded(r) /\ Warned(r) /\ Young(r)
    BY <1>1 DEF Settles
  <2>2. run[r].hid => run[r].status = "live" \/ run[r].tried
    BY <2>1 DEF Warned, Young
  <2>3. \A q \in Requests : q \in Actors \ {r}
    BY <1>1, Kinds
  <2>4. QED
    BY <1>0, <1>2, <2>1, <2>2, <2>3 DEF Heeded
<1>9. QED
  BY <1>1, <1>3, <1>4, <1>5, <1>6, <1>7, <1>8, Assemble DEF Settles

\* An actor that is cancelling a run: it attempts it, or leaves it.
LEMMA Tries ==
  ASSUME ResearchAssumption, IInv, NEW a \in Actors, NEW r \in Runs, proc[a].run = r,
         proc[a].pc \in Attempting, NEW p \in Process, NEW w \in Row,
         Moves(a, p), Writes(r, w),
         remote' \in [Runs -> Remote], \A s \in Runs \ {r} : remote'[s] = remote[s],
         remote[r] \in Truth => remote'[r] = remote[r],
         thread' \in Thread, jobs' \in Nat, events' \in Nat, thread.lost => thread'.lost,
         w.hid = run[r].hid, w.intent = run[r].intent, run[r].tried => w.tried,
         w.status = run[r].status \/ w.tried,
         w.status \in Truth => w.status = remote[r],
         w.past = "ended" => w.status \in Truth,
         p.pc \in {"stop", "ask", "apply", "notify", "end"}, p.pc # "end" => p.run = r,
         p.pc = "notify" => a \in Runs,
         p.pc \in {"stop", "ask", "apply"} => w.tried,
         p.pc = "apply" /\ p.rec \in Truth => remote[r] = p.rec,
         w.tried \/ w.status \in Truth \/ thread'.lost
  PROVE  IInv'
<1>1. /\ TypeOK /\ Knows(a) /\ Settles(r) /\ r \in Actors /\ r \notin Requests
      /\ run[r].hid /\ (a \in Runs => a = r)
  <2>1. proc[a].pc \notin {"idle", "end"}
    BY DEF Attempting
  <2>2. QED
    BY <2>1, Kinds DEF IInv, Knows
<1>2. proc'[a] = p /\ (\A b \in Actors \ {a} : proc'[b] = proc[b]) /\ run'[r] = w
  BY DEF Moves, Writes
<1>3. Touches(a, r)
  BY <1>1, <1>2 DEF Touches, Moves, Writes
<1>4. Grows(r)
  BY <1>2 DEF Grows
<1>5. Knows(a)'
  <2>1. remote[r] \in Truth => remote'[r] = remote[r]
    OBVIOUS
  <2>2. QED
    BY <1>1, <1>2, <2>1 DEF Knows, Attempting
<1>6. Young(r)'
  <2>1. Young(r)
    BY <1>1 DEF Settles
  <2>2. CASE a = r
    BY <1>2, <2>2 DEF Young, Reading
  <2>3. CASE a # r
    <3>1. proc'[r] = proc[r] /\ proc[r].pc \notin {"ready", "start", "save"}
      BY <1>1, <1>2, <2>1, <2>3, NewRunRow DEF Young, NewRun
    <3>2. QED
      BY <1>1, <1>2, <3>1 DEF Young
  <2>4. QED
    BY <2>2, <2>3
<1>7. Warned(r)'
  <2>1. Warned(r)
    BY <1>1 DEF Settles
  <2>2. CASE a = r
    BY <1>2, <2>2 DEF Warned, Reading, Attempting
  <2>3. CASE a # r
    BY <1>1, <1>2, <2>1, <2>3 DEF Warned
  <2>4. QED
    BY <2>2, <2>3
<1>8. Agrees(r)' /\ Heeded(r)'
  <2>1. "live" \notin Truth
    BY DEF Truth
  <2>2. Agrees(r)'
    BY <1>2 DEF Agrees
  <2>3. Heeded(r)'
    BY <1>2, <2>1 DEF Heeded
  <2>4. QED
    BY <2>2, <2>3
<1>9. QED
  BY <1>3, <1>4, <1>5, <1>6, <1>7, <1>8, Assemble DEF Settles

\* The row of a turn becomes live before the turn has an id.
LEMMA CreateTurnKeeps ==
  ASSUME ResearchAssumption, IInv, NEW r \in Turns, CreateTurn(r)
  PROVE  IInv'
<1>1. /\ TypeOK /\ r \in Runs /\ proc[r].run = r /\ r \in Actors /\ r \notin Requests
      /\ Knows(r) /\ Settles(r)
  BY Own, Kinds DEF CreateTurn
<1> DEFINE p == Gone(r, "start")
           w == [run[r] EXCEPT !.status = "live"]
<1>2. /\ p \in Process /\ p.pc = "start" /\ p.run = r /\ proc'[r] = p
      /\ proc' \in [Actors -> Process] /\ \A b \in Actors \ {r} : proc'[b] = proc[b]
  <2>1. Goto(r, "start") /\ "start" \in Place
    BY DEF CreateTurn, Place
  <2>2. Moves(r, p) /\ p.pc = "start" /\ p.run = proc[r].run
    BY <1>1, <2>1, GotoMoves
  <2>3. QED
    BY <1>1, <2>2 DEF Moves
<1>3. run[r] = NewRun("none") /\ run[r] \in Row
  BY <1>1, OldTypes DEF Settles, Young, CreateTurn
<1>4. /\ w \in Row /\ w.status = "live" /\ ~w.hid /\ w.past = "open"
      /\ run' \in [Runs -> Row] /\ run'[r] = w /\ \A s \in Runs \ {r} : run'[s] = run[s]
  <2>1. w \in Row
    BY <1>3 DEF Row, Status
  <2>2. w.status = "live" /\ ~w.hid /\ w.past = "open"
    BY <1>3 DEF NewRun
  <2>3. run \in [Runs -> Row] /\ run' = [run EXCEPT ![r] = w]
    BY <1>1, OldTypes DEF CreateTurn
  <2> HIDE DEF w
  <2>4. QED
    BY <1>1, <2>1, <2>2, <2>3
<1>5. UNCHANGED <<remote, thread, jobs, events>>
  BY DEF CreateTurn
<1>6. Touches(r, r)
  BY <1>1, <1>2, <1>4, <1>5, OldTypes DEF Touches
<1>7. ~run[r].hid
  BY <1>3 DEF NewRun
<1>8. Knows(r)'
  BY <1>1, <1>2 DEF Knows, Attempting
<1>9. Settles(r)'
  <2>1. "live" \notin Truth
    BY DEF Truth
  <2>2. run'[r].status = "live" /\ ~run'[r].hid /\ run'[r].past = "open" /\ proc'[r].pc = "start"
    BY <1>2, <1>4
  <2>3. QED
    BY <2>1, <2>2 DEF Settles, Young, Warned, Agrees, Heeded, Reading, Attempting
<1>10. QED
  BY <1>1, <1>6, <1>7, <1>8, <1>9, Alone, Assemble

\* A run that has just got its id is yet to look at the intent.
LEMMA SaveIdKeeps ==
  ASSUME ResearchAssumption, IInv, NEW r \in Runs, SaveId(r)
  PROVE  IInv'
<1>1. /\ TypeOK /\ proc[r].run = r /\ r \in Actors /\ r \notin Requests
      /\ Knows(r) /\ Settles(r)
  BY Own DEF SaveId
<1> DEFINE p == Gone(r, "recheck")
<1>2. /\ p \in Process /\ p.pc = "recheck" /\ p.run = r /\ proc'[r] = p
      /\ proc' \in [Actors -> Process] /\ \A b \in Actors \ {r} : proc'[b] = proc[b]
  <2>1. Goto(r, "recheck") /\ "recheck" \in Place
    BY DEF SaveId, Place
  <2>2. Moves(r, p) /\ p.pc = "recheck" /\ p.run = proc[r].run
    BY <1>1, <2>1, GotoMoves
  <2>3. QED
    BY <1>1, <2>2 DEF Moves
<1>3. ~run[r].hid /\ run[r].status = "live" /\ run[r].past # "ended"
  <2>1. ~run[r].hid /\ run[r].status = "live"
    BY <1>1 DEF SaveId, Settles, Young
  <2>2. QED
    BY <1>1, <2>1 DEF Settles, Agrees, Truth
<1>4. /\ run' \in [Runs -> Row] /\ run'[r].status = "live" /\ run'[r].hid
      /\ run'[r].past # "ended" /\ \A s \in Runs \ {r} : run'[s] = run[s]
  BY <1>1, <1>3, OldTypes DEF SaveId, Row
<1>5. UNCHANGED <<remote, thread, jobs, events>>
  BY DEF SaveId
<1>6. Touches(r, r)
  BY <1>1, <1>2, <1>4, <1>5, OldTypes DEF Touches
<1>7. Knows(r)'
  BY <1>1, <1>2 DEF Knows, Attempting
<1>8. Settles(r)'
  <2>1. "live" \notin Truth
    BY DEF Truth
  <2>2. proc'[r].pc = "recheck"
    BY <1>2
  <2>3. QED
    BY <1>4, <2>1, <2>2 DEF Settles, Young, Warned, Agrees, Heeded, Looked
<1>9. QED
  BY <1>1, <1>3, <1>6, <1>7, <1>8, Alone, Assemble

\* A run that starts reaches Hermes, or ends cancelled without an id.
LEMMA StartKeeps ==
  ASSUME ResearchAssumption, IInv, NEW r \in Runs, Start(r)
  PROVE  IInv'
<1>1. /\ TypeOK /\ proc[r].run = r /\ r \in Actors /\ r \notin Requests
      /\ Knows(r) /\ Settles(r) /\ proc[r].pc = "start"
  BY Own DEF Start
<1>2. ~run[r].hid /\ run[r].status = "live" /\ jobs' = jobs /\ events' = events
  BY <1>1 DEF Start, Settles, Young
<1>3. CASE run[r].intent
  <2>1. /\ Unstarted(r) \in Place /\ Unstarted(r) \in {"notify", "end"}
        /\ "cancelled" \in Status /\ "cancelled" \in Truth /\ (r \in Turns) \in BOOLEAN
    BY DEF Unstarted, Place, Status, Truth
  <2>2. Write(r, "cancelled", run[r].past) /\ Goto(r, Unstarted(r)) /\ Lost(r \in Turns)
        /\ remote' = remote
    BY <1>3 DEF Start
  <2>3. PICK w \in Row : Writes(r, w) /\ w.hid = run[r].hid /\ w.intent = run[r].intent
                         /\ w.tried = run[r].tried /\ w.status = "cancelled"
    BY <1>1, <2>1, <2>2, WriteWrites, Fields DEF Writes
  <2>4. PICK p \in Process : Moves(r, p) /\ p.pc = Unstarted(r) /\ (p.pc # "end" => p.run = r)
    BY <1>1, <2>1, <2>2, GotoMoves DEF Moves
  <2>5. thread' \in Thread /\ (thread.lost => thread'.lost)
    BY <1>1, <2>1, <2>2, LostKeeps
  <2>6. QED
    BY <1>1, <1>2, <2>1, <2>2, <2>3, <2>4, <2>5, OldTypes, WritesOwn
<1>4. CASE ~run[r].intent
  <2>1. /\ remote' = [remote EXCEPT ![r] = "live"] /\ run' = run
        /\ thread' = [thread EXCEPT !.untold = @ \ 1 .. proc[r].prompt]
        /\ proc' = [proc EXCEPT ![r].pc = "save", ![r].prompt = 0]
    BY <1>4 DEF Start
  <2>2. thread' \in Thread /\ thread'.lost = thread.lost
    BY <1>1, <2>1, OldTypes DEF Thread
  <2>3. /\ proc' \in [Actors -> Process] /\ proc'[r].pc = "save" /\ proc'[r].run = r
        /\ \A b \in Actors \ {r} : proc'[b] = proc[b]
    <3> DEFINE p == [proc[r] EXCEPT !.pc = "save", !.prompt = 0]
    <3>1. proc \in [Actors -> Process] /\ proc[r] \in Process
      BY <1>1, OldTypes
    <3>2. p \in Process /\ p.pc = "save" /\ p.run = r
      BY <1>1, <3>1 DEF Process, Place
    <3>3. proc' = [proc EXCEPT ![r] = p]
      BY <1>1, <2>1, <3>1
    <3> HIDE DEF p
    <3>4. QED
      BY <1>1, <3>1, <3>2, <3>3
  <2>4. remote' \in [Runs -> Remote] /\ \A s \in Runs \ {r} : remote'[s] = remote[s]
    BY <1>1, <2>1, OldTypes DEF Remote
  <2>5. Touches(r, r)
    BY <1>1, <1>2, <2>1, <2>2, <2>3, <2>4, OldTypes DEF Touches
  <2>6. Knows(r)'
    BY <1>1, <2>3 DEF Knows, Attempting
  <2>7. Settles(r)'
    BY <1>1, <1>2, <2>1, <2>3 DEF Settles, Young, Warned, Agrees, Heeded, Reading, Attempting
  <2>8. QED
    BY <1>1, <1>2, <2>5, <2>6, <2>7, Alone, Assemble
<1>5. QED
  BY <1>3, <1>4

\* A run that does not start ends without an id, whatever Hermes made of it.
LEMMA StartFailsKeeps ==
  ASSUME ResearchAssumption, IInv, NEW r \in Runs, StartFails(r)
  PROVE  IInv'
<1>1. /\ TypeOK /\ proc[r].run = r /\ r \in Actors /\ Settles(r) /\ proc[r].pc = "start"
  BY Own DEF StartFails
<1>2. ~run[r].hid /\ jobs' = jobs /\ events' \in Nat
  BY <1>1, OldTypes DEF StartFails, Settles, Young
<1>3. /\ Unstarted(r) \in Place /\ Unstarted(r) \in {"notify", "end"}
      /\ "failed" \in Status /\ "failed" \in Truth /\ (r \in Turns) \in BOOLEAN
  BY DEF Unstarted, Place, Status, Truth
<1>4. Write(r, "failed", run[r].past) /\ Goto(r, Unstarted(r)) /\ Lost(r \in Turns)
  BY DEF StartFails
<1>5. remote' \in [Runs -> Remote] /\ \A s \in Runs \ {r} : remote'[s] = remote[s]
  BY <1>1, OldTypes DEF StartFails, Remote
<1>6. PICK w \in Row : Writes(r, w) /\ w.hid = run[r].hid /\ w.intent = run[r].intent
                       /\ w.tried = run[r].tried /\ w.status = "failed"
  BY <1>1, <1>3, <1>4, WriteWrites, Fields DEF Writes
<1>7. PICK p \in Process : Moves(r, p) /\ p.pc = Unstarted(r) /\ (p.pc # "end" => p.run = r)
  BY <1>1, <1>3, <1>4, GotoMoves DEF Moves
<1>8. thread' \in Thread /\ (thread.lost => thread'.lost)
  BY <1>1, <1>3, <1>4, LostKeeps
<1>9. QED
  BY <1>1, <1>2, <1>3, <1>5, <1>6, <1>7, <1>8, OldTypes, WritesOwn

-----------------------------------------------------------------------------
(* Each step keeps the invariant: a run is read *)

\* GoOn, for a step that leaves nothing in hand.
LEMMA GoOnTo ==
  ASSUME ResearchAssumption, IInv, NEW r \in Runs, NEW pc \in Place, Goto(r, pc),
         UNCHANGED <<run, remote>>, thread' \in Thread, jobs' \in Nat, events' \in Nat,
         thread.lost => thread'.lost,
         proc[r].pc \notin {"idle", "end"},
         pc = "claim" \/ Looked(r) \/ thread'.lost \/ ~run[r].intent,
         pc = "claim" => run[r].hid,
         pc \notin {"ready", "start", "save", "stop", "ask", "apply"},
         pc \in {"reply", "complete"} => remote[r] = "completed",
         pc \in Reading \cup Attempting => proc[r].pc \in Reading \cup Attempting
  PROVE  IInv'
<1>1. TypeOK /\ proc[r].run = r /\ r \in Actors
  BY Own
<1>2. PICK p \in Process : Moves(r, p) /\ p.pc = pc /\ p.rec = "none" /\ (pc # "end" => p.run = r)
  BY <1>1, GotoMoves DEF Moves
<1>3. "none" \notin Truth
  BY DEF Truth
<1>4. run[r].intent \in BOOLEAN
  BY <1>1, Fields
<1>5. p.pc \in Attempting => p.pc = "claim"
  BY <1>2 DEF Attempting
<1>6. QED
  BY <1>2, <1>3, <1>4, <1>5, GoOn

\* The second look: with an intent the run cancels itself.
LEMMA RecheckKeeps ==
  ASSUME ResearchAssumption, IInv, NEW r \in Runs, Recheck(r)
  PROVE  IInv'
<1>1. proc[r].pc = "recheck" /\ UNCHANGED <<run, remote, thread, jobs, events>>
      /\ Goto(r, IF run[r].intent THEN "claim" ELSE "stream")
  BY DEF Recheck
<1>2. TypeOK /\ run[r].hid
  BY <1>1, Own DEF Settles, Young, Reading
<1>3. QED
  BY <1>1, <1>2, OldTypes, GoOnTo DEF Place, Reading, Attempting

\* A text was streamed only by a run that has completed.
LEMMA StreamKeeps ==
  ASSUME ResearchAssumption, IInv, NEW r \in Runs, Stream(r)
  PROVE  IInv'
<1>1. proc[r].pc = "stream" /\ UNCHANGED <<run, remote, thread, jobs, events>>
      /\ Goto(r, Text(r)) /\ remote[r] = "completed"
  BY DEF Stream
<1>2. Text(r) \in {"reply", "complete"}
  BY DEF Text
<1>3. TypeOK /\ Looked(r)
  BY <1>1 DEF IInv, Looked
<1>4. QED
  BY <1>1, <1>2, <1>3, OldTypes, GoOnTo DEF Place, Reading, Attempting

\* What is read of a run is what has become of it.
LEMMA PollKeeps ==
  ASSUME ResearchAssumption, IInv, NEW r \in Runs, Poll(r)
  PROVE  IInv'
<1>1. /\ proc[r].pc \in {"stream", "waiting"} /\ UNCHANGED <<run, remote, thread, jobs>>
      /\ events' \in Nat /\ TypeOK /\ Looked(r)
  BY OldTypes DEF Poll, IInv, Looked
<1>2. proc[r].run = r /\ r \in Actors /\ thread \in Thread /\ jobs \in Nat
  BY <1>1, Own, OldTypes
<1>3. PICK rec \in {Heard(r), "unreachable"} : Read(r, rec)
  BY DEF Poll
<1>4. rec \in Record /\ (rec \in Truth => remote[r] = rec)
  BY <1>3 DEF Heard, Record, Truth
<1>5. CASE rec = "completed"
  <2>1. Goto(r, Text(r)) /\ remote[r] = "completed"
    BY <1>3, <1>4, <1>5 DEF Read, Truth
  <2>2. Text(r) \in {"reply", "complete"}
    BY DEF Text
  <2>3. QED
    BY <1>1, <1>2, <2>1, <2>2, GoOnTo DEF Place, Reading, Attempting
<1>6. CASE rec = "live" /\ proc[r].waits
  <2>1. Goto(r, "waiting")
    BY <1>3, <1>6 DEF Read
  <2>2. QED
    BY <1>1, <1>2, <2>1, GoOnTo DEF Place, Reading, Attempting
<1>7. CASE rec # "completed" /\ ~(rec = "live" /\ proc[r].waits)
  <2>1. proc' = [proc EXCEPT ![r].pc = "settle", ![r].rec = rec]
    BY <1>3, <1>7 DEF Read
  <2>2. PICK p \in Process : Moves(r, p) /\ p.pc = "settle" /\ p.rec = rec /\ p.run = r
    <3>1. "settle" \in Place /\ Holds(r, "settle", rec)
      BY <2>1 DEF Place, Holds
    <3>2. QED
      BY <1>1, <1>2, <1>4, <3>1, HoldMoves
  <2>3. QED
    BY <1>1, <1>2, <1>4, <2>2, GoOn DEF Reading, Attempting
<1>8. QED
  BY <1>5, <1>6, <1>7

\* The job that waits for a reply goes on with a run that is still live.
LEMMA FinishKeeps ==
  ASSUME ResearchAssumption, IInv, NEW r \in Runs, Finish(r)
  PROVE  IInv'
<1>1. /\ proc[r].pc = "finish" /\ UNCHANGED <<run, remote, thread, jobs, events>>
      /\ TypeOK /\ Looked(r)
  BY DEF Finish, IInv, Looked
<1>2. proc[r].run = r /\ r \in Actors /\ thread \in Thread /\ jobs \in Nat /\ events \in Nat
  BY <1>1, Own, OldTypes
<1>3. CASE Goto(r, "end")
  BY <1>1, <1>2, <1>3, GoOnTo DEF Place, Reading, Attempting
<1>4. CASE proc' = [proc EXCEPT ![r].pc = "stream", ![r].waits = TRUE, ![r].flag = thread.pending]
  <2> DEFINE p == [proc[r] EXCEPT !.pc = "stream", !.waits = TRUE, !.flag = thread.pending]
  <2>1. proc \in [Actors -> Process] /\ proc[r] \in Process /\ thread.pending \in BOOLEAN
    BY <1>1, <1>2, OldTypes, Fields
  <2>2. p \in Process /\ p.pc = "stream" /\ p.run = r
    BY <1>2, <2>1 DEF Process, Place
  <2>3. proc' = [proc EXCEPT ![r] = p]
    BY <1>2, <1>4, <2>1
  <2> HIDE DEF p
  <2>4. Moves(r, p)
    BY <1>2, <2>1, <2>2, <2>3 DEF Moves
  <2>5. QED
    BY <1>1, <1>2, <2>2, <2>4, GoOn DEF Reading, Attempting
<1>5. QED
  BY <1>3, <1>4 DEF Finish

\* The reply is stored on the thread.
LEMMA ReplyKeeps ==
  ASSUME ResearchAssumption, IInv, NEW r \in Runs, Reply(r)
  PROVE  IInv'
<1>1. /\ proc[r].pc = "reply" /\ UNCHANGED <<run, remote, jobs, events>>
      /\ Goto(r, "complete") /\ thread' = [thread EXCEPT !.upto = thread.posted]
      /\ TypeOK /\ Looked(r)
  BY DEF Reply, IInv, Looked
<1>2. thread' \in Thread /\ thread'.lost = thread.lost
  BY <1>1, OldTypes, Fields DEF Thread
<1>3. remote[r] = "completed"
  BY <1>1, Own DEF Knows
<1>4. QED
  BY <1>1, <1>2, <1>3, OldTypes, GoOnTo DEF Place, Reading, Attempting

-----------------------------------------------------------------------------
(* Each step keeps the invariant: a run has ended *)

\* A Scout that has ended posts its event.
LEMMA NotifyKeeps ==
  ASSUME ResearchAssumption, IInv, NEW r \in Runs, Notify(r)
  PROVE  IInv'
<1>1. /\ proc[r].pc = "notify" /\ UNCHANGED <<run, remote, jobs, events>>
      /\ TypeOK /\ Looked(r)
  BY DEF Notify, IInv, Looked
<1>2. proc[r].run = r /\ r \in Actors /\ thread \in Thread /\ jobs \in Nat /\ events \in Nat
  BY <1>1, Own, OldTypes
<1>3. CASE run[r].status = "live"
  <2>1. Goto(r, "end") /\ thread' = thread
    BY <1>3 DEF Notify
  <2>2. QED
    BY <1>1, <1>2, <2>1, GoOnTo DEF Place, Reading, Attempting
<1>4. CASE run[r].status # "live"
  <2> DEFINE n == thread.posted + 1
             p == [proc[r] EXCEPT !.pc = "siblings", !.flag = thread.pending]
  <2>1. /\ proc \in [Actors -> Process] /\ proc[r] \in Process /\ thread.pending \in BOOLEAN
        /\ thread.untold \in SUBSET Nat /\ n \in Nat
    BY <1>1, <1>2, OldTypes, Fields
  <2>2. PICK u \in SUBSET Nat : thread' = [thread EXCEPT !.posted = n, !.untold = u]
    <3>1. thread.untold \cup {n} \in SUBSET Nat
      BY <2>1
    <3>2. QED
      BY <1>4, <2>1, <3>1 DEF Notify
  <2>3. thread' \in Thread /\ thread'.lost = thread.lost
    BY <1>2, <2>1, <2>2 DEF Thread
  <2>4. p \in Process /\ p.pc = "siblings" /\ p.run = r
    BY <1>2, <2>1 DEF Process, Place
  <2>5. proc' = [proc EXCEPT ![r] = p]
    BY <1>2, <1>4, <2>1 DEF Notify
  <2> HIDE DEF p
  <2>6. Moves(r, p)
    BY <1>2, <2>1, <2>4, <2>5 DEF Moves
  <2>7. QED
    BY <1>1, <1>2, <2>3, <2>4, <2>6, GoOn DEF Reading, Attempting
<1>5. QED
  BY <1>3, <1>4

\* The last Scout asks for a follow-up.
LEMMA AskFollowupKeeps ==
  ASSUME ResearchAssumption, IInv, NEW r \in Runs, AskFollowup(r)
  PROVE  IInv'
<1>1. /\ proc[r].pc = "siblings" /\ UNCHANGED <<run, remote, thread, events>>
      /\ TypeOK /\ Looked(r)
  BY DEF AskFollowup, IInv, Looked
<1>2. thread \in Thread /\ jobs' \in Nat /\ events \in Nat
  BY <1>1, OldTypes DEF AskFollowup
<1>3. PICK pc \in {"flag", "end"} : Goto(r, pc)
  BY DEF AskFollowup
<1>4. QED
  BY <1>1, <1>2, <1>3, GoOnTo DEF Place, Reading, Attempting

\* The thread is marked.
LEMMA MarkKeeps ==
  ASSUME ResearchAssumption, IInv, NEW r \in Runs, Mark(r)
  PROVE  IInv'
<1>1. /\ proc[r].pc = "flag" /\ UNCHANGED <<run, remote, jobs, events>> /\ Goto(r, "end")
      /\ thread' = [thread EXCEPT !.pending = TRUE] /\ TypeOK /\ Looked(r)
  BY DEF Mark, IInv, Looked
<1>2. thread' \in Thread /\ thread'.lost = thread.lost
  BY <1>1, OldTypes DEF Thread
<1>3. QED
  BY <1>1, <1>2, OldTypes, GoOnTo DEF Place, Reading, Attempting

\* A turn has ended.
LEMMA TurnFinishedKeeps ==
  ASSUME ResearchAssumption, IInv, NEW r \in Runs, TurnFinished(r)
  PROVE  IInv'
<1>1. /\ proc[r].pc = "finished" /\ UNCHANGED <<run, remote, events>> /\ Goto(r, "end")
      /\ TypeOK /\ Looked(r)
  BY DEF TurnFinished, IInv, Looked
<1>2. thread' = thread \/ thread' = [thread EXCEPT !.pending = FALSE]
  BY DEF TurnFinished
<1>3. thread' \in Thread /\ thread'.lost = thread.lost
  BY <1>1, <1>2, OldTypes DEF Thread
<1>4. jobs' \in Nat
  BY <1>1, OldTypes DEF TurnFinished
<1>5. QED
  BY <1>1, <1>3, <1>4, OldTypes, GoOnTo DEF Place, Reading, Attempting

-----------------------------------------------------------------------------
(* Each step keeps the invariant: a run writes what it heard *)

\* WritesOwn, for a step that is a Write and a Goto.
LEMMA WritesAndGoes ==
  ASSUME ResearchAssumption, IInv, NEW r \in Runs, NEW status \in Status,
         NEW past \in {"open", "ended", "reopened"}, NEW pc \in {"finish", "finished", "notify", "end"},
         proc[r].pc \in Reading \ {"recheck"}, Write(r, status, past), Goto(r, pc),
         remote' = remote, thread' \in Thread, jobs' \in Nat, events' \in Nat,
         thread.lost => thread'.lost,
         status \in Truth => status = remote[r],
         past = "ended" => status \in Truth,
         pc = "finish" => status = "live"
  PROVE  IInv'
<1>1. proc[r].pc \notin {"idle", "end"}
  BY DEF Reading
<1>2. /\ TypeOK /\ proc[r].run = r /\ r \in Actors /\ Settles(r)
  BY <1>1, Own
<1>3. run[r].hid
  BY <1>2 DEF Settles, Young
<1>4. PICK w \in Row : /\ Writes(r, w) /\ w.status = status /\ w.hid = run[r].hid
                       /\ w.intent = run[r].intent /\ w.tried = run[r].tried
                       /\ w.past = IF status \in Truth THEN "ended" ELSE past
  BY <1>2, WriteRow
<1>5. PICK p \in Process : Moves(r, p) /\ p.pc = pc /\ (p.pc # "end" => p.run = r)
  <2>1. pc \in Place
    BY DEF Place
  <2>2. QED
    BY <1>2, <2>1, GotoMoves DEF Moves
<1>6. remote' \in [Runs -> Remote]
  BY <1>2, OldTypes
<1>7. QED
  BY <1>3, <1>4, <1>5, <1>6, WritesOwn

\* The process of a run writes what it has read, whatever the row says.
LEMMA SettleKeeps ==
  ASSUME ResearchAssumption, IInv, NEW r \in Runs, Settle(r)
  PROVE  IInv'
<1> DEFINE rec == proc[r].rec
           status == IF rec \in Truth THEN rec ELSE Unsettled(rec)
           past == IF run[r].past = "ended" THEN "reopened" ELSE run[r].past
           pc == IF rec = "live" THEN "finish" ELSE Settled(r)
<1>1. /\ proc[r].pc = "settle" /\ UNCHANGED <<remote, thread, jobs, events>>
      /\ Write(r, status, past) /\ Goto(r, pc) /\ TypeOK
  BY DEF Settle, IInv
<1>2. proc[r].run = r /\ r \in Actors /\ Knows(r)
  BY <1>1, Own
<1>3. /\ status \in Status /\ (status \in Truth => status = remote[r])
      /\ (rec = "live" => status = "live")
  BY <1>1, <1>2 DEF Unsettled, Status, Truth, Knows
<1>4. past \in {"open", "ended", "reopened"} /\ past # "ended"
  BY <1>1, Fields
<1>5. pc \in {"finish", "finished", "notify", "end"} /\ (pc = "finish" => status = "live")
  BY <1>3 DEF Settled
<1>6. thread \in Thread /\ jobs \in Nat /\ events \in Nat /\ proc[r].pc \in Reading \ {"recheck"}
  BY <1>1, OldTypes DEF Reading
<1> HIDE DEF status, past, pc
<1>7. QED
  BY <1>1, <1>3, <1>4, <1>5, <1>6, WritesAndGoes

\* A wait that runs out leaves the run live.
LEMMA GiveUpKeeps ==
  ASSUME ResearchAssumption, IInv, NEW r \in Runs, GiveUp(r)
  PROVE  IInv'
<1> DEFINE past == IF run[r].past = "ended" THEN "reopened" ELSE run[r].past
<1>1. /\ proc[r].pc = "waiting" /\ UNCHANGED <<remote, jobs>> /\ Event
      /\ Write(r, "live", past) /\ Goto(r, Settled(r)) /\ Lost(TRUE) /\ TypeOK
  BY DEF GiveUp, IInv
<1>2. past \in {"open", "ended", "reopened"} /\ past # "ended"
  BY <1>1, Fields
<1>3. Settled(r) \in {"finished", "notify"} /\ "live" \in Status /\ "live" \notin Truth
  BY DEF Settled, Status, Truth
<1>4. /\ thread' \in Thread /\ (thread.lost => thread'.lost) /\ jobs \in Nat /\ events' \in Nat
      /\ proc[r].pc \in Reading \ {"recheck"}
  BY <1>1, OldTypes, LostKeeps DEF Reading
<1> HIDE DEF past
<1>5. QED
  BY <1>1, <1>2, <1>3, <1>4, WritesAndGoes

\* A run with its text is completed.
LEMMA CompleteKeeps ==
  ASSUME ResearchAssumption, IInv, NEW r \in Runs, Complete(r)
  PROVE  IInv'
<1>1. /\ proc[r].pc = "complete" /\ UNCHANGED <<remote, thread, jobs, events>>
      /\ Write(r, "completed", run[r].past) /\ Goto(r, Settled(r)) /\ TypeOK
  BY DEF Complete, IInv
<1>2. remote[r] = "completed" /\ run[r].past \in {"open", "ended", "reopened"}
  BY <1>1, Own, Fields DEF Knows
<1>3. Settled(r) \in {"finished", "notify"} /\ "completed" \in Status /\ "completed" \in Truth
  BY DEF Settled, Status, Truth
<1>4. thread \in Thread /\ jobs \in Nat /\ events \in Nat /\ proc[r].pc \in Reading \ {"recheck"}
  BY <1>1, OldTypes DEF Reading
<1>5. QED
  BY <1>1, <1>2, <1>3, <1>4, WritesAndGoes

-----------------------------------------------------------------------------
(* Each step keeps the invariant: a run is cancelled *)

\* What the invariant says of an actor that cancels a run, and of the run.
LEMMA Trying ==
  ASSUME ResearchAssumption, IInv, NEW a \in Actors, proc[a].pc \in Attempting
  PROVE  LET r == proc[a].run IN
         /\ TypeOK /\ Knows(a) /\ r \in Runs /\ Settles(r) /\ run[r] \in Row /\ run[r].hid
         /\ run \in [Runs -> Row] /\ remote \in [Runs -> Remote] /\ thread \in Thread
         /\ jobs \in Nat /\ events \in Nat
         /\ run[r].status \in Truth => run[r].status = remote[r]
         /\ run[r].past = "ended" => run[r].status \in Truth
         /\ proc[a].pc # "claim" => run[r].tried
<1>1. TypeOK /\ Knows(a) /\ proc[a].run \in Runs /\ Settles(proc[a].run) /\ run[proc[a].run].hid
  BY DEF IInv, Knows
<1>2. proc[a].pc # "claim" => run[proc[a].run].tried
  BY <1>1 DEF Knows, Attempting
<1>3. QED
  BY <1>1, <1>2, OldTypes DEF Settles, Agrees

\* The actor leaves the run, or goes on with nothing in hand.
LEMMA TriesTo ==
  ASSUME ResearchAssumption, NEW a \in Actors, TypeOK, NEW pc \in Place, Goto(a, pc)
  PROVE  \E p \in Process : /\ Moves(a, p) /\ p.pc = pc /\ p.rec \notin Truth
                            /\ p.pc # "end" => p.run = proc[a].run
<1>1. "none" \notin Truth
  BY DEF Truth
<1>2. QED
  BY <1>1, GotoMoves DEF Moves

\* An attempt is claimed, or left to another.
LEMMA ClaimKeeps ==
  ASSUME ResearchAssumption, IInv, NEW a \in Actors, Claim(a)
  PROVE  IInv'
<1>1. proc[a].pc = "claim" /\ proc[a].pc \in Attempting /\ UNCHANGED <<remote, jobs, events>>
  BY DEF Claim, Attempting
<1>2. PICK r \in Runs : r = proc[a].run
  BY <1>1, Trying
<1>3. /\ TypeOK /\ run[r] \in Row /\ run[r].hid
      /\ run \in [Runs -> Row] /\ remote \in [Runs -> Remote] /\ thread \in Thread
      /\ jobs \in Nat /\ events \in Nat
      /\ run[r].status \in Truth => run[r].status = remote[r]
      /\ run[r].past = "ended" => run[r].status \in Truth
  BY <1>1, <1>2, Trying
<1>4. CASE /\ run[r].status \in Truth \/ run[r].tried
           /\ Goto(a, Attempted(a)) /\ UNCHANGED run /\ Lost(a \in Runs)
  <2>1. /\ Attempted(a) \in {"notify", "end"} /\ Attempted(a) \in Place
        /\ (Attempted(a) = "notify" => a \in Runs) /\ (a \in Runs) \in BOOLEAN
    BY DEF Attempted, Unstarted, Place
  <2>2. PICK p \in Process : Moves(a, p) /\ p.pc = Attempted(a) /\ p.rec \notin Truth
                             /\ (p.pc # "end" => p.run = r)
    BY <1>2, <1>3, <1>4, <2>1, TriesTo
  <2>3. thread' \in Thread /\ (thread.lost => thread'.lost)
    BY <1>3, <1>4, <2>1, LostKeeps
  <2>4. Writes(r, run[r])
    BY <1>3, <1>4 DEF Writes
  <2>5. QED
    BY <1>1, <1>2, <1>3, <1>4, <2>1, <2>2, <2>3, <2>4, Tries
<1>5. CASE /\ run[r].status \notin Truth
           /\ run' = [run EXCEPT ![r].tried = TRUE]
           /\ Goto(a, "stop") /\ UNCHANGED thread
  <2>1. PICK p \in Process : Moves(a, p) /\ p.pc = "stop" /\ p.rec \notin Truth
                             /\ (p.pc # "end" => p.run = r)
    <3>1. "stop" \in Place
      BY DEF Place
    <3>2. QED
      BY <1>2, <1>3, <1>5, <3>1, TriesTo
  <2> DEFINE w == [run[r] EXCEPT !.tried = TRUE]
  <2>2. /\ w \in Row /\ w.tried /\ w.hid = run[r].hid /\ w.intent = run[r].intent
        /\ w.status = run[r].status /\ w.past = run[r].past
    BY <1>3 DEF Row
  <2>3. run' = [run EXCEPT ![r] = w]
    BY <1>3, <1>5
  <2> HIDE DEF w
  <2>4. Writes(r, w)
    BY <1>3, <2>2, <2>3 DEF Writes
  <2>5. QED
    BY <1>1, <1>2, <1>3, <1>5, <2>1, <2>2, <2>4, Tries
<1>6. QED
  BY <1>2, <1>3, <1>4, <1>5 DEF Claim

\* Hermes is told to stop a run; one that has ended stays as it ended.
LEMMA StopKeeps ==
  ASSUME ResearchAssumption, IInv, NEW a \in Actors, Stop(a)
  PROVE  IInv'
<1>1. proc[a].pc = "stop" /\ proc[a].pc \in Attempting /\ UNCHANGED <<run, thread, jobs>>
      /\ Goto(a, "ask") /\ "ask" \in Place
  BY DEF Stop, Attempting, Place
<1>2. PICK r \in Runs : r = proc[a].run
  BY <1>1, Trying
<1>3. /\ TypeOK /\ run[r] \in Row /\ run[r].hid /\ run[r].tried
      /\ run \in [Runs -> Row] /\ remote \in [Runs -> Remote] /\ thread \in Thread
      /\ jobs \in Nat /\ events \in Nat
      /\ run[r].status \in Truth => run[r].status = remote[r]
      /\ run[r].past = "ended" => run[r].status \in Truth
  BY <1>1, <1>2, Trying
<1>4. PICK p \in Process : Moves(a, p) /\ p.pc = "ask" /\ p.rec \notin Truth
                           /\ (p.pc # "end" => p.run = r)
  BY <1>1, <1>2, <1>3, TriesTo
<1>5. Writes(r, run[r])
  BY <1>1, <1>3 DEF Writes
<1>6. events' \in Nat
  BY <1>3, OldTypes DEF Stop
<1>7. /\ remote' \in [Runs -> Remote] /\ \A s \in Runs \ {r} : remote'[s] = remote[s]
      /\ remote[r] \in Truth => remote'[r] = remote[r]
  <2>1. CASE remote' = remote
    BY <1>3, <2>1
  <2>2. CASE remote' = [remote EXCEPT ![r] = IF @ = "live" THEN "stopping" ELSE @]
    <3>1. "stopping" \in Remote /\ "live" \notin Truth
      BY DEF Remote, Truth
    <3>2. QED
      BY <1>3, <2>2, <3>1
  <2>3. QED
    BY <1>2, <2>1, <2>2 DEF Stop
<1>8. QED
  BY <1>1, <1>2, <1>3, <1>4, <1>5, <1>6, <1>7, Tries

\* What the attempt hears of the run is what has become of it.
LEMMA AskKeeps ==
  ASSUME ResearchAssumption, IInv, NEW a \in Actors, Ask(a)
  PROVE  IInv'
<1>1. proc[a].pc = "ask" /\ proc[a].pc \in Attempting /\ UNCHANGED <<run, remote, thread, jobs>>
  BY DEF Ask, Attempting
<1>2. PICK r \in Runs : r = proc[a].run
  BY <1>1, Trying
<1>3. /\ TypeOK /\ run[r] \in Row /\ run[r].hid /\ run[r].tried
      /\ run \in [Runs -> Row] /\ remote \in [Runs -> Remote] /\ thread \in Thread
      /\ jobs \in Nat /\ events \in Nat
      /\ run[r].status \in Truth => run[r].status = remote[r]
      /\ run[r].past = "ended" => run[r].status \in Truth
  BY <1>1, <1>2, Trying
<1>4. PICK rec \in {Heard(r), "unreachable"} : Holds(a, "apply", rec)
  BY <1>2 DEF Ask, Holds
<1>5. rec \in Record /\ (rec \in Truth => remote[r] = rec) /\ "apply" \in Place
  BY <1>4 DEF Heard, Record, Truth, Place
<1>6. PICK p \in Process : Moves(a, p) /\ p.pc = "apply" /\ p.rec = rec /\ p.run = r
  BY <1>2, <1>3, <1>4, <1>5, HoldMoves
<1>7. Writes(r, run[r])
  BY <1>1, <1>3 DEF Writes
<1>8. events' \in Nat
  BY <1>3, OldTypes DEF Ask
<1>9. QED
  BY <1>1, <1>2, <1>3, <1>5, <1>6, <1>7, <1>8, Tries

\* What an attempt has heard is written if it is an outcome or the row has none.
LEMMA ApplyKeeps ==
  ASSUME ResearchAssumption, IInv, NEW a \in Actors, Apply(a)
  PROVE  IInv'
<1>1. proc[a].pc = "apply" /\ proc[a].pc \in Attempting /\ UNCHANGED <<remote, jobs, events>>
  BY DEF Apply, Attempting
<1>2. PICK r \in Runs : r = proc[a].run
  BY <1>1, Trying
<1>3. /\ TypeOK /\ run[r] \in Row /\ run[r].hid /\ run[r].tried
      /\ run \in [Runs -> Row] /\ remote \in [Runs -> Remote] /\ thread \in Thread
      /\ jobs \in Nat /\ events \in Nat
      /\ run[r].status \in Truth => run[r].status = remote[r]
      /\ run[r].past = "ended" => run[r].status \in Truth
  BY <1>1, <1>2, Trying
<1> DEFINE rec == proc[a].rec
<1>4. rec \in Truth => remote[r] = rec
  BY <1>1, <1>2, Trying DEF Knows
<1>5. Goto(a, Attempted(a)) /\ Lost(a \in Runs /\ rec \notin Truth)
  BY DEF Apply
<1>6. /\ Attempted(a) \in {"notify", "end"} /\ Attempted(a) \in Place
      /\ (Attempted(a) = "notify" => a \in Runs)
      /\ (a \in Runs /\ rec \notin Truth) \in BOOLEAN
  BY DEF Attempted, Unstarted, Place
<1>7. PICK p \in Process : Moves(a, p) /\ p.pc = Attempted(a) /\ p.rec \notin Truth
                           /\ (p.pc # "end" => p.run = r)
  BY <1>2, <1>3, <1>5, <1>6, TriesTo
<1>8. thread' \in Thread /\ (thread.lost => thread'.lost)
  BY <1>3, <1>5, <1>6, LostKeeps
<1>9. PICK w \in Row : /\ Writes(r, w) /\ w.hid = run[r].hid /\ w.intent = run[r].intent
                       /\ w.tried = run[r].tried
                       /\ w.status \in Truth => w.status = remote[r]
                       /\ w.past = "ended" => w.status \in Truth
  <2>0. TypeOK
    BY <1>3
  <2>1. PICK past \in {"open", "ended", "reopened"} : past = run[r].past
    BY <1>3, Fields
  <2>2. CASE rec \in Truth
    <3>1. PICK st \in Status : st = rec /\ Write(r, st, past)
      BY <1>2, <2>1, <2>2 DEF Apply, Status
    <3>2. PICK w \in Row : /\ Writes(r, w) /\ w.status = st /\ w.hid = run[r].hid
                           /\ w.intent = run[r].intent /\ w.tried = run[r].tried
                           /\ w.past = IF st \in Truth THEN "ended" ELSE past
      BY <2>0, <3>1, WriteRow
    <3>3. QED
      BY <1>4, <2>2, <3>1, <3>2
  <2>3. CASE rec \notin Truth /\ run[r].status \notin Truth
    <3>1. PICK st \in Status \ Truth : Write(r, st, past)
      BY <1>2, <2>1, <2>3 DEF Apply, Status, Unsettled, Truth
    <3>2. PICK w \in Row : /\ Writes(r, w) /\ w.status = st /\ w.hid = run[r].hid
                           /\ w.intent = run[r].intent /\ w.tried = run[r].tried
                           /\ w.past = IF st \in Truth THEN "ended" ELSE past
      BY <2>0, <3>1, WriteRow
    <3>3. QED
      BY <1>3, <2>1, <2>3, <3>1, <3>2
  <2>4. CASE rec \notin Truth /\ run[r].status \in Truth
    <3>1. run' = run
      BY <1>2, <2>4 DEF Apply
    <3>2. QED
      BY <1>3, <3>1 DEF Writes
  <2>5. QED
    BY <2>2, <2>3, <2>4
<1> HIDE DEF rec
<1>10. QED
  BY <1>1, <1>2, <1>3, <1>6, <1>7, <1>8, <1>9, Tries

\* A request records the intent of the owner, and claims the attempt if the run has an id.
LEMMA RequestKeeps ==
  ASSUME ResearchAssumption, IInv, NEW q \in Requests, NEW r \in Runs, Request(q, r)
  PROVE  IInv'
<1>1. /\ TypeOK /\ q \in Actors /\ q \notin Runs /\ proc[q].pc \in {"idle", "end"}
      /\ r \in Actors /\ r # q /\ run[r].status # "none" /\ Settles(r)
      /\ UNCHANGED <<remote, thread, jobs>> /\ Event
  BY Kinds DEF Request, IInv
<1>2. /\ run \in [Runs -> Row] /\ run[r] \in Row /\ remote \in [Runs -> Remote]
      /\ proc \in [Actors -> Process] /\ thread \in Thread /\ jobs \in Nat /\ events' \in Nat
  BY <1>1, OldTypes
<1>3. PICK p \in Process : /\ Moves(q, p) /\ p.pc \in {"end", "claim"}
                           /\ p.pc = "claim" =>
                                p.run = r /\ run[r].hid /\ run' = [run EXCEPT ![r].intent = TRUE]
                           /\ p.pc = "end" => run' = run \/ ~run[r].hid
  <2>1. CASE Goto(q, "end") /\ (run' = run \/ ~run[r].hid)
    <3>1. "end" \in Place
      BY DEF Place
    <3>2. PICK p \in Process : Moves(q, p) /\ p.pc = "end"
      BY <1>1, <2>1, <3>1, GotoMoves DEF Moves
    <3>3. QED
      BY <2>1, <3>2
  <2>2. CASE /\ proc' = [proc EXCEPT ![q] = NewProc("claim", r, FALSE)]
             /\ run[r].hid /\ run' = [run EXCEPT ![r].intent = TRUE]
    <3> DEFINE new == NewProc("claim", r, FALSE)
    <3>0. "claim" \in Place /\ FALSE \in BOOLEAN /\ r \in Runs \cup {NoRun}
      BY DEF Place
    <3>1. new \in Process /\ new.pc = "claim" /\ new.run = r
      BY <3>0, NewProcType
    <3> HIDE DEF new
    <3>2. Moves(q, new)
      BY <1>1, <1>2, <2>2, <3>1 DEF Moves, new
    <3>3. QED
      BY <2>2, <3>1, <3>2
  <2>3. QED
    BY <2>1, <2>2 DEF Request
<1>4. PICK w \in Row : /\ Writes(r, w) /\ w.status = run[r].status /\ w.hid = run[r].hid
                       /\ w.tried = run[r].tried /\ w.past = run[r].past
                       /\ p.pc = "end" => w = run[r] \/ ~run[r].hid
  <2>1. CASE run' = run
    BY <1>2, <2>1 DEF Writes
  <2>2. CASE run' = [run EXCEPT ![r].intent = TRUE]
    <3> DEFINE w == [run[r] EXCEPT !.intent = TRUE]
    <3>1. /\ w \in Row /\ w.status = run[r].status /\ w.hid = run[r].hid
          /\ w.tried = run[r].tried /\ w.past = run[r].past
      BY <1>2 DEF Row
    <3>2. run' = [run EXCEPT ![r] = w]
      BY <1>2, <2>2
    <3>3. p.pc = "end" => w = run[r] \/ ~run[r].hid
      BY <1>2, <1>3, <3>2
    <3> HIDE DEF w
    <3>4. Writes(r, w)
      BY <1>2, <3>1, <3>2 DEF Writes
    <3>5. QED
      BY <3>1, <3>3, <3>4
  <2>3. QED
    BY <2>1, <2>2 DEF Request
<1>5. /\ proc'[q] = p /\ (\A b \in Actors \ {q} : proc'[b] = proc[b]) /\ run'[r] = w
      /\ proc'[r] = proc[r]
  BY <1>1, <1>3, <1>4 DEF Moves, Writes
<1>6. Touches(q, r)
  BY <1>1, <1>2, <1>3, <1>4, <1>5 DEF Touches, Moves, Writes
<1>7. Grows(r)
  BY <1>1, <1>4, <1>5 DEF Grows
<1>8. Knows(q)'
  BY <1>1, <1>3, <1>4, <1>5 DEF Knows, Attempting
<1>9. Young(r)' /\ Warned(r)' /\ Agrees(r)'
  <2>1. Young(r) /\ Warned(r) /\ Agrees(r) /\ proc[r].pc # "ready"
    BY <1>1 DEF Settles, Young, NewRun
  <2>2. QED
    BY <1>1, <1>4, <1>5, <2>1 DEF Young, Warned, Agrees
<1>10. Heeded(r)'
  <2>1. CASE p.pc = "claim"
    BY <1>3, <1>5, <2>1 DEF Heeded
  <2>2. CASE ~run[r].hid
    BY <1>4, <1>5, <2>2 DEF Heeded
  <2>3. CASE p.pc = "end" /\ w = run[r]
    <3>1. Heeded(r)
      BY <1>1 DEF Settles
    <3>2. \A b \in Requests : b \in Actors
      BY Kinds
    <3>3. QED
      BY <1>1, <1>5, <2>3, <3>1, <3>2 DEF Heeded, Looked
  <2>4. QED
    BY <1>3, <1>4, <2>1, <2>2, <2>3
<1>11. QED
  BY <1>1, <1>6, <1>7, <1>8, <1>9, <1>10, Assemble DEF Settles

-----------------------------------------------------------------------------
(* Each step keeps the invariant: Hermes and mishaps *)

\* An agent ends.
LEMMA RemoteEndsKeeps ==
  ASSUME ResearchAssumption, IInv, NEW r \in Runs, RemoteEnds(r)
  PROVE  IInv'
<1>1. /\ TypeOK /\ r \in Actors /\ r \notin Requests /\ Settles(r) /\ Knows(r)
      /\ UNCHANGED <<run, proc, thread, jobs, events>> /\ remote[r] \notin Truth
  BY Kinds DEF RemoteEnds, IInv, Truth
<1>2. PICK end \in Truth : remote' = [remote EXCEPT ![r] = end]
  BY DEF RemoteEnds, ResearchAssumption, Truth
<1>3. remote' \in [Runs -> Remote] /\ \A s \in Runs \ {r} : remote'[s] = remote[s]
  BY <1>1, <1>2, OldTypes DEF Remote
<1>4. Touches(r, r)
  BY <1>1, <1>3, OldTypes DEF Touches
<1>5. Grows(r)
  BY <1>1 DEF Grows
<1>6. Knows(r)'
  BY <1>1, <1>5, StillKnows DEF Knows, Attempting
<1>7. Settles(r)'
  <2>1. \A b \in Actors \ {r} : proc'[b] = proc[b]
    BY <1>1
  <2>2. QED
    BY <1>1, <2>1, StillSettles
<1>8. QED
  BY <1>1, <1>4, <1>5, <1>6, <1>7, Assemble

\* A process dies: a run is then lost, and so is a request yet to claim.
LEMMA DieKeeps ==
  ASSUME ResearchAssumption, IInv, NEW a \in Actors, Die(a)
  PROVE  IInv'
<1>1. /\ TypeOK /\ Goto(a, "end") /\ UNCHANGED <<run, remote, jobs>> /\ Event
      /\ Lost(a \in Runs \/ proc[a].pc = "claim") /\ proc[a].pc \notin {"idle", "end"}
  BY DEF Die, IInv
<1>2. /\ thread' \in Thread /\ (thread.lost => thread'.lost)
      /\ (a \in Runs \/ proc[a].pc = "claim" => thread'.lost)
      /\ jobs \in Nat /\ events' \in Nat /\ "end" \in Place
  <2>1. (a \in Runs \/ proc[a].pc = "claim") \in BOOLEAN
    OBVIOUS
  <2>2. QED
    BY <1>1, <2>1, LostKeeps, OldTypes DEF Place
<1>3. CASE a \in Runs
  BY <1>1, <1>2, <1>3, GoOnTo DEF Reading, Attempting
<1>4. CASE a \in Requests
  <2>1. proc[a].pc \in Attempting
    BY <1>1, <1>4 DEF IInv, Knows
  <2>2. PICK r \in Runs : r = proc[a].run
    BY <2>1, Trying
  <2>3. /\ run[r] \in Row /\ run[r].hid /\ run \in [Runs -> Row] /\ remote \in [Runs -> Remote]
        /\ run[r].status \in Truth => run[r].status = remote[r]
        /\ run[r].past = "ended" => run[r].status \in Truth
        /\ proc[a].pc # "claim" => run[r].tried
    BY <2>1, <2>2, Trying
  <2>4. PICK p \in Process : Moves(a, p) /\ p.pc = "end"
    BY <1>1, <1>2, TriesTo
  <2>5. Writes(r, run[r])
    BY <1>1, <2>3 DEF Writes
  <2>6. QED
    BY <1>1, <1>2, <2>1, <2>2, <2>3, <2>4, <2>5, Tries
<1>5. QED
  BY <1>3, <1>4, Kinds

\* At the start only Scouts are there, and none has reached Hermes.
LEMMA AtStart ==
  ASSUME ResearchAssumption, Init
  PROVE  IInv
<1>1. PICK launched \in Launches :
        /\ run = [r \in Runs |-> NewRun(IF r \in launched THEN "live" ELSE "none")]
        /\ remote = [r \in Runs |-> "none"]
        /\ proc = [a \in Actors |-> IF a \in launched THEN NewProc("start", a, TRUE)
                                    ELSE NewProc("idle", NoRun, FALSE)]
        /\ thread = [pending |-> FALSE, posted |-> 0, upto |-> 0, untold |-> {}, lost |-> FALSE]
        /\ jobs = 0 /\ events = MaxEvents[launched]
  BY DEF Init
<1>2. launched \subseteq Runs /\ MaxEvents[launched] \in Nat
  BY Kinds DEF ResearchAssumption
<1>3. \A r \in Runs : /\ run[r] = NewRun(IF r \in launched THEN "live" ELSE "none")
                      /\ run[r] \in Row /\ ~run[r].hid /\ run[r].past = "open"
                      /\ run[r].status = IF r \in launched THEN "live" ELSE "none"
  <2>1. "live" \in Status /\ "none" \in Status
    BY DEF Status
  <2>2. QED
    BY <1>1, <2>1, NewRunRow
<1>4. \A a \in Actors : /\ proc[a] \in Process
                        /\ a \in launched => proc[a].pc = "start" /\ proc[a].run = a
                        /\ a \notin launched => proc[a].pc = "idle"
  <2> SUFFICES ASSUME NEW a \in Actors
               PROVE  /\ proc[a] \in Process
                      /\ a \in launched => proc[a].pc = "start" /\ proc[a].run = a
                      /\ a \notin launched => proc[a].pc = "idle"
    OBVIOUS
  <2>1. "start" \in Place /\ "idle" \in Place /\ TRUE \in BOOLEAN /\ FALSE \in BOOLEAN
    BY DEF Place
  <2>2. CASE a \in launched
    <3> DEFINE new == NewProc("start", a, TRUE)
    <3>0. a \in Runs \cup {NoRun}
      BY <1>2, <2>2
    <3>1. proc[a] = new
      BY <1>1, <2>2
    <3>2. new \in Process /\ new.pc = "start" /\ new.run = a
      BY <2>1, <3>0 DEF NewProc, Process, Record
    <3> HIDE DEF new
    <3>3. QED
      BY <2>2, <3>1, <3>2
  <2>3. CASE a \notin launched
    <3> DEFINE new == NewProc("idle", NoRun, FALSE)
    <3>1. proc[a] = new /\ NoRun \in Runs \cup {NoRun}
      BY <1>1, <2>3
    <3>2. new \in Process /\ new.pc = "idle"
      BY <2>1, <3>1, NewProcType
    <3> HIDE DEF new
    <3>3. QED
      BY <2>3, <3>1, <3>2
  <2>4. QED
    BY <2>2, <2>3
<1>5. TypeOK
  <2>1. run \in [Runs -> Row] /\ remote \in [Runs -> Remote] /\ proc \in [Actors -> Process]
    BY <1>1, <1>3, <1>4 DEF Remote
  <2>2. thread \in Thread /\ jobs \in Nat /\ events \in Nat
    BY <1>1, <1>2 DEF Thread
  <2>3. QED
    BY <2>1, <2>2, Types
<1>6. ASSUME NEW a \in Actors
      PROVE  Knows(a)
  BY <1>2, <1>4, Kinds DEF Knows, Attempting
<1>7. ASSUME NEW r \in Runs
      PROVE  Settles(r)
  <2>1. r \in Actors /\ "live" \notin Truth
    BY Kinds DEF Truth
  <2>2. proc[r].pc \notin Reading \cup Attempting /\ proc[r].pc # "ready"
    BY <1>4, <2>1 DEF Reading, Attempting
  <2>3. QED
    BY <1>3, <1>4, <2>1, <2>2 DEF Settles, Young, Warned, Agrees, Heeded
<1>8. QED
  BY <1>5, <1>6, <1>7 DEF IInv

\* Every step keeps the invariant.
LEMMA StepKeeps ==
  ASSUME ResearchAssumption, IInv, [Next]_vars
  PROVE  IInv'
<1>1. ASSUME NEW r \in Runs, Drive(r)
      PROVE  IInv'
  BY <1>1, StartKeeps, SaveIdKeeps, RecheckKeeps, StreamKeeps, PollKeeps, SettleKeeps,
     CompleteKeeps DEF Drive
<1>2. ASSUME NEW r \in Turns, DriveTurn(r)
      PROVE  IInv'
  <2>1. r \in Runs
    BY Kinds
  <2>2. QED
    BY <1>2, <2>1, CreateTurnKeeps, FinishKeeps, ReplyKeeps, TurnFinishedKeeps DEF DriveTurn
<1>3. ASSUME NEW r \in Scouts, DriveScout(r)
      PROVE  IInv'
  <2>1. r \in Runs
    BY Kinds
  <2>2. QED
    BY <1>3, <2>1, NotifyKeeps, AskFollowupKeeps, MarkKeeps DEF DriveScout
<1>4. ASSUME NEW a \in Actors, Attempt(a)
      PROVE  IInv'
  BY <1>4, ClaimKeeps, StopKeeps, AskKeeps, ApplyKeeps DEF Attempt
<1>5. CASE Steps
  BY <1>1, <1>2, <1>3, <1>4, <1>5, RemoteEndsKeeps, FollowupKeeps DEF Steps
<1>6. CASE UNCHANGED vars
  BY <1>6, StutterKeeps, OldTypes DEF vars, IInv
<1>7. QED
  BY <1>5, <1>6, PostKeeps, RequestKeeps, StartFailsKeeps, GiveUpKeeps, DieKeeps DEF Next

\* The invariant holds in every state.
LEMMA Invariant == Spec => []IInv
<1>1. Init => IInv
  BY AtStart, ResearchAssumption
<1>2. IInv /\ [Next]_vars => IInv'
  BY StepKeeps, ResearchAssumption
<1>3. QED
  BY <1>1, <1>2, PTL DEF Spec

-----------------------------------------------------------------------------
(* The theorems *)

\* Every variable keeps its type: no process, request or late answer writes a status
\* that the rows do not have.
THEOREM TypeCorrect == Spec => []TypeOK
<1>1. IInv => TypeOK
  BY DEF IInv
<1>2. QED
  BY <1>1, Invariant, PTL

\* The outcome written on the row of a run is the one Hermes reports, whichever of the
\* stream, the poll and the requests to cancel writes it and however late, and a late
\* answer to a cancellation does not reopen a run that has ended (_apply_results).
THEOREM OutcomeAlwaysStands == Spec => []OutcomeStands
<1>1. IInv => OutcomeStands
  BY DEF IInv, Settles, Agrees, OutcomeStands
<1>2. QED
  BY <1>1, Invariant, PTL

\* A live run with an id and an intent to cancel it was attempted to stop, or is about to
\* be: the request writes its intent before it looks for the id, and the run its id
\* before it looks for the intent, so one of the two sees the other.
THEOREM StopIsNotLost == Spec => []StopNotLost
<1>1. IInv => StopNotLost
  BY DEF IInv, Settles, Heeded, StopNotLost
<1>2. QED
  BY <1>1, Invariant, PTL
=============================================================================
