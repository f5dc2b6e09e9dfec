---------------------------- MODULE MemoryProofs ----------------------------
(***************************************************************************)
(* Theorems about Memory, for any number of turns, builds and events.      *)
(* The inductive invariant is built in layers, each proved from those      *)
(* before it: types, and what jobs there may be (Base); the order of the   *)
(* jobs, and one build at a time (Ordered); what the ledger holds          *)
(* (Written); one usable fact in the slot (Slot); and what is left of a    *)
(* build (Thorough).                                                       *)
(***************************************************************************)
EXTENDS Memory, FiniteSetTheorems, WellFoundedInduction, TLAPS

-----------------------------------------------------------------------------
(* Queues of jobs *)

Elems(q) == {q[i] : i \in DOMAIN q}

\* The order of the jobs of one build: nothing before its launch or after it, and its
\* turns as they were said.
Before(x, y) ==
  x.run = y.run /\ x.run # NoRun => x.kind = "turn" /\ y.kind = "turn" /\ x.turn < y.turn

Sorted(q) == \A i, j \in DOMAIN q : i < j => Before(q[i], q[j])

\* The jobs of a queue with one more at its end.
LEMMA ElemsAppend ==
  ASSUME NEW S, NEW q \in Seq(S), NEW j \in S
  PROVE  Append(q, j) \in Seq(S) /\ Elems(Append(q, j)) = Elems(q) \cup {j}
<1> DEFINE a == Append(q, j)
<1>1. /\ a \in Seq(S) /\ Len(a) = Len(q) + 1 /\ Len(q) \in Nat
      /\ DOMAIN a = 1 .. Len(q) + 1 /\ DOMAIN q = 1 .. Len(q)
      /\ \A i \in 1 .. Len(q) : a[i] = q[i]
      /\ a[Len(q) + 1] = j
  OBVIOUS
<1> HIDE DEF a
<1>2. Elems(a) = Elems(q) \cup {j}
  <2>1. \A i \in DOMAIN a : a[i] \in Elems(q) \cup {j}
    BY <1>1 DEF Elems
  <2>2. \A x \in Elems(q) : x \in Elems(a)
    <3>1. DOMAIN q \subseteq DOMAIN a
      BY <1>1
    <3>2. QED
      BY <1>1, <3>1 DEF Elems
  <2>3. j \in Elems(a)
    BY <1>1 DEF Elems
  <2>4. QED
    BY <2>1, <2>2, <2>3 DEF Elems
<1>3. QED
  BY <1>1, <1>2 DEF a

\* The jobs of a queue are its first and the rest.
LEMMA ElemsTail ==
  ASSUME NEW S, NEW q \in Seq(S), q # <<>>
  PROVE  /\ Head(q) \in S /\ Tail(q) \in Seq(S)
         /\ Elems(q) = Elems(Tail(q)) \cup {Head(q)}
<1> DEFINE a == Tail(q)
           h == Head(q)
<1>1. /\ a \in Seq(S) /\ Len(a) = Len(q) - 1 /\ Len(q) \in Nat /\ Len(q) > 0
      /\ DOMAIN a = 1 .. Len(q) - 1 /\ DOMAIN q = 1 .. Len(q)
      /\ \A i \in 1 .. Len(q) - 1 : a[i] = q[i + 1]
      /\ h = q[1] /\ h \in S
  OBVIOUS
<1> HIDE DEF a, h
<1>2. \A i \in DOMAIN a : i + 1 \in DOMAIN q /\ a[i] = q[i + 1]
  BY <1>1
<1>3. 1 \in DOMAIN q
  BY <1>1
<1>4. \A i \in DOMAIN q : i = 1 \/ (i - 1 \in DOMAIN a /\ q[i] = a[i - 1])
  BY <1>1
<1>5. Elems(q) = Elems(a) \cup {h}
  <2>1. \A i \in DOMAIN q : q[i] \in Elems(a) \cup {h}
    BY <1>1, <1>4 DEF Elems
  <2>2. \A i \in DOMAIN a : a[i] \in Elems(q)
    BY <1>2 DEF Elems
  <2>3. h \in Elems(q)
    BY <1>1, <1>3 DEF Elems
  <2>4. QED
    BY <2>1, <2>2, <2>3 DEF Elems
<1>6. QED
  BY <1>1, <1>5 DEF a, h

\* A job queued last, after all that it must come after, keeps the order.
LEMMA SortedAppend ==
  ASSUME NEW S, NEW q \in Seq(S), NEW j \in S, Sorted(q), \A x \in Elems(q) : Before(x, j)
  PROVE  Sorted(Append(q, j))
<1> DEFINE a == Append(q, j)
<1>1. /\ a \in Seq(S) /\ Len(a) = Len(q) + 1 /\ Len(q) \in Nat
      /\ DOMAIN a = 1 .. Len(q) + 1 /\ DOMAIN q = 1 .. Len(q)
      /\ \A i \in 1 .. Len(q) : a[i] = q[i]
      /\ a[Len(q) + 1] = j
  OBVIOUS
<1> HIDE DEF a
<1>3. ASSUME NEW i \in DOMAIN a, NEW k \in DOMAIN a, i < k
      PROVE  Before(a[i], a[k])
  <2>1. i \in 1 .. Len(q) /\ a[i] = q[i] /\ q[i] \in Elems(q)
    BY <1>1, <1>3 DEF Elems
  <2>2. CASE k = Len(q) + 1
    BY <1>1, <2>1, <2>2
  <2>3. CASE k # Len(q) + 1
    <3>1. k \in 1 .. Len(q) /\ a[k] = q[k]
      BY <1>1, <2>3
    <3>2. QED
      BY <1>1, <1>3, <2>1, <3>1 DEF Sorted
  <2>4. QED
    BY <2>2, <2>3
<1>4. QED
  BY <1>3 DEF Sorted, a

\* The first job comes before the rest, and the rest keeps its order.
LEMMA SortedTail ==
  ASSUME NEW S, NEW q \in Seq(S), q # <<>>, Sorted(q)
  PROVE  Sorted(Tail(q)) /\ \A x \in Elems(Tail(q)) : Before(Head(q), x)
<1> DEFINE a == Tail(q)
           h == Head(q)
<1>1. /\ a \in Seq(S) /\ Len(a) = Len(q) - 1 /\ Len(q) \in Nat /\ Len(q) > 0
      /\ DOMAIN a = 1 .. Len(q) - 1 /\ DOMAIN q = 1 .. Len(q)
      /\ \A i \in 1 .. Len(q) - 1 : a[i] = q[i + 1]
      /\ h = q[1] /\ h \in S
  OBVIOUS
<1> HIDE DEF a, h
<1>2. \A i \in DOMAIN a : i + 1 \in DOMAIN q /\ a[i] = q[i + 1] /\ 1 < i + 1
  BY <1>1
<1>3. 1 \in DOMAIN q
  BY <1>1
<1>6. \A x \in Elems(a) : Before(h, x)
  BY <1>1, <1>2, <1>3 DEF Elems, Sorted
<1>7. Sorted(a)
  <2> SUFFICES ASSUME NEW i \in DOMAIN a, NEW k \in DOMAIN a, i < k
               PROVE  Before(a[i], a[k])
    BY DEF Sorted
  <2>1. i + 1 < k + 1
    BY <1>1
  <2>2. QED
    BY <1>2, <2>1 DEF Sorted
<1>8. QED
  BY <1>6, <1>7 DEF a, h

-----------------------------------------------------------------------------
(* The first layer: types, and what jobs there may be *)

\* Jobs, cutoffs and the worker's turns speak of replies that exist, and the worker's
\* place tells the kind of job it has.
JobsKnown == \A j \in Elems(queue) : j.kind # "none" /\ j.turn <= newest
CutoffsKnown == \A r \in Runs : run[r].cutoff <= newest
WorkerKnown ==
  /\ worker.left \subseteq 1 .. newest
  /\ worker.job.turn <= newest
  /\ worker.pc = "idle" => worker.job = NoJob
  /\ worker.pc \in {"launch", "fan"} => worker.job.kind = "launch"
  /\ worker.pc \in {"seek", "persist", "mark"} => worker.job.kind \in {"turn", "live"}
  /\ worker.pc = "count" => worker.job.kind = "turn"
Base == TypeOK /\ JobsKnown /\ CutoffsKnown /\ WorkerKnown

\* What the kind of a job says of its other fields.
LEMMA JobShape ==
  ASSUME NEW j \in Jobs
  PROVE  /\ j.kind \in {"none", "launch", "turn", "live"}
         /\ j.kind = "none" => j = NoJob
         /\ j.kind = "launch" => j.run \in Runs /\ j.turn = 0 /\ j = LaunchJob(j.run)
         /\ j.kind = "turn" => j.run \in Runs /\ j.turn \in Turns /\ j = TurnJob(j.run, j.turn)
         /\ j.kind = "live" => j.run = NoRun /\ j.turn \in Turns /\ j = LiveJob(j.turn)
         /\ j.run \in Runs \cup {NoRun} /\ j.turn \in Turns \cup {0}
<1>1. CASE j = NoJob
  BY <1>1 DEF NoJob
<1>2. ASSUME NEW r \in Runs, j = LaunchJob(r)
      PROVE  j.kind = "launch" /\ j.run = r /\ j.turn = 0
  BY <1>2 DEF LaunchJob
<1>3. ASSUME NEW t \in Turns, j = LiveJob(t)
      PROVE  j.kind = "live" /\ j.run = NoRun /\ j.turn = t
  BY <1>3 DEF LiveJob
<1>4. ASSUME NEW r \in Runs, NEW t \in Turns, j = TurnJob(r, t)
      PROVE  j.kind = "turn" /\ j.run = r /\ j.turn = t
  BY <1>4 DEF TurnJob
<1>5. QED
  BY <1>1, <1>2, <1>3, <1>4 DEF Jobs, NoJob

\* The jobs the code makes, and their fields.
LEMMA NewJobs ==
  ASSUME NEW r \in Runs, NEW t \in Turns
  PROVE  /\ LaunchJob(r) \in Jobs /\ LaunchJob(r).kind = "launch"
         /\ LaunchJob(r).run = r /\ LaunchJob(r).turn = 0
         /\ TurnJob(r, t) \in Jobs /\ TurnJob(r, t).kind = "turn"
         /\ TurnJob(r, t).run = r /\ TurnJob(r, t).turn = t
<1>1. LaunchJob(r) \in Jobs /\ TurnJob(r, t) \in Jobs
  BY DEF Jobs
<1>2. QED
  BY <1>1 DEF LaunchJob, TurnJob

\* The job of a turn whose reply is complete can be queued.
LEMMA NewLiveJob ==
  ASSUME NEW t \in Turns
  PROVE  LiveJob(t) \in Jobs /\ LiveJob(t).kind = "live" /\ LiveJob(t).run = NoRun
         /\ LiveJob(t).turn = t
BY DEF Jobs, LiveJob

\* An idle worker holds nothing.
LEMMA IdleShape ==
  /\ Idle \in Worker /\ Idle.pc = "idle" /\ Idle.job = NoJob /\ Idle.left = {} /\ Idle.seen = {}
  /\ NoJob.kind = "none" /\ NoJob.run = NoRun /\ NoJob.turn = 0
<1>1. NoJob \in Jobs
  BY DEF Jobs
<1>2. QED
  BY <1>1 DEF Idle, Worker, NoJob, Decision

\* After a turn, the turn of a build is counted and a live turn is done with.
LEMMA AfterShape ==
  ASSUME NEW j \in Jobs
  PROVE  /\ After(j) \in Worker /\ After(j).left = {} /\ After(j).seen = {}
         /\ j.kind = "turn" => After(j).pc = "count" /\ After(j).job = j
         /\ j.kind # "turn" => After(j) = Idle
<1>1. CASE j.kind = "turn"
  BY <1>1, IdleShape DEF After, Worker, Idle, Decision
<1>2. CASE j.kind # "turn"
  BY <1>2, IdleShape DEF After
<1>3. QED
  BY <1>1, <1>2

\* The writer's checks end a turn that was written, or begin one that was not.
LEMMA WriteTurnEffect ==
  ASSUME Base, NEW j \in Jobs, j.kind \in {"turn", "live"}, j.turn <= newest, WriteTurn(j)
  PROVE  /\ marked \subseteq marked' /\ marked' \subseteq 1 .. newest
         /\ marked' \subseteq marked \cup {j.turn}
         /\ worker' \in Worker /\ worker'.left = {}
         /\ \/ worker' = Idle /\ j.kind = "live"
            \/ /\ worker'.pc = "count" /\ worker'.job = j /\ j.kind = "turn"
               /\ j.turn \in marked' \cup Orphans
            \/ /\ worker'.pc = "seek" /\ worker'.job = j /\ marked' = marked
               /\ ~Logged(j.turn) /\ worker'.seen \subseteq ActiveFacts
<1>1. j.turn \in 1 .. newest
  BY JobShape DEF Turns, Base, TypeOK
<1>2. marked \subseteq 1 .. newest
  BY DEF Base, TypeOK
<1>3. CASE worker' = After(j)
  <2>1. marked' = marked \/ marked' = marked \cup {j.turn}
    BY DEF WriteTurn
  <2>2. j.turn \in marked' \cup Orphans
    <3>1. CASE j.turn \in Orphans \cup marked
      BY <3>1, <2>1
    <3>2. CASE j.turn \notin Orphans \cup marked
      <4>1. CASE Logged(j.turn)
        BY <3>2, <4>1 DEF WriteTurn
      <4>2. CASE ~Logged(j.turn)
        <5>1. PICK recalled \in SUBSET ActiveFacts :
                worker' = [Idle EXCEPT !.pc = "seek", !.job = j, !.seen = recalled]
          BY <3>2, <4>2 DEF WriteTurn
        <5>2. worker'.pc = "seek"
          BY <5>1 DEF Idle
        <5>3. QED
          BY <1>3, <5>2, AfterShape, IdleShape
      <4>3. QED
        BY <4>1, <4>2
    <3>3. QED
      BY <3>1, <3>2
  <2>3. QED
    BY <1>1, <1>2, <1>3, <2>1, <2>2, AfterShape
<1>4. CASE worker' # After(j)
  <2>1. /\ marked' = marked /\ ~Logged(j.turn)
        /\ \E recalled \in SUBSET ActiveFacts :
             worker' = [Idle EXCEPT !.pc = "seek", !.job = j, !.seen = recalled]
    BY <1>4 DEF WriteTurn
  <2>2. PICK recalled \in SUBSET ActiveFacts :
          worker' = [Idle EXCEPT !.pc = "seek", !.job = j, !.seen = recalled]
    BY <2>1
  <2>3. recalled \subseteq Turns
    BY DEF ActiveFacts
  <2>4. /\ worker' \in Worker /\ worker'.pc = "seek" /\ worker'.job = j
        /\ worker'.left = {} /\ worker'.seen = recalled
    BY <2>2, <2>3, IdleShape DEF Idle, Worker, Decision
  <2>5. QED
    BY <1>2, <2>1, <2>4
<1>5. QED
  BY <1>3, <1>4

\* At the start no job is queued and the worker is idle.
LEMMA BaseAtStart ==
  ASSUME MemoryAssumption, Init
  PROVE  Base
<1>1. run \in [Runs -> RunRow] /\ \A r \in Runs : run[r].cutoff = 0
  BY DEF Init, Unrequested, RunRow, Status
<1>2. TypeOK
  <2>1. /\ newest \in 0 .. MaxTurn /\ blank \subseteq 1 .. newest /\ marked \subseteq 1 .. newest
        /\ events \in 0 .. MaxEvents
    BY DEF Init, MemoryAssumption
  <2>2. ledger \in Seq(Entry) /\ queue \in Seq(Jobs)
    BY DEF Init
  <2>3. fact \in [Turns -> FactState] /\ op \in Op /\ released \in BOOLEAN /\ missed \in BOOLEAN
    BY DEF Init, FactState, Op, NoOp
  <2>4. worker \in Worker
    BY IdleShape DEF Init
  <2>5. QED
    BY <1>1, <2>1, <2>2, <2>3, <2>4 DEF TypeOK
<1>3. JobsKnown
  BY DEF JobsKnown, Elems, Init
<1>4. CutoffsKnown /\ WorkerKnown
  BY <1>1, IdleShape, MemoryAssumption
  DEF CutoffsKnown, WorkerKnown, Init, MemoryAssumption, NoJob
<1>5. QED
  BY <1>2, <1>3, <1>4 DEF Base

\* What becomes of the queue: a job at its end, the first job off, or the first job
\* moved to the end.
LEMMA QueueEffect ==
  ASSUME Base
  PROVE  /\ \A j \in Jobs : Append(queue, j) \in Seq(Jobs)
                            /\ Elems(Append(queue, j)) = Elems(queue) \cup {j}
         /\ queue # <<>> =>
              /\ Head(queue) \in Jobs /\ Head(queue) \in Elems(queue)
              /\ Tail(queue) \in Seq(Jobs)
              /\ Elems(queue) = Elems(Tail(queue)) \cup {Head(queue)}
              /\ Append(Tail(queue), Head(queue)) \in Seq(Jobs)
              /\ Elems(Append(Tail(queue), Head(queue))) = Elems(queue)
<1>1. queue \in Seq(Jobs)
  BY DEF Base, TypeOK
<1>2. \A j \in Jobs : Append(queue, j) \in Seq(Jobs)
                      /\ Elems(Append(queue, j)) = Elems(queue) \cup {j}
  BY <1>1, ElemsAppend
<1>3. ASSUME queue # <<>>
      PROVE  /\ Head(queue) \in Jobs /\ Tail(queue) \in Seq(Jobs)
             /\ Elems(queue) = Elems(Tail(queue)) \cup {Head(queue)}
  BY <1>1, <1>3, ElemsTail
<1>4. ASSUME queue # <<>>
      PROVE  /\ Append(Tail(queue), Head(queue)) \in Seq(Jobs)
             /\ Elems(Append(Tail(queue), Head(queue))) = Elems(queue)
  <2>1. /\ Head(queue) \in Jobs /\ Tail(queue) \in Seq(Jobs)
        /\ Elems(queue) = Elems(Tail(queue)) \cup {Head(queue)}
    BY <1>3, <1>4
  <2> DEFINE h == Head(queue)
             a == Tail(queue)
  <2>0. h \in Jobs /\ a \in Seq(Jobs)
    BY <2>1
  <2> HIDE DEF h, a
  <2>2. Append(a, h) \in Seq(Jobs) /\ Elems(Append(a, h)) = Elems(a) \cup {h}
    BY <2>0, ElemsAppend
  <2>3. QED
    BY <2>1, <2>2 DEF h, a
<1>5. QED
  BY <1>2, <1>3, <1>4

\* A failed build changes only its status.
LEMMA FailEffect ==
  ASSUME run \in [Runs -> RunRow], NEW r \in Runs \cup {NoRun}
  PROVE  /\ Fail(r) \in [Runs -> RunRow]
         /\ \A q \in Runs :
              /\ Fail(r)[q].status = IF q = r /\ Active(q) THEN "failed" ELSE run[q].status
              /\ Fail(r)[q].req = run[q].req /\ Fail(r)[q].cutoff = run[q].cutoff
              /\ Fail(r)[q].total = run[q].total /\ Fail(r)[q].done = run[q].done
              /\ Fail(r)[q].started = run[q].started /\ Fail(r)[q].base = run[q].base
              /\ Fail(r)[q].intact = run[q].intact /\ Fail(r)[q].late = run[q].late
<1>1. CASE r # NoRun /\ Active(r)
  BY <1>1 DEF Fail, RunRow, Status
<1>2. CASE ~(r # NoRun /\ Active(r))
  <2>1. Fail(r) = run
    BY <1>2 DEF Fail
  <2>2. \A q \in Runs : q = r => ~Active(q)
    BY <1>2 DEF NoRun, Runs
  <2>3. QED
    BY <2>1, <2>2
<1>3. QED
  BY <1>1, <1>2

-----------------------------------------------------------------------------
(* What the actions do to the rows of the builds *)

\* The types of a row's fields.
LEMMA RowFields ==
  ASSUME run \in [Runs -> RunRow], NEW r \in Runs
  PROVE  /\ run[r].req \in {"idle", "create", "count", "enqueue"} /\ run[r].status \in Status
         /\ run[r].cutoff \in Nat /\ run[r].total \in Nat /\ run[r].done \in Nat
         /\ run[r].started \in BOOLEAN /\ run[r].base \in Nat /\ run[r].intact \in BOOLEAN
         /\ run[r].late \in SUBSET Turns
BY DEF RunRow

\* Another row.
OthersKept(r) == run' \in [Runs -> RunRow] /\ \A q \in Runs : q # r => run'[q] = run[q]

\* A request changes nothing of a build but its own status, and only where none was asked.
LEMMA AskBuildRow ==
  ASSUME run \in [Runs -> RunRow], newest \in Nat, NEW r \in Runs, AskBuild(r)
  PROVE  /\ OthersKept(r) /\ run[r] = Unrequested
         /\ run'[r].req = "create" /\ run'[r].status = "none" /\ run'[r].cutoff = newest
         /\ run'[r].done = 0 /\ run'[r].started = FALSE /\ run'[r].intact = TRUE
         /\ run'[r].base = 0
<1>1. run' = [run EXCEPT ![r].req = "create", ![r].cutoff = newest] /\ run[r] = Unrequested
  BY DEF AskBuild
<1>2. run' \in [Runs -> RunRow]
  <2>1. run' = [run EXCEPT ![r] = [run[r] EXCEPT !.req = "create", !.cutoff = newest]]
    BY <1>1
  <2>2. [run[r] EXCEPT !.req = "create", !.cutoff = newest] \in RunRow
    BY DEF RunRow
  <2>3. QED
    BY <2>1, <2>2
<1>3. \A q \in Runs : q # r => run'[q] = run[q]
  BY <1>1
<1>4. run'[r] = [Unrequested EXCEPT !.req = "create", !.cutoff = newest]
  BY <1>1
<1>5. QED
  BY <1>1, <1>2, <1>3, <1>4 DEF Unrequested, OthersKept

\* The row of a request becomes pending; the others stay.
LEMMA CreateRunRow ==
  ASSUME run \in [Runs -> RunRow], NEW r \in Runs, CreateRun(r)
  PROVE  /\ OthersKept(r) /\ run[r].req = "create"
         /\ \/ /\ Building /\ run'[r].req = "idle" /\ run'[r].status = "refused"
               /\ run'[r].cutoff = 0 /\ run'[r].done = 0 /\ run'[r].started = FALSE
               /\ run'[r].base = 0
            \/ /\ ~Building /\ run'[r].req = "count" /\ run'[r].status = "queued"
               /\ run'[r].cutoff = run[r].cutoff /\ run'[r].done = run[r].done
               /\ run'[r].started = run[r].started /\ run'[r].base = run[r].base
               /\ run'[r].intact = run[r].intact
<1>1. CASE Building
  <2>1. run' = [run EXCEPT ![r] = [Unrequested EXCEPT !.status = "refused"]]
    BY <1>1 DEF CreateRun
  <2>2. [Unrequested EXCEPT !.status = "refused"] \in RunRow
    BY DEF Unrequested, RunRow, Status
  <2>3. run' \in [Runs -> RunRow] /\ run'[r] = [Unrequested EXCEPT !.status = "refused"]
        /\ \A q \in Runs : q # r => run'[q] = run[q]
    BY <2>1, <2>2
  <2>4. QED
    BY <1>1, <2>3 DEF CreateRun, Unrequested, OthersKept
<1>2. CASE ~Building
  <2>1. run' = [run EXCEPT ![r] = [run[r] EXCEPT !.req = "count", !.status = "queued"]]
    BY <1>2 DEF CreateRun
  <2>2. run' \in [Runs -> RunRow]
    <3>1. [run[r] EXCEPT !.req = "count", !.status = "queued"] \in RunRow
      BY DEF RunRow, Status
    <3>2. QED
      BY <2>1, <3>1
  <2>3. run'[r] = [run[r] EXCEPT !.req = "count", !.status = "queued"]
        /\ \A q \in Runs : q # r => run'[q] = run[q]
    BY <2>1
  <2>4. run[r] \in RunRow
    OBVIOUS
  <2>5. QED
    BY <1>2, <2>2, <2>3, <2>4 DEF CreateRun, OthersKept, RunRow
<1>3. QED
  BY <1>1, <1>2

\* A request fixes its cutoff at the newest turn.
LEMMA CountTurnsRow ==
  ASSUME run \in [Runs -> RunRow], NEW r \in Runs, CountTurns(r), Cardinality(Eligible(r)) \in Nat,
         blank \subseteq Turns
  PROVE  /\ OthersKept(r) /\ run[r].req = "count"
         /\ run'[r].cutoff = run[r].cutoff /\ run'[r].done = run[r].done
         /\ run'[r].intact = run[r].intact /\ run'[r].base = run[r].base
         /\ \/ /\ Cardinality(Eligible(r)) = 0
               /\ run'[r].req = "idle" /\ run'[r].status = "completed" /\ run'[r].started = TRUE
               /\ run'[r].late = blank \cap 1 .. run[r].cutoff
            \/ /\ Cardinality(Eligible(r)) # 0
               /\ run'[r].req = "enqueue" /\ run'[r].status = run[r].status
               /\ run'[r].started = run[r].started /\ run'[r].late = run[r].late
<1> DEFINE n == Cardinality(Eligible(r))
           l == blank \cap 1 .. run[r].cutoff
<1>0. run[r] \in RunRow /\ run[r].req = "count" /\ n \in Nat /\ l \subseteq Turns
  BY DEF CountTurns
<1>1. CASE n = 0
  <2>1. run' = [run EXCEPT ![r] = [run[r] EXCEPT !.req = "idle", !.status = "completed",
                                                 !.started = TRUE, !.late = l]]
    BY <1>1 DEF CountTurns
  <2> HIDE DEF l
  <2>2. [run[r] EXCEPT !.req = "idle", !.status = "completed", !.started = TRUE, !.late = l]
          \in RunRow
    BY <1>0 DEF RunRow, Status
  <2>3. /\ run' \in [Runs -> RunRow] /\ \A q \in Runs : q # r => run'[q] = run[q]
        /\ run'[r] = [run[r] EXCEPT !.req = "idle", !.status = "completed", !.started = TRUE,
                                    !.late = l]
    BY <2>1, <2>2
  <2>4. QED
    BY <1>0, <1>1, <2>3 DEF OthersKept, RunRow, l
<1>2. CASE n # 0
  <2> HIDE DEF n
  <2>1. run' = [run EXCEPT ![r] = [run[r] EXCEPT !.req = "enqueue", !.total = n]]
    BY <1>2 DEF CountTurns, n
  <2>2. [run[r] EXCEPT !.req = "enqueue", !.total = n] \in RunRow
    BY <1>0 DEF RunRow
  <2>3. /\ run' \in [Runs -> RunRow] /\ \A q \in Runs : q # r => run'[q] = run[q]
        /\ run'[r] = [run[r] EXCEPT !.req = "enqueue", !.total = n]
    BY <2>1, <2>2
  <2>4. /\ run'[r].cutoff = run[r].cutoff /\ run'[r].done = run[r].done
        /\ run'[r].intact = run[r].intact /\ run'[r].base = run[r].base
        /\ run'[r].req = "enqueue" /\ run'[r].status = run[r].status
        /\ run'[r].started = run[r].started /\ run'[r].late = run[r].late
    BY <1>0, <2>3 DEF RunRow
  <2>5. QED
    BY <1>0, <1>2, <2>3, <2>4 DEF OthersKept, n
<1>3. QED
  BY <1>1, <1>2

\* Queueing the launch leaves the rows of the builds alone.
LEMMA EnqueueLaunchRow ==
  ASSUME run \in [Runs -> RunRow], NEW r \in Runs, EnqueueLaunch(r)
  PROVE  /\ OthersKept(r) /\ run[r].req = "enqueue" /\ run'[r].req = "idle"
         /\ \/ queue' = Append(queue, LaunchJob(r)) /\ run'[r].status = run[r].status
            \/ queue' = queue /\ run'[r].status = "failed"
         /\ run'[r].cutoff = run[r].cutoff /\ run'[r].done = run[r].done
         /\ run'[r].started = run[r].started /\ run'[r].base = run[r].base
         /\ run'[r].intact = run[r].intact /\ run'[r].late = run[r].late
<1>0. run[r].req = "enqueue" /\ run[r] \in RunRow
  BY DEF EnqueueLaunch
<1>1. CASE queue' = Append(queue, LaunchJob(r)) /\ run' = [run EXCEPT ![r].req = "idle"]
  <2>1. run' \in [Runs -> RunRow]
    <3>1. run' = [run EXCEPT ![r] = [run[r] EXCEPT !.req = "idle"]]
      BY <1>1
    <3>2. [run[r] EXCEPT !.req = "idle"] \in RunRow
      BY <1>0 DEF RunRow
    <3>3. QED
      BY <3>1, <3>2
  <2>2. run'[r] = [run[r] EXCEPT !.req = "idle"] /\ \A q \in Runs : q # r => run'[q] = run[q]
    BY <1>1
  <2>3. QED
    BY <1>0, <1>1, <2>1, <2>2 DEF OthersKept, RunRow
<1>2. CASE queue' = queue /\ run' = [run EXCEPT ![r].req = "idle", ![r].status = "failed"]
  <2>1. [run[r] EXCEPT !.req = "idle", !.status = "failed"] \in RunRow
    BY <1>0 DEF RunRow, Status
  <2>2. /\ run' \in [Runs -> RunRow] /\ \A q \in Runs : q # r => run'[q] = run[q]
        /\ run'[r] = [run[r] EXCEPT !.req = "idle", !.status = "failed"]
    BY <1>2, <2>1
  <2>3. QED
    BY <1>0, <1>2, <2>2 DEF OthersKept, RunRow
<1>3. QED
  BY <1>1, <1>2 DEF EnqueueLaunch

\* A stop fails an active build, and no other.
LEMMA StopRunRow ==
  ASSUME run \in [Runs -> RunRow], NEW r \in Runs, StopRun(r)
  PROVE  /\ OthersKept(r) /\ Active(r) /\ run'[r].status = "stopped"
         /\ run'[r].req = run[r].req
         /\ run'[r].cutoff = run[r].cutoff /\ run'[r].done = run[r].done
         /\ run'[r].started = run[r].started /\ run'[r].base = run[r].base
         /\ run'[r].intact = run[r].intact /\ run'[r].late = run[r].late
<1>1. run' = [run EXCEPT ![r].status = "stopped"] /\ Active(r) /\ run[r] \in RunRow
  BY DEF StopRun
<1>2. run' \in [Runs -> RunRow]
  BY <1>1 DEF RunRow, Status
<1>3. QED
  BY <1>1, <1>2 DEF OthersKept, RunRow

\* A request that dies leaves the rows of the builds as they are.
LEMMA KillRequestRow ==
  ASSUME run \in [Runs -> RunRow], NEW r \in Runs, KillRequest(r)
  PROVE  /\ OthersKept(r) /\ run[r].req \in {"count", "enqueue"} /\ run'[r].req = "idle"
         /\ run'[r].status = run[r].status /\ run'[r].total = run[r].total
         /\ run'[r].cutoff = run[r].cutoff /\ run'[r].done = run[r].done
         /\ run'[r].started = run[r].started /\ run'[r].base = run[r].base
         /\ run'[r].intact = run[r].intact /\ run'[r].late = run[r].late
<1>1. run' = [run EXCEPT ![r].req = "idle", ![r].lost = TRUE] /\ run[r] \in RunRow
      /\ run[r].req \in {"count", "enqueue"}
  BY DEF KillRequest
<1>2. run' \in [Runs -> RunRow]
  BY <1>1 DEF RunRow
<1>3. run'[r] = [run[r] EXCEPT !.req = "idle", !.lost = TRUE]
      /\ \A q \in Runs : q # r => run'[q] = run[q]
  BY <1>1
<1>4. QED
  BY <1>1, <1>2, <1>3 DEF OthersKept, RunRow

\* The launch of a build, unless another build is active.
Launched(r) ==
  /\ OthersKept(r)
  /\ run'[r].status = (IF worker.left = {} THEN "completed" ELSE "running")
  /\ run'[r].total = Cardinality(worker.left) /\ run'[r].started = TRUE
  /\ run'[r].base = Len(ledger) /\ run'[r].req = run[r].req
  /\ run'[r].cutoff = run[r].cutoff /\ run'[r].done = run[r].done
  /\ run'[r].intact = run[r].intact /\ run'[r].late = run[r].late

\* A launch sets the total of its build and starts or completes it.
LEMMA LaunchRow ==
  ASSUME run \in [Runs -> RunRow], Launch, worker.job.run \in Runs, Len(ledger) \in Nat,
         Cardinality(worker.left) \in Nat
  PROVE  \/ worker' = Idle /\ run' = run
         \/ /\ worker' = [worker EXCEPT !.pc = "fan"]
            /\ worker.left # {} => ~\E q \in Runs \ {worker.job.run} : Active(q)
            /\ Launched(worker.job.run)
<1> DEFINE n == Cardinality(worker.left)
           k == Len(ledger)
           s == IF worker.left = {} THEN "completed" ELSE "running"
           r == worker.job.run
<1>1. CASE worker.left # {} /\ \E q \in Runs \ {r} : Active(q)
  BY <1>1 DEF Launch
<1>2. CASE ~(worker.left # {} /\ \E q \in Runs \ {r} : Active(q))
  <2>1. /\ run' = [run EXCEPT ![r].status = s, ![r].total = n, ![r].started = TRUE,
                              ![r].base = k]
        /\ worker' = [worker EXCEPT !.pc = "fan"]
    BY <1>2 DEF Launch
  <2>2. n \in Nat /\ k \in Nat /\ s \in Status /\ r \in Runs
    BY DEF Status
  <2>3. Launched(r) <=> /\ OthersKept(r) /\ run'[r].status = s
                        /\ run'[r].total = n /\ run'[r].started = TRUE /\ run'[r].base = k
                        /\ run'[r].req = run[r].req
                        /\ run'[r].cutoff = run[r].cutoff /\ run'[r].done = run[r].done
                        /\ run'[r].intact = run[r].intact /\ run'[r].late = run[r].late
    BY DEF Launched
  <2> HIDE DEF n, k, s, r
  <2>4. /\ DOMAIN run' = Runs /\ \A q \in Runs : q # r => run'[q] = run[q]
        /\ run'[r] = [run[r] EXCEPT !.status = s, !.total = n, !.started = TRUE, !.base = k]
        /\ run' = [q \in Runs |-> run'[q]]
    BY <2>1, <2>2
  <2>5. run[r] \in RunRow
    BY <2>2
  <2>6. [run[r] EXCEPT !.status = s, !.total = n, !.started = TRUE, !.base = k] \in RunRow
    BY <2>2, <2>5 DEF RunRow
  <2>7. run' \in [Runs -> RunRow]
    BY <2>2, <2>4, <2>6
  <2>8. /\ run'[r].status = s /\ run'[r].total = n /\ run'[r].started = TRUE
        /\ run'[r].base = k /\ run'[r].req = run[r].req /\ run'[r].cutoff = run[r].cutoff
        /\ run'[r].done = run[r].done /\ run'[r].intact = run[r].intact
        /\ run'[r].late = run[r].late
    BY <2>4, <2>5 DEF RunRow
  <2>9. Launched(r)
    BY <2>3, <2>4, <2>7, <2>8 DEF OthersKept
  <2>10. QED
    BY <1>2, <2>1, <2>9 DEF r
<1>3. QED
  BY <1>1, <1>2

\* A counted turn, while the build is running.
LEMMA CountRow ==
  ASSUME run \in [Runs -> RunRow], Count, worker.job.run \in Runs
  PROVE  LET r == worker.job.run IN
         \/ run[r].status # "running" /\ run' = run
         \/ /\ run[r].status = "running" /\ OthersKept(r)
            /\ run'[r].done = run[r].done + 1
            /\ run'[r].status = IF run[r].done + 1 >= run[r].total THEN "completed" ELSE "running"
            /\ run'[r].req = run[r].req /\ run'[r].cutoff = run[r].cutoff
            /\ run'[r].total = run[r].total /\ run'[r].started = run[r].started
            /\ run'[r].base = run[r].base /\ run'[r].intact = run[r].intact
            /\ run'[r].late = run[r].late
<1> DEFINE r == worker.job.run
           s == IF run[r].done + 1 >= run[r].total THEN "completed" ELSE run[r].status
           d == run[r].done + 1
<1>1. CASE run[r].status # "running"
  BY <1>1 DEF Count
<1>2. CASE run[r].status = "running"
  <2>1. run' = [run EXCEPT ![r].done = d, ![r].status = s]
    BY <1>2 DEF Count
  <2>2. d \in Nat /\ s \in Status /\ run[r] \in RunRow /\ r \in Runs
    BY DEF RunRow, Status
  <2>3. s = IF run[r].done + 1 >= run[r].total THEN "completed" ELSE "running"
    BY <1>2
  <2>3a. d = run[r].done + 1
    OBVIOUS
  <2> HIDE DEF d, s, r
  <2>4. run'[r] = [run[r] EXCEPT !.done = d, !.status = s]
        /\ \A q \in Runs : q # r => run'[q] = run[q]
    BY <2>1, <2>2
  <2>5. run' \in [Runs -> RunRow]
    BY <2>1, <2>2 DEF RunRow
  <2>6. /\ run'[r].done = d /\ run'[r].status = s
        /\ run'[r].req = run[r].req /\ run'[r].cutoff = run[r].cutoff
        /\ run'[r].total = run[r].total /\ run'[r].started = run[r].started
        /\ run'[r].base = run[r].base /\ run'[r].intact = run[r].intact
        /\ run'[r].late = run[r].late
    BY <2>2, <2>4 DEF RunRow
  <2>7. QED
    BY <1>2, <2>3, <2>3a, <2>4, <2>5, <2>6 DEF OthersKept, r
<1>3. QED
  BY <1>1, <1>2

\* A killed worker changes nothing of the build but the mark that it was lost.
LEMMA KillRow ==
  ASSUME run \in [Runs -> RunRow], Kill
  PROVE  /\ run' \in [Runs -> RunRow]
         /\ \A q \in Runs :
              /\ run'[q].status = run[q].status /\ run'[q].req = run[q].req
              /\ run'[q].cutoff = run[q].cutoff /\ run'[q].total = run[q].total
              /\ run'[q].done = run[q].done /\ run'[q].started = run[q].started
              /\ run'[q].base = run[q].base /\ run'[q].intact = run[q].intact
              /\ run'[q].late = run[q].late
<1>1. CASE worker.job.run \in Runs
  <2> DEFINE r == worker.job.run
  <2>1. run' = [run EXCEPT ![r] = [run[r] EXCEPT !.lost = TRUE]] /\ r \in Runs
    BY <1>1 DEF Kill
  <2> HIDE DEF r
  <2>2. run[r] \in RunRow /\ [run[r] EXCEPT !.lost = TRUE] \in RunRow
    BY <2>1 DEF RunRow
  <2>3. run' \in [Runs -> RunRow]
    BY <2>1, <2>2
  <2>4. ASSUME NEW q \in Runs
        PROVE  run'[q] = IF q = r THEN [run[r] EXCEPT !.lost = TRUE] ELSE run[q]
    BY <2>1
  <2>5. QED
    BY <2>2, <2>3, <2>4 DEF RunRow
<1>2. CASE worker.job.run \notin Runs
  <2>1. run' = run
    BY <1>2 DEF Kill
  <2>2. QED
    BY <2>1
<1>3. QED
  BY <1>1, <1>2

\* Clearing the store leaves the builds where they are; those there are lose what was
\* theirs to keep.
LEMMA ClearRow ==
  ASSUME run \in [Runs -> RunRow], ClearStore
  PROVE  /\ run' \in [Runs -> RunRow]
         /\ \A q \in Runs :
              /\ run'[q].status = run[q].status /\ run'[q].req = run[q].req
              /\ run'[q].cutoff = run[q].cutoff /\ run'[q].total = run[q].total
              /\ run'[q].done = run[q].done /\ run'[q].started = run[q].started
              /\ run'[q].base = 0 /\ (run[q] # Unrequested => run'[q].intact = FALSE)
<1> DEFINE new(q) == [run[q] EXCEPT !.base = 0, !.intact = FALSE]
<1>1. run' = [q \in Runs |-> IF run[q] = Unrequested THEN Unrequested ELSE new(q)]
  BY DEF ClearStore
<1>2. ASSUME NEW q \in Runs
      PROVE  /\ new(q) \in RunRow /\ new(q).base = 0 /\ new(q).intact = FALSE
             /\ new(q).status = run[q].status /\ new(q).req = run[q].req
             /\ new(q).cutoff = run[q].cutoff /\ new(q).total = run[q].total
             /\ new(q).done = run[q].done /\ new(q).started = run[q].started
  BY DEF RunRow
<1>3. Unrequested.base = 0
  BY DEF Unrequested
<1> HIDE DEF new
<1>4. ASSUME NEW q \in Runs
      PROVE  run'[q] = IF run[q] = Unrequested THEN run[q] ELSE new(q)
  BY <1>1
<1>5. run' \in [Runs -> RunRow]
  <2>1. \A q \in Runs : run'[q] \in RunRow
    BY <1>2, <1>4
  <2>2. QED
    BY <1>1, <2>1
<1>6. QED
  BY <1>2, <1>3, <1>4, <1>5

\* The launch job of a build still queued notes the replies that have no text yet.
LEMMA TakeLaunchRow ==
  ASSUME run \in [Runs -> RunRow], TakeLaunch, Head(queue).run \in Runs, blank \subseteq Turns
  PROVE  LET r == Head(queue).run IN
         \/ run' = run /\ worker' = worker
         \/ /\ run[r].status = "queued" /\ OthersKept(r)
            /\ worker' = [Idle EXCEPT !.pc = "launch", !.job = Head(queue), !.left = Eligible(r)]
            /\ run'[r].late = blank \cap 1 .. run[r].cutoff
            /\ run'[r].status = run[r].status /\ run'[r].req = run[r].req
            /\ run'[r].cutoff = run[r].cutoff /\ run'[r].total = run[r].total
            /\ run'[r].done = run[r].done /\ run'[r].started = run[r].started
            /\ run'[r].base = run[r].base /\ run'[r].intact = run[r].intact
<1> DEFINE r == Head(queue).run
           l == blank \cap 1 .. run[r].cutoff
<1>1. CASE run[r].status # "queued"
  BY <1>1 DEF TakeLaunch
<1>2. CASE run[r].status = "queued"
  <2>1. /\ run' = [run EXCEPT ![r].late = l]
        /\ worker' = [Idle EXCEPT !.pc = "launch", !.job = Head(queue), !.left = Eligible(r)]
    BY <1>2 DEF TakeLaunch
  <2>2. r \in Runs /\ l \subseteq Turns
    OBVIOUS
  <2> HIDE DEF l, r
  <2>3. run' \in [Runs -> RunRow]
    BY <2>1, <2>2 DEF RunRow
  <2>4. run'[r] = [run[r] EXCEPT !.late = l] /\ \A q \in Runs : q # r => run'[q] = run[q]
    BY <2>1, <2>2
  <2>5. run[r] \in RunRow
    BY <2>2
  <2>6. /\ run'[r].late = l
        /\ run'[r].status = run[r].status /\ run'[r].req = run[r].req
        /\ run'[r].cutoff = run[r].cutoff /\ run'[r].total = run[r].total
        /\ run'[r].done = run[r].done /\ run'[r].started = run[r].started
        /\ run'[r].base = run[r].base /\ run'[r].intact = run[r].intact
    BY <2>4, <2>5 DEF RunRow
  <2>7. QED
    BY <1>2, <2>1, <2>3, <2>4, <2>6 DEF OthersKept, r, l
<1>3. QED
  BY <1>1, <1>2

\* A reply that begins or ends touches no build and no memory, and queues at most the
\* job of a reply that exists.
LEMMA RepliesEffect ==
  ASSUME MemoryAssumption, Base, Replies
  PROVE  /\ UNCHANGED <<marked, ledger, fact, run, worker, op, released, missed>>
         /\ newest \in Nat /\ newest' \in 0 .. MaxTurn /\ newest <= newest'
         /\ blank' \subseteq 1 .. newest' /\ events' \in 0 .. MaxEvents
         /\ queue' = queue
            \/ \E t \in Turns : t <= newest /\ queue' = Append(queue, LiveJob(t))
<1>1. /\ newest \in 0 .. MaxTurn /\ blank \subseteq 1 .. newest /\ events \in 0 .. MaxEvents
      /\ MaxTurn \in Nat /\ MaxEvents \in Nat
  BY DEF Base, TypeOK, MemoryAssumption
<1>2. CASE NewTurn
  BY <1>1, <1>2 DEF NewTurn
<1>3. ASSUME NEW t \in Turns, FinishTurn(t)
      PROVE  /\ UNCHANGED <<marked, ledger, fact, run, worker, op, released, missed>>
             /\ newest' \in 0 .. MaxTurn /\ newest <= newest' /\ blank' \subseteq 1 .. newest'
             /\ events' \in 0 .. MaxEvents
             /\ \/ queue' = queue
                \/ \E u \in Turns : u <= newest /\ queue' = Append(queue, LiveJob(u))
  <2>1. t \in blank /\ t <= newest
    BY <1>1, <1>3 DEF FinishTurn
  <2>2. events' = events \/ (events < MaxEvents /\ events' = events + 1)
    BY <1>3 DEF FinishTurn, MayHappen
  <2>3. events' \in 0 .. MaxEvents
    BY <1>1, <2>2
  <2>4. newest' = newest /\ blank' = blank \ {t}
    BY <1>3 DEF FinishTurn
  <2>5. newest' \in 0 .. MaxTurn /\ newest <= newest' /\ blank' \subseteq 1 .. newest'
    <3>1. newest' \in 0 .. MaxTurn /\ newest <= newest'
      BY <1>1, <2>4
    <3>2. blank' \subseteq blank /\ 1 .. newest' = 1 .. newest
      BY <2>4
    <3>3. QED
      BY <1>1, <3>1, <3>2
  <2>6. QED
    BY <1>3, <2>1, <2>3, <2>5 DEF FinishTurn
<1>4. newest \in Nat
  BY <1>1
<1>5. QED
  BY <1>2, <1>3, <1>4 DEF Replies

-----------------------------------------------------------------------------
(* Every step keeps the first layer *)

\* The oldest of some turns is one of them, and none comes before it.
LEMMA OldestFirst ==
  ASSUME NEW n \in Nat, NEW S \in SUBSET (1 .. n), S # {}
  PROVE  Oldest(S) \in S /\ \A t \in S : Oldest(S) <= t
<1> DEFINE N == 1 .. n
           R == StrictSubsetOrdering(N)
           T == {1 .. t : t \in S}
<1>1. IsWellFoundedOn(R, FiniteSubsetsOf(N))
  BY FS_StrictSubsetOrderingWellFounded
<1>2. T \subseteq FiniteSubsetsOf(N) /\ T # {}
  <2>1. ASSUME NEW t \in S
        PROVE  1 .. t \in SUBSET N /\ IsFiniteSet(1 .. t)
    BY FS_Interval
  <2>2. QED
    BY <2>1 DEF FiniteSubsetsOf
<1> HIDE DEF T, R
<1>3. PICK x \in T : \A y \in T : ~(<<y, x>> \in R)
  BY <1>1, <1>2, WFMin
<1>4. PICK t \in S : x = 1 .. t
  BY DEF T
<1>5. ASSUME NEW u \in S
      PROVE  t <= u
  <2> SUFFICES ASSUME u < t
               PROVE  FALSE
    OBVIOUS
  <2>1. 1 .. u \subseteq 1 .. t /\ 1 .. u # 1 .. t
    <3>1. t \in 1 .. t /\ t \notin 1 .. u
      OBVIOUS
    <3>2. 1 .. u \subseteq 1 .. t
      OBVIOUS
    <3>3. QED
      BY <3>1, <3>2
  <2>2. 1 .. u \in SUBSET N /\ 1 .. t \in SUBSET N
    OBVIOUS
  <2>3. <<1 .. u, 1 .. t>> \in R
    BY <2>1, <2>2 DEF R, StrictSubsetOrdering
  <2>4. 1 .. u \in T
    BY DEF T
  <2>5. QED
    BY <1>3, <1>4, <2>3, <2>4
<1>6. QED
  BY <1>5 DEF Oldest

\* The turns a build may write, and those the fan-out has in hand, can be counted.
LEMMA EligibleFinite ==
  ASSUME newest \in Nat, CutoffsKnown, run \in [Runs -> RunRow], NEW r \in Runs
  PROVE  /\ Eligible(r) \subseteq 1 .. newest
         /\ IsFiniteSet(Eligible(r)) /\ Cardinality(Eligible(r)) \in Nat
<1>1. Eligible(r) \subseteq 1 .. newest
  BY DEF Eligible, CutoffsKnown, RunRow
<1>2. IsFiniteSet(1 .. newest)
  BY FS_Interval
<1>3. QED
  BY <1>1, <1>2, FS_Subset, FS_CardinalityType

\* The turns in a worker's hand are finitely many.
LEMMA LeftFinite ==
  ASSUME newest \in Nat, WorkerKnown
  PROVE  IsFiniteSet(worker.left) /\ Cardinality(worker.left) \in Nat
<1>1. worker.left \subseteq 1 .. newest /\ IsFiniteSet(1 .. newest)
  BY FS_Interval DEF WorkerKnown
<1>2. QED
  BY <1>1, FS_Subset, FS_CardinalityType

\* Every step keeps the types and the kinds of jobs.
LEMMA BaseStep ==
  ASSUME MemoryAssumption, Base, [Next]_vars
  PROVE  Base'
<1> USE DEF Base
<1>0. /\ MaxTurn \in Nat /\ newest \in Nat /\ 1 .. newest \subseteq Turns
      /\ NoRun = 0 /\ 0 \notin Runs /\ blank \subseteq Turns
  BY DEF MemoryAssumption, TypeOK, Turns, NoRun, Runs
<1>1. CASE UNCHANGED vars
  BY <1>1 DEF vars, TypeOK, JobsKnown, CutoffsKnown, WorkerKnown
<1>2. CASE Replies
  <2>1. /\ UNCHANGED <<marked, ledger, fact, run, worker, op, released, missed>>
        /\ newest' \in 0 .. MaxTurn /\ newest <= newest'
        /\ blank' \subseteq 1 .. newest' /\ events' \in 0 .. MaxEvents
        /\ queue' = queue
           \/ \E t \in Turns : t <= newest /\ queue' = Append(queue, LiveJob(t))
    BY <1>2, RepliesEffect
  <2>2. 1 .. newest \subseteq 1 .. newest'
    BY <1>0, <2>1
  <2>3. queue' \in Seq(Jobs) /\ JobsKnown'
    <3>1. \A j \in Elems(queue) : j \in Jobs /\ j.turn \in Turns \cup {0}
      BY JobShape DEF TypeOK, Elems
    <3>2. CASE queue' = queue
      BY <1>0, <2>1, <3>1, <3>2 DEF JobsKnown, Turns, TypeOK
    <3>3. ASSUME NEW t \in Turns, t <= newest, queue' = Append(queue, LiveJob(t))
          PROVE  queue' \in Seq(Jobs) /\ JobsKnown'
      <4>1. LiveJob(t) \in Jobs /\ LiveJob(t).kind = "live" /\ LiveJob(t).turn = t
        BY NewLiveJob
      <4>2. queue' \in Seq(Jobs) /\ Elems(queue') = Elems(queue) \cup {LiveJob(t)}
        BY <3>3, <4>1, QueueEffect
      <4>3. LiveJob(t).turn <= newest'
        BY <1>0, <2>1, <3>3, <4>1 DEF Turns
      <4>4. \A j \in Elems(queue) : j.kind # "none" /\ j.turn <= newest'
        BY <1>0, <2>1, <3>1 DEF JobsKnown, Turns
      <4>5. QED
        BY <4>1, <4>2, <4>3, <4>4 DEF JobsKnown
    <3>4. QED
      BY <2>1, <3>2, <3>3
  <2>4. marked' \subseteq 1 .. newest'
    BY <2>1, <2>2 DEF TypeOK
  <2>5. TypeOK'
    BY <2>1, <2>3, <2>4 DEF TypeOK
  <2>6. CutoffsKnown'
    BY <1>0, <2>1 DEF CutoffsKnown, TypeOK, RunRow
  <2>7. WorkerKnown'
    <3>1. worker.job.turn \in Nat
      BY <1>0, JobShape DEF TypeOK, Worker, Turns
    <3>2. QED
      BY <1>0, <2>1, <2>2, <3>1 DEF WorkerKnown
  <2>8. QED
    BY <2>3, <2>5, <2>6, <2>7
<1>3. ASSUME NEW r \in Runs, Request(r)
      PROVE  Base'
  <2>1. /\ UNCHANGED <<newest, blank, marked, ledger, fact, worker, op, released, missed>>
        /\ events' \in 0 .. MaxEvents
    BY <1>3 DEF Request, AskBuild, CreateRun, CountTurns, EnqueueLaunch, StopRun, KillRequest,
                MayHappen, TypeOK, MemoryAssumption
  <2>2. queue' \in Seq(Jobs) /\ Elems(queue') \subseteq Elems(queue) \cup {LaunchJob(r)}
    <3>1. queue' = queue \/ queue' = Append(queue, LaunchJob(r))
      BY <1>3 DEF Request, AskBuild, CreateRun, CountTurns, EnqueueLaunch, StopRun, KillRequest
    <3>2. LaunchJob(r) \in Jobs
      BY <1>3 DEF Jobs
    <3>3. QED
      BY <3>1, <3>2, QueueEffect DEF TypeOK
  <2>3. run' \in [Runs -> RunRow]
        /\ \A q \in Runs : run'[q].cutoff \in {run[q].cutoff, newest, 0}
    <3>1. run \in [Runs -> RunRow]
      BY DEF TypeOK
    <3>2. Cardinality(Eligible(r)) \in Nat
      BY <1>0, <1>3, <3>1, EligibleFinite
    <3>3. OthersKept(r) /\ run'[r].cutoff \in {run[r].cutoff, newest, 0}
      BY <1>0, <1>3, <3>1, <3>2, AskBuildRow, CreateRunRow, CountTurnsRow, EnqueueLaunchRow,
         StopRunRow, KillRequestRow DEF Request
    <3>4. QED
      BY <3>3 DEF OthersKept
  <2>4. TypeOK'
    BY <2>1, <2>2, <2>3 DEF TypeOK
  <2>5. JobsKnown'
    BY <1>0, <1>3, <2>1, <2>2 DEF JobsKnown, LaunchJob
  <2>6. CutoffsKnown'
    BY <1>0, <2>1, <2>3 DEF CutoffsKnown
  <2>7. WorkerKnown'
    BY <2>1 DEF WorkerKnown
  <2>8. QED
    BY <2>4, <2>5, <2>6, <2>7
<1>4. CASE TakeLaunch
  <2>1. /\ queue # <<>> /\ Head(queue).kind = "launch" /\ queue' = Tail(queue)
        /\ UNCHANGED <<newest, blank, marked, ledger, fact, op, released, missed, events>>
    BY <1>4 DEF TakeLaunch
  <2>2. /\ Head(queue) \in Jobs /\ Head(queue).run \in Runs /\ Head(queue).turn = 0
        /\ queue' \in Seq(Jobs) /\ Elems(queue') \subseteq Elems(queue)
    BY <2>1, QueueEffect, JobShape
  <2>3. worker' \in Worker /\ WorkerKnown'
    <3>1. CASE worker' = worker
      BY <2>1, <3>1 DEF TypeOK, WorkerKnown
    <3>2. CASE worker' = [Idle EXCEPT !.pc = "launch", !.job = Head(queue),
                                      !.left = Eligible(Head(queue).run)]
      <4> DEFINE h == Head(queue)
                 e == Eligible(Head(queue).run)
      <4>1. e \subseteq 1 .. newest /\ e \subseteq Turns
        BY <1>0, <2>2 DEF Eligible, CutoffsKnown, TypeOK, RunRow
      <4>2. h \in Jobs /\ h.turn = 0 /\ h.kind = "launch"
        BY <2>1, <2>2
      <4> HIDE DEF h, e
      <4>3. worker' = [Idle EXCEPT !.pc = "launch", !.job = h, !.left = e]
        BY <3>2 DEF h, e
      <4>4. /\ worker' \in Worker /\ worker'.pc = "launch" /\ worker'.job = h
            /\ worker'.left = e
        BY <4>1, <4>2, <4>3, IdleShape DEF Idle, Worker, Decision
      <4>5. QED
        BY <1>0, <2>1, <4>1, <4>2, <4>4 DEF WorkerKnown
    <3>3. QED
      BY <1>4, <3>1, <3>2 DEF TakeLaunch
  <2>4. run' \in [Runs -> RunRow] /\ \A q \in Runs : run'[q].cutoff = run[q].cutoff
    <3>1. run \in [Runs -> RunRow]
      BY DEF TypeOK
    <3>2. QED
      BY <1>0, <1>4, <2>2, <3>1, TakeLaunchRow DEF OthersKept
  <2>5. QED
    BY <2>1, <2>2, <2>3, <2>4 DEF TypeOK, JobsKnown, CutoffsKnown
<1>5. CASE Launch
  <2>1. UNCHANGED <<newest, blank, marked, ledger, fact, queue, op, released, missed, events>>
    BY <1>5 DEF Launch
  <2>2. worker.pc = "launch" /\ worker.job.run \in Runs /\ worker \in Worker
    BY <1>5, JobShape DEF Launch, WorkerKnown, TypeOK, Worker
  <2>3. worker' \in Worker /\ WorkerKnown'
    <3>1. CASE worker' = Idle
      BY <1>0, <2>1, <3>1, IdleShape DEF WorkerKnown
    <3>2. CASE worker' = [worker EXCEPT !.pc = "fan"]
      <4>1. worker' \in Worker /\ worker'.pc = "fan" /\ worker'.job = worker.job
            /\ worker'.left = worker.left
        BY <2>2, <3>2 DEF Worker
      <4>2. QED
        BY <2>1, <2>2, <4>1 DEF WorkerKnown
    <3>3. QED
      BY <1>5, <3>1, <3>2 DEF Launch
  <2>4. run' \in [Runs -> RunRow] /\ \A q \in Runs : run'[q].cutoff = run[q].cutoff
    <3>1. run \in [Runs -> RunRow] /\ Len(ledger) \in Nat
      BY DEF TypeOK
    <3>2. Cardinality(worker.left) \in Nat
      BY <1>0, LeftFinite
    <3>3. run' = run \/ Launched(worker.job.run)
      BY <1>5, <2>2, <3>1, <3>2, LaunchRow
    <3>4. QED
      BY <3>1, <3>3 DEF Launched, OthersKept
  <2>5. QED
    BY <2>1, <2>3, <2>4 DEF TypeOK, JobsKnown, CutoffsKnown
<1>6. CASE FanOut
  <2>1. /\ worker.pc = "fan"
        /\ UNCHANGED <<newest, blank, marked, ledger, fact, run, op, released, missed, events>>
    BY <1>6 DEF FanOut
  <2>2. worker.job.run \in Runs /\ worker \in Worker /\ worker.left \subseteq 1 .. newest
    BY <2>1, JobShape DEF WorkerKnown, TypeOK, Worker
  <2>3. CASE worker.left = {}
    <3>1. worker' = Idle /\ queue' = queue
      BY <1>6, <2>3 DEF FanOut
    <3>2. WorkerKnown'
      BY <1>0, <2>1, <3>1, IdleShape DEF WorkerKnown
    <3>3. QED
      BY <2>1, <3>1, <3>2, IdleShape DEF TypeOK, JobsKnown, CutoffsKnown
  <2>4. CASE worker.left # {}
    <3> DEFINE t == Oldest(worker.left)
    <3>1. t \in worker.left
      BY <1>0, <2>2, <2>4, OldestFirst
    <3>2. /\ queue' = Append(queue, TurnJob(worker.job.run, t))
          /\ worker' = [worker EXCEPT !.left = @ \ {t}]
      BY <1>6, <2>4 DEF FanOut
    <3> HIDE DEF t
    <3>3. t \in Turns /\ t <= newest
      BY <1>0, <2>2, <3>1
    <3>4. /\ TurnJob(worker.job.run, t) \in Jobs
          /\ TurnJob(worker.job.run, t).kind = "turn" /\ TurnJob(worker.job.run, t).turn = t
      BY <2>2, <3>3, NewJobs
    <3>5. /\ queue' \in Seq(Jobs)
          /\ Elems(queue') = Elems(queue) \cup {TurnJob(worker.job.run, t)}
      BY <3>2, <3>4, QueueEffect
    <3>6. /\ worker' \in Worker /\ worker'.pc = "fan" /\ worker'.job = worker.job
          /\ worker'.left = worker.left \ {t}
      BY <2>1, <2>2, <3>2 DEF Worker
    <3>7. JobsKnown'
      BY <2>1, <3>3, <3>4, <3>5 DEF JobsKnown
    <3>8. WorkerKnown'
      BY <2>1, <3>6 DEF WorkerKnown
    <3>9. QED
      BY <2>1, <3>5, <3>6, <3>7, <3>8 DEF TypeOK, CutoffsKnown
  <2>5. QED
    BY <2>3, <2>4
<1>7. CASE TakeTurn \/ TakeLive
  <2>1. /\ queue # <<>> /\ Head(queue).kind \in {"turn", "live"}
        /\ queue' = Tail(queue) \/ queue' = Append(Tail(queue), Head(queue))
        /\ UNCHANGED <<newest, blank, ledger, fact, run, op, released, missed, events>>
        /\ UNCHANGED <<worker, marked>> \/ WriteTurn(Head(queue))
    BY <1>7 DEF TakeTurn, TakeLive
  <2>2. /\ Head(queue) \in Jobs /\ Head(queue).turn <= newest
        /\ queue' \in Seq(Jobs) /\ Elems(queue') \subseteq Elems(queue)
    BY <2>1, QueueEffect DEF JobsKnown
  <2>3. worker' \in Worker /\ WorkerKnown' /\ marked' \subseteq 1 .. newest
    <3>1. CASE UNCHANGED <<worker, marked>>
      BY <2>1, <3>1 DEF TypeOK, WorkerKnown
    <3>2. CASE WriteTurn(Head(queue))
      <4> DEFINE h == Head(queue)
      <4>1. h \in Jobs /\ h.turn <= newest /\ h.kind \in {"turn", "live"} /\ WriteTurn(h)
        BY <2>1, <2>2, <3>2
      <4> HIDE DEF h
      <4>2. QED
        BY <1>0, <2>1, <4>1, WriteTurnEffect, IdleShape DEF WorkerKnown
    <3>3. QED
      BY <2>1, <3>1, <3>2
  <2>4. QED
    BY <2>1, <2>2, <2>3 DEF TypeOK, JobsKnown, CutoffsKnown
<1>8. CASE Seek
  <2>1. /\ worker.pc = "seek" /\ worker \in Worker /\ worker.job.kind \in {"turn", "live"}
        /\ worker.job.turn \in Turns
        /\ UNCHANGED <<newest, blank, marked, ledger, fact, run, queue, op, released, missed, events>>
    BY <1>8, JobShape DEF Seek, TypeOK, WorkerKnown, Worker
  <2>2. PICK w \in Says[worker.job.turn], keyed \in Keyed[worker.job.turn] :
          worker' = [worker EXCEPT !.pc = IF w = "skip" THEN "mark" ELSE "persist",
                                   !.what = w, !.keyed = keyed,
                                   !.seen = IF keyed THEN @ \cup ActiveFacts ELSE @]
    BY <1>8 DEF Seek
  <2>3. w \in Decision /\ keyed \in BOOLEAN /\ ActiveFacts \subseteq Turns
    BY <2>1, <2>2 DEF MemoryAssumption, ActiveFacts
  <2>4. /\ worker' \in Worker /\ worker'.pc \in {"mark", "persist"}
        /\ worker'.job = worker.job /\ worker'.left = worker.left
    BY <2>1, <2>2, <2>3 DEF Worker
  <2>5. WorkerKnown'
    BY <2>1, <2>4 DEF WorkerKnown
  <2>6. QED
    BY <2>1, <2>4, <2>5 DEF TypeOK, JobsKnown, CutoffsKnown
<1>9. CASE Persist
  <2>1. /\ worker.pc = "persist" /\ worker \in Worker /\ worker.job.kind \in {"turn", "live"}
        /\ worker.job.turn \in Turns /\ worker.job.run \in Runs \cup {NoRun}
        /\ UNCHANGED <<newest, blank, marked, queue, op, released, events>>
    BY <1>9, JobShape DEF Persist, TypeOK, WorkerKnown, Worker
  <2>2. CASE run' = Fail(worker.job.run) /\ worker' = Idle /\ UNCHANGED <<fact, ledger, missed>>
    <3>1. WorkerKnown'
      BY <1>0, <2>1, <2>2, IdleShape DEF WorkerKnown
    <3>2. run' \in [Runs -> RunRow] /\ \A q \in Runs : run'[q].cutoff = run[q].cutoff
      BY <2>1, <2>2, FailEffect DEF TypeOK
    <3>3. QED
      BY <2>1, <2>2, <3>1, <3>2, IdleShape DEF TypeOK, JobsKnown, CutoffsKnown
  <2>3. CASE ~(run' = Fail(worker.job.run) /\ worker' = Idle
                /\ UNCHANGED <<fact, ledger, missed>>)
    <3>1. PICK old \in Collisions(worker.what, worker.seen) :
             /\ fact' = [u \in Turns |->
                           IF worker.what \in {"active", "held"} /\ u = worker.job.turn
                           THEN worker.what
                           ELSE IF u \in old /\ fact[u] # "forgotten" THEN "superseded"
                           ELSE fact[u]]
             /\ ledger' = Append(ledger, [turn |-> worker.job.turn, run |-> worker.job.run])
             /\ worker' = [Idle EXCEPT !.pc = "mark", !.job = worker.job]
             /\ missed' \in BOOLEAN
             /\ UNCHANGED run
      BY <1>9, <2>3 DEF Persist
    <3>2. fact' \in [Turns -> FactState]
      BY <3>1 DEF TypeOK, FactState
    <3>3. ledger' \in Seq(Entry)
      BY <2>1, <3>1 DEF TypeOK, Entry
    <3>4. /\ worker' \in Worker /\ worker'.pc = "mark" /\ worker'.job = worker.job
          /\ worker'.left = {}
      BY <2>1, <3>1, IdleShape DEF Worker, Idle
    <3>5. WorkerKnown'
      BY <2>1, <3>4 DEF WorkerKnown
    <3>6. QED
      BY <2>1, <3>1, <3>2, <3>3, <3>4, <3>5 DEF TypeOK, JobsKnown, CutoffsKnown
  <2>4. QED
    BY <2>2, <2>3
<1>10. CASE Mark
  <2>1. /\ worker.pc = "mark" /\ worker.job \in Jobs /\ worker.job.kind \in {"turn", "live"}
        /\ worker.job.turn \in 1 .. newest
        /\ marked' = marked \cup {worker.job.turn} /\ worker' = After(worker.job)
        /\ UNCHANGED <<newest, blank, ledger, fact, run, queue, op, released, missed, events>>
    BY <1>10, JobShape DEF Mark, TypeOK, WorkerKnown, Worker, Turns
  <2>2. worker' \in Worker /\ WorkerKnown'
    BY <1>0, <2>1, AfterShape, IdleShape DEF WorkerKnown
  <2>3. QED
    BY <2>1, <2>2 DEF TypeOK, JobsKnown, CutoffsKnown
<1>11. CASE Count
  <2>1. /\ worker.pc = "count" /\ worker.job.run \in Runs /\ worker' = Idle
        /\ UNCHANGED <<newest, blank, marked, ledger, fact, queue, op, released, missed, events>>
    BY <1>11, JobShape DEF Count, TypeOK, WorkerKnown, Worker
  <2>2. run' \in [Runs -> RunRow] /\ \A q \in Runs : run'[q].cutoff = run[q].cutoff
    <3>1. run \in [Runs -> RunRow]
      BY DEF TypeOK
    <3>2. QED
      BY <1>11, <2>1, <3>1, CountRow DEF OthersKept
  <2>3. WorkerKnown'
    BY <1>0, <2>1, IdleShape DEF WorkerKnown
  <2>4. QED
    BY <2>1, <2>2, <2>3, IdleShape DEF TypeOK, JobsKnown, CutoffsKnown
<1>12. CASE Raise \/ Kill
  <2>1. /\ worker' = Idle /\ events' \in 0 .. MaxEvents /\ worker.job.run \in Runs \cup {NoRun}
        /\ UNCHANGED <<newest, blank, marked, ledger, fact, queue, op, released, missed>>
    BY <1>12, JobShape DEF Raise, Kill, MayHappen, TypeOK, MemoryAssumption, Worker
  <2>2. run' \in [Runs -> RunRow] /\ \A q \in Runs : run'[q].cutoff = run[q].cutoff
    <3>1. CASE Raise
      BY <2>1, <3>1, FailEffect DEF Raise, TypeOK
    <3>2. CASE Kill
      BY <3>2, KillRow DEF TypeOK
    <3>3. QED
      BY <1>12, <3>1, <3>2
  <2>3. WorkerKnown'
    BY <1>0, <2>1, IdleShape DEF WorkerKnown
  <2>4. QED
    BY <2>1, <2>2, <2>3, IdleShape DEF TypeOK, JobsKnown, CutoffsKnown
<1>13. CASE Store
  <2> USE DEF Store, Forget, AskHold, SetHold, AskClear, ClearStore
  <2>1. /\ UNCHANGED <<newest, blank, queue, worker, missed>>
        /\ marked' = marked \/ marked' = {}
        /\ ledger' = ledger \/ ledger' = <<>>
    BY <1>13
  <2>2. events' \in 0 .. MaxEvents
    <3>1. events' = events \/ (events' = events + 1 /\ events < MaxEvents)
      BY <1>13 DEF MayHappen
    <3>2. events \in 0 .. MaxEvents
      BY DEF TypeOK
    <3>3. QED
      BY <3>1, <3>2 DEF MemoryAssumption
  <2>3. released' \in BOOLEAN
    <3>1. released' = released \/ released' = (released \/ op.kind = "release")
      BY <1>13
    <3>2. QED
      BY <3>1 DEF TypeOK
  <2>4. run' \in [Runs -> RunRow] /\ \A q \in Runs : run'[q].cutoff = run[q].cutoff
    <3>1. run \in [Runs -> RunRow]
      BY DEF TypeOK
    <3>2. run' = run \/ ClearStore
      BY <1>13
    <3>3. QED
      BY <3>1, <3>2, ClearRow
  <2>5. fact' \in [Turns -> FactState]
    <3>1. fact \in [Turns -> FactState]
      BY DEF TypeOK
    <3>2. CASE \E t \in Turns : Forget(t)
      BY <3>1, <3>2 DEF FactState
    <3>3. CASE SetHold
      BY <3>1, <3>3 DEF FactState
    <3>4. CASE ClearStore
      BY <3>4 DEF FactState
    <3>5. CASE fact' = fact
      BY <3>1, <3>5
    <3>6. QED
      BY <1>13, <3>2, <3>3, <3>4, <3>5
  <2>6. op' \in Op
    <3>1. op \in Op /\ NoOp \in Op
      BY DEF TypeOK, Op, NoOp
    <3>2. op' \in {op, NoOp, [kind |-> "clear", turn |-> 0]}
          \/ \E t \in Turns : op' = [kind |-> "hold", turn |-> t] \/ op' = [kind |-> "release", turn |-> t]
      BY <1>13
    <3>3. QED
      BY <3>1, <3>2 DEF Op
  <2>7. marked' \subseteq 1 .. newest /\ ledger' \in Seq(Entry)
    <3>1. marked \subseteq 1 .. newest /\ ledger \in Seq(Entry) /\ <<>> \in Seq(Entry)
      BY DEF TypeOK
    <3>2. QED
      BY <2>1, <3>1
  <2>8. QED
    BY <2>1, <2>2, <2>3, <2>4, <2>5, <2>6, <2>7 DEF TypeOK, JobsKnown, CutoffsKnown, WorkerKnown
<1>14. QED
  BY <1>1, <1>2, <1>3, <1>4, <1>5, <1>6, <1>7, <1>8, <1>9, <1>10, <1>11, <1>12, <1>13
  DEF Next, Work

-----------------------------------------------------------------------------
(* Types hold *)

\* The first layer holds in every state.
LEMMA BaseInvariant == Spec => []Base
<1>1. Init => Base
  BY BaseAtStart, MemoryAssumption
<1>2. Base /\ [Next]_vars => Base'
  BY BaseStep, MemoryAssumption
<1>3. QED
  BY <1>1, <1>2, PTL DEF Spec

\* The variables keep their types: in particular every job in the queue and in the
\* worker's hand is one the code can make, of a reply that exists.
THEOREM TypeCorrect == Spec => []TypeOK
<1>1. Base => TypeOK
  BY DEF Base
<1>2. QED
  BY <1>1, BaseInvariant, PTL

-----------------------------------------------------------------------------
(* The second layer: the order of jobs, and one build at a time *)

Running(r) == run[r].status = "running"

\* A job of the build in hand comes after what the worker holds: nothing before the
\* launch is done, the turns fanned out before those still to fan out, the later turns.
Follows(j) ==
  /\ worker.pc # "launch" /\ j.kind = "turn"
  /\ IF worker.pc = "fan" THEN \A t \in worker.left : j.turn < t
     ELSE worker.job.turn < j.turn

\* A build whose request is still at work, or that was never made.
Awaited(r) == run[r].req # "idle" \/ run[r].status = "none"

Unlaunched(r) ==
  Awaited(r) \/ LaunchJob(r) \in Elems(queue) \/ (worker.pc = "launch" /\ worker.job.run = r)

QueueSorted == Sorted(queue)
BehindWorker == \A j \in Elems(queue) : j.run = worker.job.run /\ j.run # NoRun => Follows(j)

\* No job of an awaited build exists, and a build not launched has not begun.
Orderly(r) ==
  /\ Awaited(r) => worker.job.run # r /\ \A j \in Elems(queue) : j.run # r
  /\ run[r].req = "create" => run[r].status = "none"
  /\ run[r].req \in {"count", "enqueue"} => run[r].status # "none"
  /\ Unlaunched(r) => run[r].started = FALSE /\ run[r].done = 0 /\ ~Running(r)
  /\ worker.pc # "idle" /\ Running(r) => r = worker.job.run
OneActive == \A q, r \in Runs : Active(q) /\ Active(r) => q = r

Ordered == QueueSorted /\ BehindWorker /\ OneActive /\ \A r \in Runs : Orderly(r)

\* At the start nothing is queued and no build was asked.
LEMMA OrderedAtStart ==
  ASSUME MemoryAssumption, Init
  PROVE  Ordered
<1>1. \A r \in Runs : run[r].req = "idle" /\ run[r].status = "none" /\ run[r].done = 0
                      /\ run[r].started = FALSE
  BY DEF Init, Unrequested
<1>2. Elems(queue) = {} /\ DOMAIN queue = {} /\ worker = Idle
  BY DEF Init, Elems
<1>3. \A r \in Runs : r # NoRun
  BY DEF Runs, NoRun
<1>4. QueueSorted /\ BehindWorker
  BY <1>2 DEF QueueSorted, Sorted, BehindWorker
<1>5. OneActive
  BY <1>1 DEF OneActive, Active
<1>6. \A r \in Runs : Orderly(r)
  BY <1>1, <1>2, <1>3, IdleShape DEF Orderly, Running
<1>7. QED
  BY <1>4, <1>5, <1>6 DEF Ordered

\* A request leaves the order of jobs: it queues a launch only for a build no job
\* speaks of.
LEMMA OrderedRequest ==
  ASSUME MemoryAssumption, Base, Ordered, NEW r \in Runs, Request(r)
  PROVE  Ordered'
<1>1. /\ worker' = worker /\ newest \in Nat /\ run \in [Runs -> RunRow]
      /\ worker.job \in Jobs /\ queue \in Seq(Jobs) /\ blank \subseteq Turns
  <2>1. worker' = worker
    BY DEF Request, AskBuild, CreateRun, CountTurns, EnqueueLaunch, StopRun, KillRequest
  <2>2. newest \in 0 .. MaxTurn /\ blank \subseteq 1 .. newest /\ MaxTurn \in Nat
    BY DEF Base, TypeOK, MemoryAssumption
  <2>3. newest \in Nat /\ blank \subseteq Turns
    BY <2>2 DEF Turns
  <2>4. QED
    BY <2>1, <2>3 DEF Base, TypeOK, Worker
<1>2. Cardinality(Eligible(r)) \in Nat
  BY <1>1, EligibleFinite DEF Base
<1>3. OthersKept(r)
  BY <1>1, <1>2, AskBuildRow, CreateRunRow, CountTurnsRow, EnqueueLaunchRow, StopRunRow,
     KillRequestRow DEF Request
<1>4. queue' = queue \/ (EnqueueLaunch(r) /\ queue' = Append(queue, LaunchJob(r)))
  BY DEF Request, AskBuild, CreateRun, CountTurns, EnqueueLaunch, StopRun, KillRequest
<1>5. LaunchJob(r) \in Jobs /\ LaunchJob(r).run = r /\ LaunchJob(r).kind = "launch"
  BY DEF Jobs, LaunchJob
<1>6. EnqueueLaunch(r) => worker.job.run # r /\ \A j \in Elems(queue) : j.run # r
  BY <1>1, EnqueueLaunchRow DEF Ordered, Orderly, Awaited
<1>7. Elems(queue') = Elems(queue)
      \/ (EnqueueLaunch(r) /\ Elems(queue') = Elems(queue) \cup {LaunchJob(r)})
  <2>1. Elems(Append(queue, LaunchJob(r))) = Elems(queue) \cup {LaunchJob(r)}
    BY <1>1, <1>5, ElemsAppend
  <2>2. QED
    BY <1>4, <2>1
<1>8. QueueSorted'
  <2>1. CASE queue' = queue
    BY <2>1 DEF QueueSorted, Ordered
  <2>2. CASE EnqueueLaunch(r) /\ queue' = Append(queue, LaunchJob(r))
    <3>1. \A x \in Elems(queue) : Before(x, LaunchJob(r))
      BY <1>5, <1>6, <2>2 DEF Before
    <3>2. QED
      BY <1>1, <1>5, <2>2, <3>1, SortedAppend DEF QueueSorted, Ordered
  <2>3. QED
    BY <1>4, <2>1, <2>2
<1>9. BehindWorker'
  BY <1>1, <1>5, <1>6, <1>7 DEF BehindWorker, Ordered, Follows
<1>10. \A q \in Runs : Active(q)' => Active(q) \/ (q = r /\ ~Building)
  <2>1. Active(r)' => Active(r) \/ ~Building
    BY <1>1, <1>2, AskBuildRow, CreateRunRow, CountTurnsRow, EnqueueLaunchRow, StopRunRow,
       KillRequestRow DEF Request, Active
  <2>2. QED
    BY <1>3, <2>1 DEF OthersKept, Active
<1>11. OneActive'
  BY <1>10 DEF OneActive, Ordered, Building
<1>12. ASSUME NEW q \in Runs, q # r
       PROVE  Orderly(q)'
  <2>1. run'[q] = run[q] /\ Orderly(q)
    BY <1>3, <1>12 DEF OthersKept, Ordered
  <2>2. LaunchJob(q) # LaunchJob(r)
    BY <1>12 DEF LaunchJob
  <2>3. Unlaunched(q)' = Unlaunched(q) /\ Awaited(q)' = Awaited(q) /\ Running(q)' = Running(q)
    BY <1>1, <1>7, <2>1, <2>2 DEF Unlaunched, Awaited, Running
  <2>4. \A j \in Elems(queue') : j \in Elems(queue) \/ j.run # q
    BY <1>5, <1>7, <1>12
  <2>5. QED
    BY <1>1, <2>1, <2>3, <2>4 DEF Orderly
<1>13. Orderly(r)'
  <2>0. Orderly(r) /\ \A j \in Elems(queue') : j \in Elems(queue) \/ EnqueueLaunch(r)
    BY <1>7 DEF Ordered
  <2>1. CASE AskBuild(r)
    <3>1. Awaited(r) /\ queue' = queue
      BY <1>1, <2>1, AskBuildRow DEF Awaited, Unrequested, AskBuild
    <3>2. QED
      BY <1>1, <2>0, <2>1, <3>1, AskBuildRow DEF Orderly, Running
  <2>2. CASE CreateRun(r)
    <3>1. Awaited(r) /\ Unlaunched(r) /\ queue' = queue
      BY <1>1, <2>2, CreateRunRow DEF Awaited, Unlaunched, CreateRun
    <3>2. QED
      BY <1>1, <2>0, <2>2, <3>1, CreateRunRow DEF Orderly, Running
  <2>3. CASE CountTurns(r)
    <3>1. Awaited(r) /\ Unlaunched(r) /\ queue' = queue
      BY <1>1, <1>2, <2>3, CountTurnsRow DEF Awaited, Unlaunched, CountTurns
    <3>2. LaunchJob(r) \notin Elems(queue) /\ worker.job.run # r
      BY <2>0, <3>1, <1>5 DEF Orderly
    <3>3. QED
      BY <1>1, <1>2, <2>0, <2>3, <3>1, <3>2, CountTurnsRow DEF Orderly, Running, Unlaunched, Awaited
  <2>4. CASE EnqueueLaunch(r)
    <3>1. Awaited(r) /\ Unlaunched(r)
      BY <1>1, <2>4, EnqueueLaunchRow DEF Awaited, Unlaunched
    <3>2. run'[r].req = "idle" /\ run'[r].started = FALSE /\ run'[r].done = 0 /\ ~Running(r)'
      <4>1. run[r].started = FALSE /\ run[r].done = 0 /\ run[r].status # "running"
        BY <2>0, <3>1 DEF Orderly, Running
      <4>2. /\ run'[r].req = "idle" /\ run'[r].started = run[r].started
            /\ run'[r].done = run[r].done /\ run'[r].status \in {run[r].status, "failed"}
        BY <1>1, <2>4, EnqueueLaunchRow
      <4>3. QED
        BY <4>1, <4>2 DEF Running
    <3>3. run[r].status # "none"
      BY <1>1, <2>0, <2>4, EnqueueLaunchRow DEF Orderly
    <3>4. Awaited(r)' = FALSE /\ Running(r)' = FALSE
      BY <1>1, <2>4, <3>2, <3>3, EnqueueLaunchRow DEF Awaited, Running
    <3>5. QED
      BY <3>2, <3>4 DEF Orderly
  <2>5. CASE StopRun(r)
    <3>1. queue' = queue /\ Running(r)' = FALSE /\ (Awaited(r)' => Awaited(r))
          /\ (Unlaunched(r)' => Unlaunched(r)) /\ run'[r].started = run[r].started
          /\ run'[r].done = run[r].done /\ run[r].req = run'[r].req /\ Active(r)
          /\ run'[r].status = "stopped"
      BY <1>1, <2>5, StopRunRow DEF Awaited, Unlaunched, StopRun, Running
    <3>2. QED
      BY <1>1, <2>0, <3>1 DEF Orderly, Active
  <2>6. CASE KillRequest(r)
    <3>1. queue' = queue /\ Running(r)' = Running(r) /\ (Awaited(r)' => Awaited(r))
          /\ (Unlaunched(r)' => Unlaunched(r)) /\ run'[r].started = run[r].started
          /\ run'[r].done = run[r].done /\ run'[r].req = "idle"
      BY <1>1, <2>6, KillRequestRow DEF Awaited, Unlaunched, KillRequest, Running
    <3>2. QED
      BY <1>1, <2>0, <3>1 DEF Orderly
  <2>7. QED
    BY <2>1, <2>2, <2>3, <2>4, <2>5, <2>6 DEF Request
<1>14. QED
  BY <1>8, <1>9, <1>11, <1>12, <1>13 DEF Ordered

\* A step that takes no request further: the builds' rows keep their requests, no build
\* comes to be active, and a build keeps what says that it was not launched.
Onward(r) ==
  /\ run'[r].req = run[r].req
  /\ run'[r].status = "none" <=> run[r].status = "none"
  /\ Active(r)' => Active(r)
  /\ Running(r)' => Running(r)
  /\ Unlaunched(r)' =>
       Unlaunched(r) /\ run'[r].started = run[r].started /\ run'[r].done = run[r].done

\* Such a step keeps the order when the queue stays in order, what is in hand comes
\* first, and no job appears that was not there, but in the place of one in hand.
LEMMA OrderedOnward ==
  ASSUME MemoryAssumption, Base, Ordered, QueueSorted', BehindWorker',
         \A r \in Runs : Onward(r),
         \A j \in Elems(queue') :
            \/ j.run = NoRun \/ j.run = worker.job.run
            \/ \E i \in Elems(queue) : i.run = j.run,
         \/ worker'.job.run \in {NoRun, worker.job.run}
         \/ \E i \in Elems(queue) : i.run = worker'.job.run,
         \/ worker'.pc = "idle"
         \/ worker'.job.run = worker.job.run /\ worker.pc # "idle"
         \/ \A r \in Runs : Running(r) => r = worker'.job.run
  PROVE  Ordered'
<1>0. \A r \in Runs : r # NoRun
  BY DEF Runs, NoRun
<1>1. OneActive'
  BY DEF OneActive, Onward, Ordered
<1>2. ASSUME NEW r \in Runs
      PROVE  Orderly(r)'
  <2>1. Orderly(r) /\ Onward(r)
    BY DEF Ordered
  <2>2. Awaited(r)' = Awaited(r)
    BY <2>1 DEF Onward, Awaited
  <2>3. Awaited(r)' => worker'.job.run # r /\ \A j \in Elems(queue') : j.run # r
    BY <1>0, <2>1, <2>2 DEF Orderly
  <2>4. run'[r].req = "create" => run'[r].status = "none"
    BY <2>1 DEF Onward, Orderly
  <2>5. run'[r].req \in {"count", "enqueue"} => run'[r].status # "none"
    BY <2>1 DEF Onward, Orderly
  <2>6. Unlaunched(r)' => run'[r].started = FALSE /\ run'[r].done = 0 /\ ~(Running(r)')
    BY <2>1 DEF Onward, Orderly
  <2>7. worker'.pc # "idle" /\ Running(r)' => r = worker'.job.run
    BY <2>1 DEF Onward, Orderly
  <2>8. QED
    BY <2>3, <2>4, <2>5, <2>6, <2>7 DEF Orderly
<1>3. QED
  BY <1>1, <1>2 DEF Ordered

\* With the rows untouched, a build can only become unlaunched by an item of the queue
\* or by the worker's hand, both of which say so already.
LEMMA RowsUntouched ==
  ASSUME NEW r \in Runs,
         run'[r].status = run[r].status, run'[r].req = run[r].req,
         run'[r].started = run[r].started, run'[r].done = run[r].done,
         LaunchJob(r) \in Elems(queue') => Unlaunched(r),
         worker'.pc = "launch" /\ worker'.job.run = r => Unlaunched(r)
  PROVE  Onward(r)
<1>1. Awaited(r)' = Awaited(r)
  BY DEF Awaited
<1>2. Unlaunched(r)' => Unlaunched(r)
  BY <1>1 DEF Unlaunched
<1>3. QED
  BY <1>2 DEF Onward, Active, Running

\* A worker that lets go of its job, with the builds where they are.
LEMMA OrderedRest ==
  ASSUME MemoryAssumption, Base, Ordered, UNCHANGED queue, worker' = Idle,
         \A q \in Runs : /\ run'[q].status = run[q].status /\ run'[q].req = run[q].req
                         /\ run'[q].started = run[q].started /\ run'[q].done = run[q].done
  PROVE  Ordered'
<1>1. QueueSorted' /\ BehindWorker'
  BY IdleShape DEF Ordered, QueueSorted, BehindWorker
<1>2. ASSUME NEW r \in Runs
      PROVE  Onward(r)
  <2>1. Awaited(r)' = Awaited(r)
    BY DEF Awaited
  <2>2. Unlaunched(r)' => Unlaunched(r)
    BY <2>1, IdleShape DEF Unlaunched
  <2>3. QED
    BY <2>2 DEF Onward, Active, Running
<1>3. QED
  BY <1>1, <1>2, OrderedOnward, IdleShape

\* A worker that fails the build of its job, if it is still active, and lets go.
LEMMA OrderedFail ==
  ASSUME MemoryAssumption, Base, Ordered, UNCHANGED queue, worker' = Idle,
         worker.job.run \in Runs \cup {NoRun}, run' = Fail(worker.job.run)
  PROVE  Ordered'
<1>1. QueueSorted' /\ BehindWorker'
  BY IdleShape DEF Ordered, QueueSorted, BehindWorker
<1>2. run \in [Runs -> RunRow]
  BY DEF Base, TypeOK
<1>3. ASSUME NEW r \in Runs
      PROVE  Onward(r)
  <2>1. /\ run'[r].status = run[r].status \/ (Active(r) /\ run'[r].status = "failed")
        /\ run'[r].req = run[r].req
        /\ run'[r].started = run[r].started /\ run'[r].done = run[r].done
    BY <1>2, FailEffect
  <2>2. Awaited(r)' = Awaited(r)
    BY <2>1 DEF Awaited, Active
  <2>3. Unlaunched(r)' => Unlaunched(r)
    BY <2>2, IdleShape DEF Unlaunched
  <2>4. QED
    BY <2>1, <2>3 DEF Onward, Active, Running
<1>4. QED
  BY <1>1, <1>3, OrderedOnward, IdleShape

\* Every step keeps the order of jobs.
LEMMA OrderedStep ==
  ASSUME MemoryAssumption, Base, Base', Ordered, [Next]_vars
  PROVE  Ordered'
<1>0. /\ queue \in Seq(Jobs) /\ worker.job \in Jobs /\ NoRun \notin Runs
      /\ run \in [Runs -> RunRow] /\ newest \in Nat
      /\ Sorted(queue) /\ QueueSorted /\ BehindWorker /\ blank \subseteq Turns
  <2>1. newest \in 0 .. MaxTurn /\ blank \subseteq 1 .. newest /\ MaxTurn \in Nat
    BY DEF Base, TypeOK, MemoryAssumption
  <2>2. newest \in Nat /\ blank \subseteq Turns
    BY <2>1 DEF Turns
  <2>3. QED
    BY <2>2 DEF Base, TypeOK, Worker, Runs, NoRun, Ordered, QueueSorted
<1>1. CASE UNCHANGED vars
  BY <1>1 DEF vars, Ordered, QueueSorted, BehindWorker, Follows, OneActive, Active, Orderly,
              Awaited, Unlaunched, Running
<1>2. CASE Replies
  <2>1. /\ UNCHANGED <<run, worker>>
        /\ queue' = queue \/ \E t \in Turns : queue' = Append(queue, LiveJob(t))
    BY <1>2, RepliesEffect
  <2>2. CASE queue' = queue
    BY <2>1, <2>2 DEF Ordered, QueueSorted, BehindWorker, Follows, OneActive, Active, Orderly,
                      Awaited, Unlaunched, Running
  <2>3. ASSUME NEW t \in Turns, queue' = Append(queue, LiveJob(t))
        PROVE  Ordered'
    <3> DEFINE j == LiveJob(t)
    <3>1. j \in Jobs /\ j.kind = "live" /\ j.run = NoRun
      BY NewLiveJob
    <3> HIDE DEF j
    <3>2. queue' = Append(queue, j)
      BY <2>3 DEF j
    <3>3. Elems(queue') = Elems(queue) \cup {j}
      BY <1>0, <3>1, <3>2, ElemsAppend
    <3>4. QueueSorted'
      <4>1. \A x \in Elems(queue) : Before(x, j)
        BY <3>1 DEF Before
      <4>2. QED
        BY <1>0, <3>1, <3>2, <4>1, SortedAppend DEF QueueSorted
    <3>5. BehindWorker'
      BY <1>0, <2>1, <3>1, <3>3 DEF BehindWorker, Follows
    <3>6. \A r \in Runs : Onward(r)
      <4>1. \A r \in Runs : LaunchJob(r) # j
        BY <3>1 DEF LaunchJob
      <4>2. QED
        BY <2>1, <3>3, <4>1, RowsUntouched DEF Unlaunched
    <3>7. QED
      BY <2>1, <3>1, <3>3, <3>4, <3>5, <3>6, OrderedOnward DEF Ordered, Orderly
  <2>4. QED
    BY <2>1, <2>2, <2>3
<1>3. CASE \E r \in Runs : Request(r)
  BY <1>3, OrderedRequest
<1>4. CASE TakeLaunch
  <2>1. /\ worker.pc = "idle" /\ worker.job = NoJob
        /\ queue # <<>> /\ Head(queue).kind = "launch" /\ queue' = Tail(queue)
    BY <1>4 DEF TakeLaunch, Base, WorkerKnown
  <2>2. /\ Head(queue) \in Jobs /\ Elems(queue) = Elems(queue') \cup {Head(queue)}
    BY <2>1, <1>0, ElemsTail
  <2>3. Head(queue).run \in Runs /\ Head(queue) = LaunchJob(Head(queue).run)
    BY <2>1, <2>2, JobShape
  <2>4. Sorted(queue') /\ \A x \in Elems(queue') : Before(Head(queue), x)
    BY <1>0, <2>1, SortedTail
  <2>5. /\ \/ worker' = worker
           \/ /\ worker'.pc = "launch" /\ worker'.job = Head(queue)
              /\ run[Head(queue).run].status = "queued"
        /\ \A q \in Runs : /\ run'[q].status = run[q].status /\ run'[q].req = run[q].req
                            /\ run'[q].started = run[q].started /\ run'[q].done = run[q].done
    <3>1. blank \subseteq Turns
      BY <1>0
    <3>2. CASE run' = run /\ worker' = worker
      BY <3>2
    <3>3. CASE ~(run' = run /\ worker' = worker)
      <4>1. /\ run[Head(queue).run].status = "queued" /\ OthersKept(Head(queue).run)
            /\ worker' = [Idle EXCEPT !.pc = "launch", !.job = Head(queue),
                                      !.left = Eligible(Head(queue).run)]
            /\ run'[Head(queue).run].status = run[Head(queue).run].status
            /\ run'[Head(queue).run].req = run[Head(queue).run].req
            /\ run'[Head(queue).run].started = run[Head(queue).run].started
            /\ run'[Head(queue).run].done = run[Head(queue).run].done
        BY <1>0, <1>4, <2>3, <3>1, <3>3, TakeLaunchRow
      <4>2. worker'.pc = "launch" /\ worker'.job = Head(queue)
        BY <4>1 DEF Idle
      <4>3. QED
        BY <4>1, <4>2 DEF OthersKept
    <3>4. QED
      BY <3>2, <3>3
  <2>6. BehindWorker'
    BY <2>1, <2>2, <2>3, <2>4, <2>5, IdleShape DEF BehindWorker, Before
  <2>7. \A r \in Runs : Onward(r)
    <3>1. \A r \in Runs : LaunchJob(r) \in Elems(queue) => Unlaunched(r)
      BY DEF Unlaunched
    <3>2. ASSUME NEW r \in Runs
          PROVE  LaunchJob(r) \in Elems(queue') => Unlaunched(r)
      BY <2>2, <3>1
    <3>3. ASSUME NEW r \in Runs, worker'.pc = "launch", worker'.job.run = r
          PROVE  Unlaunched(r)
      BY <2>1, <2>2, <2>3, <2>5, <3>1, <3>3, IdleShape
    <3>4. QED
      BY <2>5, <3>2, <3>3, RowsUntouched
  <2>8. worker' = worker \/ \A r \in Runs : Running(r) => r = worker'.job.run
    BY <2>3, <2>5 DEF Ordered, OneActive, Active, Running
  <2>9. worker'.job.run \in {NoRun, worker.job.run}
        \/ \E i \in Elems(queue) : i.run = worker'.job.run
    BY <2>1, <2>2, <2>5
  <2>10. QED
    BY <1>0, <2>1, <2>2, <2>4, <2>6, <2>7, <2>8, <2>9, OrderedOnward DEF QueueSorted
<1>5. CASE Launch
  <2>1. PICK r \in Runs : worker.pc = "launch" /\ queue' = queue /\ r = worker.job.run
    BY <1>0, <1>5, JobShape DEF Launch, Base, WorkerKnown
  <2>2. Len(ledger) \in Nat /\ Cardinality(worker.left) \in Nat
    BY <1>0, LeftFinite DEF Base, TypeOK
  <2>3. \A j \in Elems(queue) : j.run # r
    BY <1>0, <2>1 DEF BehindWorker, Follows
  <2>4. CASE worker' = Idle /\ run' = run
    <3>1. BehindWorker'
      BY <2>4, IdleShape DEF BehindWorker
    <3>2. \A q \in Runs : Onward(q)
      BY <2>1, <2>4, RowsUntouched, IdleShape DEF Unlaunched
    <3>3. QED
      BY <1>0, <2>1, <2>4, <3>1, <3>2, OrderedOnward, IdleShape DEF QueueSorted
  <2>5. CASE /\ worker' = [worker EXCEPT !.pc = "fan"]
             /\ worker.left # {} => ~\E q \in Runs \ {r} : Active(q)
             /\ Launched(r)
    <3>1. worker'.pc = "fan" /\ worker'.job = worker.job /\ worker'.job.run = r
      <4>1. worker \in Worker
        BY DEF Base, TypeOK
      <4>2. QED
        BY <2>1, <2>5, <4>1 DEF Worker
    <3>2. QueueSorted' /\ BehindWorker'
      BY <1>0, <2>1, <2>3, <3>1 DEF QueueSorted, BehindWorker
    <3>3. /\ \A q \in Runs : q # r => run'[q] = run[q] /\ ~Running(q)
          /\ run'[r].req = run[r].req /\ run'[r].status \in {"running", "completed"}
          /\ run'[r].status = "running" => \A q \in Runs : q # r => ~Active(q)
      BY <2>1, <2>5 DEF Launched, OthersKept, Ordered, Orderly
    <3>4. OneActive'
      BY <2>1, <3>3 DEF OneActive, Active, Ordered
    <3>5. run[r].req = "idle" /\ Orderly(r)
      BY <2>1 DEF Orderly, Ordered, Awaited
    <3>6. ~(Awaited(r)') /\ ~(Unlaunched(r)')
      <4>1. LaunchJob(r) \notin Elems(queue')
        BY <2>1, <2>3 DEF LaunchJob
      <4>2. QED
        BY <2>1, <3>1, <3>3, <3>5, <4>1 DEF Awaited, Unlaunched
    <3>7. Orderly(r)'
      BY <3>1, <3>3, <3>5, <3>6 DEF Orderly
    <3>8. ASSUME NEW q \in Runs, q # r
          PROVE  Orderly(q)'
      <4>1. Orderly(q) /\ run'[q] = run[q] /\ ~Running(q)
        BY <3>3, <3>8 DEF Ordered
      <4>2. Awaited(q)' = Awaited(q) /\ (Unlaunched(q)' => Unlaunched(q)) /\ ~(Running(q)')
        BY <2>1, <3>1, <4>1 DEF Awaited, Unlaunched, Running
      <4>3. QED
        BY <2>1, <3>1, <4>1, <4>2 DEF Orderly
    <3>9. QED
      BY <3>2, <3>4, <3>7, <3>8 DEF Ordered
  <2>6. QED
    BY <1>0, <1>5, <2>1, <2>2, <2>4, <2>5, LaunchRow
<1>6. CASE FanOut
  <2>1. PICK r \in Runs : worker.pc = "fan" /\ r = worker.job.run /\ run' = run
    BY <1>0, <1>6, JobShape DEF FanOut, Base, WorkerKnown
  <2>2. CASE worker.left = {}
    <3>1. worker' = Idle /\ queue' = queue
      BY <1>6, <2>2 DEF FanOut
    <3>2. BehindWorker'
      BY <3>1, IdleShape DEF BehindWorker
    <3>3. \A q \in Runs : Onward(q)
      BY <2>1, <3>1, RowsUntouched, IdleShape DEF Unlaunched
    <3>4. QED
      BY <1>0, <3>1, <3>2, <3>3, OrderedOnward, IdleShape DEF QueueSorted
  <2>3. CASE worker.left # {}
    <3>1. PICK t \in worker.left :
            /\ \A u \in worker.left : t <= u
            /\ queue' = Append(queue, TurnJob(r, t))
            /\ worker' = [worker EXCEPT !.left = @ \ {t}]
      <4>1. Oldest(worker.left) \in worker.left /\ \A u \in worker.left : Oldest(worker.left) <= u
        BY <1>0, <2>3, OldestFirst DEF Base, WorkerKnown
      <4>2. /\ queue' = Append(queue, TurnJob(r, Oldest(worker.left)))
            /\ worker' = [worker EXCEPT !.left = @ \ {Oldest(worker.left)}]
        BY <1>6, <2>1, <2>3 DEF FanOut
      <4>3. QED
        BY <4>1, <4>2
    <3>2. worker.left \subseteq Turns /\ worker.left \subseteq Nat /\ t \in Turns /\ t \in Nat
      BY DEF Base, TypeOK, Worker, Turns
    <3>3. /\ worker'.pc = "fan" /\ worker'.job = worker.job
          /\ worker'.left = worker.left \ {t}
      <4>1. worker \in Worker
        BY DEF Base, TypeOK
      <4>2. QED
        BY <2>1, <3>1, <4>1 DEF Worker
    <3> DEFINE j == TurnJob(r, t)
    <3>4. j \in Jobs /\ j.kind = "turn" /\ j.run = r /\ j.turn = t
      BY <3>2, NewJobs
    <3>5. queue' = Append(queue, j)
      BY <3>1
    <3> HIDE DEF j
    <3>6. Elems(queue') = Elems(queue) \cup {j}
      BY <1>0, <3>4, <3>5, ElemsAppend
    <3>7. \A x \in Elems(queue) : x.run = r => x.kind = "turn" /\ \A u \in worker.left : x.turn < u
      BY <1>0, <2>1 DEF BehindWorker, Follows
    <3>8. QueueSorted'
      <4>1. \A x \in Elems(queue) : Before(x, j)
        BY <3>4, <3>7 DEF Before
      <4>2. QED
        BY <1>0, <3>4, <3>5, <4>1, SortedAppend DEF QueueSorted
    <3>9. BehindWorker'
      <4>1. \A u \in worker'.left : t < u
        BY <3>1, <3>2, <3>3
      <4>2. \A x \in Elems(queue') : x.run = r => x.kind = "turn" /\ \A u \in worker'.left : x.turn < u
        BY <3>3, <3>4, <3>6, <3>7, <4>1
      <4>3. QED
        BY <2>1, <3>3, <4>2 DEF BehindWorker, Follows
    <3>10. \A q \in Runs : Onward(q)
      <4>1. \A q \in Runs : LaunchJob(q) # j
        BY <3>4 DEF LaunchJob
      <4>2. QED
        BY <2>1, <3>3, <3>6, <4>1, RowsUntouched DEF Unlaunched
    <3>11. QED
      BY <2>1, <3>3, <3>4, <3>6, <3>8, <3>9, <3>10, OrderedOnward
  <2>4. QED
    BY <2>2, <2>3
<1>7. CASE TakeTurn
  <2>1. /\ worker.pc = "idle" /\ worker.job = NoJob /\ UNCHANGED run
        /\ queue # <<>> /\ Head(queue).kind = "turn" /\ queue' = Tail(queue)
    BY <1>7 DEF TakeTurn, Base, WorkerKnown
  <2>2. /\ Head(queue) \in Jobs /\ Elems(queue) = Elems(queue') \cup {Head(queue)}
    BY <2>1, <1>0, ElemsTail
  <2>3. PICK h \in Jobs : h = Head(queue) /\ h.run \in Runs /\ h.kind = "turn" /\ h.turn <= newest
    BY <2>1, <2>2, JobShape DEF Base, JobsKnown
  <2>4. Sorted(queue') /\ \A x \in Elems(queue') : Before(h, x)
    BY <1>0, <2>1, <2>3, SortedTail
  <2>5. \/ worker' = worker
        \/ /\ Running(h.run) /\ worker'.pc \in {"count", "seek"} /\ worker'.job = h
    <3>1. CASE run[h.run].status # "running"
      BY <1>7, <2>3, <3>1 DEF TakeTurn
    <3>2. CASE run[h.run].status = "running"
      <4>1. WriteTurn(h)
        BY <1>7, <2>3, <3>2 DEF TakeTurn
      <4>2. QED
        BY <2>3, <3>2, <4>1, WriteTurnEffect DEF Running
    <3>3. QED
      BY <3>1, <3>2
  <2>6. BehindWorker'
    <3>1. CASE worker' = worker
      BY <2>1, <3>1, IdleShape DEF BehindWorker
    <3>2. CASE worker'.pc \in {"count", "seek"} /\ worker'.job = h
      BY <2>3, <2>4, <3>2 DEF BehindWorker, Follows, Before
    <3>3. QED
      BY <2>5, <3>1, <3>2
  <2>7. \A r \in Runs : Onward(r)
    BY <2>1, <2>2, <2>5, RowsUntouched DEF Unlaunched
  <2>8. \A r \in Runs : Running(h.run) /\ Running(r) => r = h.run
    BY <2>3 DEF Ordered, OneActive, Active, Running
  <2>9. worker' = worker \/ \A r \in Runs : Running(r) => r = worker'.job.run
    BY <2>5, <2>8
  <2>10. worker'.job.run \in {NoRun, worker.job.run}
         \/ \E i \in Elems(queue) : i.run = worker'.job.run
    BY <2>2, <2>3, <2>5
  <2>11. QED
    BY <1>0, <2>1, <2>2, <2>3, <2>4, <2>6, <2>7, <2>9, <2>10, OrderedOnward DEF QueueSorted
<1>8. CASE TakeLive
  <2>1. /\ worker.pc = "idle" /\ worker.job = NoJob /\ UNCHANGED run
        /\ queue # <<>> /\ Head(queue).kind = "live"
    BY <1>8 DEF TakeLive, Base, WorkerKnown
  <2>2. PICK h \in Jobs, rest \in Seq(Jobs) :
          /\ h = Head(queue) /\ rest = Tail(queue)
          /\ h.run = NoRun /\ h.kind = "live" /\ h.turn <= newest
          /\ Elems(queue) = Elems(rest) \cup {h} /\ Sorted(rest)
    <3>1. /\ Head(queue) \in Jobs /\ Tail(queue) \in Seq(Jobs) /\ Sorted(Tail(queue))
          /\ Elems(queue) = Elems(Tail(queue)) \cup {Head(queue)}
      BY <2>1, <1>0, ElemsTail, SortedTail
    <3>2. Head(queue).run = NoRun /\ Head(queue).turn <= newest
      BY <2>1, <3>1, JobShape DEF Base, JobsKnown
    <3>3. QED
      BY <2>1, <3>1, <3>2
  <2>3. /\ Elems(queue') \subseteq Elems(queue) /\ QueueSorted'
        /\ worker' # worker => ~Building
        /\ worker'.pc \in {"idle", "count", "seek"} /\ worker'.job \in {NoJob, h}
    <3>1. CASE Building
      <4>1. queue' = Append(rest, h) /\ worker' = worker
        BY <1>8, <2>2, <3>1 DEF TakeLive
      <4>2. \A x \in Elems(rest) : Before(x, h)
        BY <2>2 DEF Before
      <4>3. Elems(Append(rest, h)) = Elems(rest) \cup {h}
        BY ElemsAppend
      <4>4. Sorted(Append(rest, h))
        BY <2>2, <4>2, SortedAppend
      <4>5. QED
        BY <2>1, <2>2, <4>1, <4>3, <4>4 DEF QueueSorted
    <3>2. CASE ~Building
      <4>1. queue' = rest /\ WriteTurn(h)
        BY <1>8, <2>2, <3>2 DEF TakeLive
      <4>2. QED
        BY <2>2, <3>2, <4>1, WriteTurnEffect, IdleShape DEF QueueSorted
    <3>3. QED
      BY <3>1, <3>2
  <2>4. BehindWorker'
    BY <2>2, <2>3, IdleShape DEF BehindWorker
  <2>5. \A r \in Runs : Onward(r)
    BY <2>1, <2>3, RowsUntouched DEF Unlaunched
  <2>6. worker' # worker => \A r \in Runs : ~Running(r)
    BY <2>3 DEF Building, Active, Running
  <2>7. QED
    BY <2>1, <2>2, <2>3, <2>4, <2>5, <2>6, OrderedOnward, IdleShape
<1>9. CASE Seek
  <2>1. /\ worker.pc = "seek" /\ UNCHANGED <<run, queue>> /\ worker \in Worker
        /\ \E w \in Says[worker.job.turn], keyed \in Keyed[worker.job.turn] :
             worker' = [worker EXCEPT !.pc = IF w = "skip" THEN "mark" ELSE "persist",
                                      !.what = w, !.keyed = keyed,
                                      !.seen = IF keyed THEN @ \cup ActiveFacts ELSE @]
    BY <1>9 DEF Seek, Base, TypeOK
  <2>2. worker'.pc \in {"mark", "persist"} /\ worker'.job = worker.job
    BY <2>1 DEF Worker
  <2>3. BehindWorker'
    BY <1>0, <2>1, <2>2 DEF BehindWorker, Follows
  <2>4. \A r \in Runs : Onward(r)
    BY <2>1, <2>2, RowsUntouched DEF Unlaunched
  <2>5. QED
    BY <1>0, <2>1, <2>2, <2>3, <2>4, OrderedOnward DEF QueueSorted
<1>10. CASE Persist
  <2>1. worker.pc = "persist" /\ UNCHANGED queue /\ worker \in Worker
        /\ worker.job.run \in Runs \cup {NoRun}
    BY <1>0, <1>10, JobShape DEF Persist, Base, TypeOK
  <2>2. \/ run' = Fail(worker.job.run) /\ worker' = Idle
        \/ run' = run /\ worker' = [Idle EXCEPT !.pc = "mark", !.job = worker.job]
    BY <1>10 DEF Persist
  <2>3. CASE run' = Fail(worker.job.run) /\ worker' = Idle
    BY <1>0, <2>1, <2>3, OrderedFail
  <2>4. CASE run' = run /\ worker' = [Idle EXCEPT !.pc = "mark", !.job = worker.job]
    <3>1. worker'.pc = "mark" /\ worker'.job = worker.job
      BY <2>4 DEF Idle
    <3>2. BehindWorker'
      BY <1>0, <2>1, <3>1 DEF BehindWorker, Follows
    <3>3. \A r \in Runs : Onward(r)
      BY <2>1, <2>4, <3>1, RowsUntouched DEF Unlaunched
    <3>4. QED
      BY <1>0, <2>1, <3>1, <3>2, <3>3, OrderedOnward DEF QueueSorted
  <2>5. QED
    BY <2>2, <2>3, <2>4
<1>11. CASE Mark
  <2>1. /\ worker.pc = "mark" /\ UNCHANGED <<run, queue>> /\ worker' = After(worker.job)
    BY <1>11 DEF Mark
  <2>2. worker' = Idle \/ (worker'.pc = "count" /\ worker'.job = worker.job)
    BY <1>0, <2>1, AfterShape
  <2>3. BehindWorker'
    BY <1>0, <2>1, <2>2, IdleShape DEF BehindWorker, Follows
  <2>4. \A r \in Runs : Onward(r)
    BY <2>1, <2>2, RowsUntouched, IdleShape DEF Unlaunched
  <2>5. QED
    BY <1>0, <2>1, <2>2, <2>3, <2>4, OrderedOnward, IdleShape DEF QueueSorted
<1>12. CASE Count
  <2>1. PICK r \in Runs : worker.pc = "count" /\ r = worker.job.run /\ UNCHANGED queue
                          /\ worker' = Idle
    BY <1>0, <1>12, JobShape DEF Count, Base, WorkerKnown
  <2>2. BehindWorker'
    BY <2>1, IdleShape DEF BehindWorker
  <2>3. \A q \in Runs : Onward(q)
    <3>1. CASE run' = run
      BY <2>1, <3>1, RowsUntouched, IdleShape DEF Unlaunched
    <3>2. CASE run' # run
      <4>1. /\ run[r].status = "running" /\ OthersKept(r) /\ run'[r].req = run[r].req
            /\ run'[r].status \in {"running", "completed"}
        BY <1>0, <1>12, <2>1, <3>2, CountRow
      <4>2. Orderly(r) /\ ~Unlaunched(r)
        BY <4>1 DEF Ordered, Orderly, Running
      <4>3. Awaited(r)' = Awaited(r) /\ ~(Unlaunched(r)')
        BY <2>1, <4>1, <4>2, IdleShape DEF Awaited, Unlaunched
      <4>4. Onward(r)
        BY <4>1, <4>3 DEF Onward, Active, Running
      <4>5. ASSUME NEW q \in Runs, q # r
            PROVE  Onward(q)
        <5>1. run'[q] = run[q]
          BY <4>1, <4>5 DEF OthersKept
        <5>2. Unlaunched(q)' => Unlaunched(q)
          BY <2>1, <5>1, IdleShape DEF Awaited, Unlaunched
        <5>3. QED
          BY <5>1, <5>2 DEF Onward, Active, Running
      <4>6. QED
        BY <4>4, <4>5
    <3>3. QED
      BY <3>1, <3>2
  <2>4. QED
    BY <1>0, <2>1, <2>2, <2>3, OrderedOnward, IdleShape DEF QueueSorted
<1>13. CASE Raise
  <2>1. worker.job.run \in Runs \cup {NoRun} /\ UNCHANGED queue /\ worker' = Idle
        /\ run' = Fail(worker.job.run)
    BY <1>0, <1>13, JobShape DEF Raise
  <2>2. QED
    BY <1>0, <2>1, OrderedFail
<1>14. CASE Kill
  <2>1. UNCHANGED queue /\ worker' = Idle
    BY <1>14 DEF Kill
  <2>2. QED
    BY <1>0, <1>14, <2>1, KillRow, OrderedRest
<1>15. CASE Store
  <2>1. UNCHANGED <<queue, worker>> /\ (run' = run \/ ClearStore)
    BY <1>15 DEF Store, Forget, AskHold, SetHold, AskClear, ClearStore
  <2>2. \A q \in Runs : /\ run'[q].status = run[q].status /\ run'[q].req = run[q].req
                        /\ run'[q].started = run[q].started /\ run'[q].done = run[q].done
    BY <1>0, <2>1, ClearRow
  <2>3. QED
    BY <1>0, <2>1, <2>2 DEF Ordered, QueueSorted, BehindWorker, Follows, OneActive, Active, Orderly,
                       Awaited, Unlaunched, Running
<1>16. QED
  BY <1>1, <1>2, <1>3, <1>4, <1>5, <1>6, <1>7, <1>8, <1>9, <1>10, <1>11, <1>12, <1>13, <1>14,
     <1>15
  DEF Next, Work

\* The second layer holds in every state.
LEMMA OrderedInvariant == Spec => []Ordered
<1>1. Init => Ordered
  BY OrderedAtStart, MemoryAssumption
<1>2. Base /\ Base' /\ Ordered /\ [Next]_vars => Ordered'
  BY OrderedStep, MemoryAssumption
<1>3. QED
  BY <1>1, <1>2, BaseInvariant, PTL DEF Spec

-----------------------------------------------------------------------------
(* What happens to a stopped build *)

\* A build that was stopped after its launch stays stopped: its row is written again
\* only by the counting of a turn, which reads the status under the lock, by a failure,
\* which spares what is not active, and by a launch, of which a build has one.
LEMMA StopStep ==
  ASSUME MemoryAssumption, Base, Ordered, Next, NEW r \in Runs,
         run[r].status = "stopped", run[r].started
  PROVE  run'[r].status = "stopped"
<1>0. /\ run \in [Runs -> RunRow] /\ newest \in Nat /\ worker.job \in Jobs
      /\ ~Active(r) /\ ~Unlaunched(r) /\ run[r].req = "idle" /\ run[r] # Unrequested
      /\ blank \subseteq Turns
  <2>1. newest \in 0 .. MaxTurn /\ blank \subseteq 1 .. newest /\ MaxTurn \in Nat
    BY DEF Base, TypeOK, MemoryAssumption
  <2>2. newest \in Nat /\ blank \subseteq Turns
    BY <2>1 DEF Turns
  <2>3. ~Active(r) /\ ~Unlaunched(r) /\ run[r].req = "idle"
    BY DEF Ordered, Orderly, Active, Unlaunched, Awaited
  <2>4. run[r] # Unrequested
    BY DEF Unrequested
  <2>5. QED
    BY <2>2, <2>3, <2>4 DEF Base, TypeOK, Worker
<1>1. ASSUME NEW q \in Runs, Request(q)
      PROVE  run'[r] = run[r]
  <2>1. Cardinality(Eligible(q)) \in Nat
    BY <1>0, EligibleFinite DEF Base
  <2>2. OthersKept(q) /\ q # r
    BY <1>0, <1>1, <2>1, AskBuildRow, CreateRunRow, CountTurnsRow, EnqueueLaunchRow, StopRunRow,
       KillRequestRow DEF Request
  <2>3. QED
    BY <2>2 DEF OthersKept
<1>2. CASE Launch
  <2>1. Len(ledger) \in Nat /\ Cardinality(worker.left) \in Nat /\ worker.job.run \in Runs
    <3>1. Len(ledger) \in Nat
      BY DEF Base, TypeOK
    <3>2. Cardinality(worker.left) \in Nat
      BY <1>0, LeftFinite DEF Base
    <3>3. worker.job.run \in Runs
      BY <1>0, <1>2, JobShape DEF Base, Launch, WorkerKnown
    <3>4. QED
      BY <3>1, <3>2, <3>3
  <2>2. worker.job.run # r
    BY <1>0, <1>2 DEF Launch, Unlaunched
  <2>3. QED
    BY <1>0, <1>2, <2>1, <2>2, LaunchRow DEF Launched, OthersKept
<1>3. CASE Count
  <2>1. worker.job.run \in Runs
    BY <1>0, <1>3, JobShape DEF Base, Count, WorkerKnown
  <2>2. QED
    BY <1>0, <1>3, <2>1, CountRow DEF OthersKept
<1>4. CASE run' = Fail(worker.job.run)
  <2>1. worker.job.run \in Runs \cup {NoRun}
    BY <1>0, JobShape
  <2>2. QED
    BY <1>0, <1>4, <2>1, FailEffect
<1>5. CASE Kill \/ ClearStore
  BY <1>0, <1>5, KillRow, ClearRow
<1>6. CASE run' = run
  BY <1>6
<1>7. CASE TakeLaunch
  <2>1. Head(queue).run \in Runs
    BY <1>7, QueueEffect, JobShape DEF TakeLaunch
  <2>2. QED
    BY <1>0, <1>7, <2>1, TakeLaunchRow DEF OthersKept
<1>8. QED
  <2>1. \/ \E q \in Runs : Request(q)
        \/ TakeLaunch \/ Launch \/ Count \/ run' = Fail(worker.job.run) \/ Kill \/ ClearStore \/ run' = run
    <3>1. CASE Persist
      BY <3>1 DEF Persist
    <3>2. CASE Replies \/ FanOut \/ TakeTurn \/ TakeLive \/ Seek \/ Mark
      BY <3>2 DEF Replies, NewTurn, FinishTurn, FanOut, TakeTurn, TakeLive, Seek, Mark
    <3>3. CASE Store
      BY <3>3 DEF Store, Forget, AskHold, SetHold, AskClear
    <3>4. CASE Raise
      BY <3>4 DEF Raise
    <3>5. QED
      BY <3>1, <3>2, <3>3, <3>4 DEF Next, Work
  <2>2. QED
    BY <1>1, <1>2, <1>3, <1>4, <1>5, <1>6, <1>7, <2>1

\* A build stopped after its launch never comes back to life, and the turn in hand
\* never declares it failed or completed (backfill's read of the status under its lock).
THEOREM StopIsFinal == Spec => StopHolds
<1>1. Base /\ Ordered /\ [Next]_vars =>
        [\A r \in Runs : run[r].status = "stopped" /\ run[r].started
                           => run'[r].status = "stopped"]_vars
  BY StopStep, MemoryAssumption
<1>2. QED
  BY <1>1, BaseInvariant, OrderedInvariant, PTL DEF Spec, StopHolds

-----------------------------------------------------------------------------
(* The third layer: what the ledger holds *)

InHand == worker.pc \in {"seek", "persist"}

\* What the worker is about to write is not in the ledger.
Unwritten == InHand => ~Logged(worker.job.turn)

\* Everything written since the launch of a build comes before its remaining turns.
Later(r) ==
  \A i \in DOMAIN ledger : i > run[r].base =>
    /\ \A j \in Elems(queue) : j.run = r => ledger[i].turn < j.turn
    /\ InHand /\ worker.job.run = r => ledger[i].turn < worker.job.turn
    /\ ~(worker.pc = "fan" /\ worker.job.run = r)
WritesLater(r) == Running(r) \/ (InHand /\ worker.job.run = r) => Later(r)
Baseless(r) == run[r].req = "create" => run[r].base = 0

Written ==
  /\ Unwritten /\ WrittenOnce /\ HistoryInOrder
  /\ \A r \in Runs : WritesLater(r) /\ Baseless(r)

\* At the start the ledger is empty and no turn is marked.
LEMMA WrittenAtStart ==
  ASSUME MemoryAssumption, Init
  PROVE  Written
<1>1. DOMAIN ledger = {} /\ worker.pc = "idle"
  BY IdleShape DEF Init
<1>2. \A r \in Runs : run[r].req = "idle"
  BY DEF Init, Unrequested
<1>3. QED
  BY <1>1, <1>2 DEF Written, Unwritten, WrittenOnce, HistoryInOrder, WritesLater, Later, Baseless,
                    InHand

\* The rows of the ledger.
LEMMA LedgerShape ==
  ASSUME ledger \in Seq(Entry)
  PROVE  /\ DOMAIN ledger = 1 .. Len(ledger) /\ Len(ledger) \in Nat
         /\ \A i \in DOMAIN ledger : ledger[i].turn \in Nat /\ ledger[i].turn \in Turns
                                    /\ ledger[i].run \in Runs \cup {NoRun}
<1>1. DOMAIN ledger = 1 .. Len(ledger) /\ Len(ledger) \in Nat
      /\ \A i \in DOMAIN ledger : ledger[i] \in Entry
  OBVIOUS
<1>2. QED
  BY <1>1 DEF Entry, Turns

\* A step that writes nothing, launches no build and takes nothing in hand keeps this,
\* whatever new jobs it queues for builds that are not running.
LEMMA WrittenOnward ==
  ASSUME Base, Written, ledger' = ledger,
         \A r \in Runs : run'[r].base = run[r].base /\ (Running(r)' => Running(r)) /\ Baseless(r)',
         \A j \in Elems(queue') :
            \/ j \in Elems(queue)
            \/ \A r \in Runs : j.run = r => ~(Running(r)') /\ worker'.job.run # r,
         worker' = worker \/ worker'.pc \notin {"seek", "persist", "fan"}
           \/ (worker.pc = "seek" /\ worker'.job = worker.job /\ worker'.pc = "persist")
  PROVE  Written'
<1>1. InHand' => InHand /\ worker'.job = worker.job
  BY DEF InHand
<1>2. worker'.pc = "fan" => worker.pc = "fan" /\ worker'.job = worker.job
  OBVIOUS
<1>3. Unwritten'
  BY <1>1 DEF Written, Unwritten, Logged
<1>4. WrittenOnce'
  BY DEF Written, WrittenOnce
<1>5. HistoryInOrder'
  <2>1. \A i \in DOMAIN ledger : ledger[i].run \in Runs \cup {NoRun}
    BY LedgerShape DEF Base, TypeOK
  <2>2. QED
    BY <2>1 DEF Written, HistoryInOrder
<1>6. ASSUME NEW r \in Runs
      PROVE  WritesLater(r)'
  <2> SUFFICES ASSUME Running(r)' \/ (InHand' /\ worker'.job.run = r)
               PROVE  Later(r)'
    BY DEF WritesLater
  <2>1. Later(r)
    BY <1>1 DEF Written, WritesLater
  <2>2. \A j \in Elems(queue') : j.run = r => j \in Elems(queue)
    OBVIOUS
  <2>3. QED
    BY <1>1, <1>2, <2>1, <2>2 DEF Later
<1>7. QED
  BY <1>3, <1>4, <1>5, <1>6 DEF Written

\* Every step keeps what the ledger holds.
LEMMA WrittenStep ==
  ASSUME MemoryAssumption, Base, Base', Ordered, Ordered', Written, [Next]_vars
  PROVE  Written'
<1>0. /\ queue \in Seq(Jobs) /\ worker \in Worker /\ worker.job \in Jobs /\ NoRun \notin Runs
      /\ run \in [Runs -> RunRow] /\ newest \in Nat /\ ledger \in Seq(Entry)
      /\ DOMAIN ledger = 1 .. Len(ledger) /\ Len(ledger) \in Nat
      /\ \A r \in Runs : WritesLater(r) /\ Baseless(r)
      /\ \A i \in DOMAIN ledger : ledger[i].turn \in Nat /\ ledger[i].run \in Runs \cup {NoRun}
      /\ blank \subseteq Turns
  <2>0. blank \subseteq Turns
    BY DEF Base, TypeOK, MemoryAssumption, Turns
  <2>1. /\ queue \in Seq(Jobs) /\ worker \in Worker /\ NoRun \notin Runs
        /\ run \in [Runs -> RunRow] /\ newest \in Nat /\ ledger \in Seq(Entry)
        /\ \A r \in Runs : WritesLater(r) /\ Baseless(r)
    BY DEF Base, TypeOK, Runs, NoRun, MemoryAssumption, Written
  <2>2. worker.job \in Jobs
    BY <2>1 DEF Worker
  <2>3. QED
    BY <2>0, <2>1, <2>2, LedgerShape
<1>1. CASE UNCHANGED vars
  BY <1>1 DEF vars, Written, Unwritten, WrittenOnce, HistoryInOrder, WritesLater, Later, Baseless,
              InHand, Logged, Running
<1>2. CASE Replies
  <2>1. /\ UNCHANGED <<ledger, run, worker>>
        /\ queue' = queue \/ \E t \in Turns : queue' = Append(queue, LiveJob(t))
    BY <1>2, RepliesEffect
  <2>2. \A j \in Elems(queue') : j \in Elems(queue) \/ j.run = NoRun
    <3>1. CASE queue' = queue
      BY <3>1
    <3>2. ASSUME NEW t \in Turns, queue' = Append(queue, LiveJob(t))
          PROVE  \A j \in Elems(queue') : j \in Elems(queue) \/ j.run = NoRun
      <4>1. LiveJob(t) \in Jobs /\ LiveJob(t).run = NoRun
        BY NewLiveJob
      <4>2. Elems(Append(queue, LiveJob(t))) = Elems(queue) \cup {LiveJob(t)}
        BY <1>0, <4>1, ElemsAppend
      <4>3. QED
        BY <3>2, <4>1, <4>2
    <3>3. QED
      BY <2>1, <3>1, <3>2
  <2>3. QED
    BY <1>0, <2>1, <2>2, WrittenOnward DEF Running, Baseless
<1>3. ASSUME NEW r \in Runs, Request(r)
      PROVE  Written'
  <2>1. /\ UNCHANGED <<ledger, worker>>
        /\ queue' = queue \/ (EnqueueLaunch(r) /\ queue' = Append(queue, LaunchJob(r)))
    BY <1>3 DEF Request, AskBuild, CreateRun, CountTurns, EnqueueLaunch, StopRun, KillRequest
  <2>2. Cardinality(Eligible(r)) \in Nat
    BY <1>0, EligibleFinite DEF Base
  <2>3. /\ OthersKept(r) /\ run'[r].base = run[r].base
        /\ run'[r].status = "running" => run[r].status = "running"
        /\ run'[r].req = "create" => run'[r].base = 0
    <3>1. CASE AskBuild(r)
      <4>1. run[r].base = 0
        <5>1. run[r] = Unrequested
          BY <3>1 DEF AskBuild
        <5>2. QED
          BY <5>1 DEF Unrequested
      <4>2. QED
        BY <1>0, <3>1, <4>1, AskBuildRow
    <3>2. CASE CreateRun(r)
      BY <1>0, <3>2, CreateRunRow DEF Baseless
    <3>3. CASE CountTurns(r)
      BY <1>0, <2>2, <3>3, CountTurnsRow
    <3>4. CASE EnqueueLaunch(r)
      BY <1>0, <3>4, EnqueueLaunchRow
    <3>5. CASE StopRun(r)
      BY <1>0, <3>5, StopRunRow DEF Baseless
    <3>6. CASE KillRequest(r)
      BY <1>0, <3>6, KillRequestRow
    <3>7. QED
      BY <1>3, <3>1, <3>2, <3>3, <3>4, <3>5, <3>6 DEF Request
  <2>4. \A q \in Runs : run'[q].base = run[q].base /\ (Running(q)' => Running(q)) /\ Baseless(q)'
    BY <1>0, <2>3 DEF OthersKept, Running, Baseless
  <2>5. ASSUME NEW j \in Elems(queue')
        PROVE  \/ j \in Elems(queue)
               \/ \A q \in Runs : j.run = q => ~(Running(q)') /\ worker'.job.run # q
    <3>1. CASE queue' = queue
      BY <2>5, <3>1
    <3>2. CASE EnqueueLaunch(r) /\ queue' = Append(queue, LaunchJob(r))
      <4>1. LaunchJob(r) \in Jobs /\ LaunchJob(r).run = r
        BY <1>3 DEF Jobs, LaunchJob
      <4>2. Elems(Append(queue, LaunchJob(r))) = Elems(queue) \cup {LaunchJob(r)}
        BY <1>0, <4>1, ElemsAppend
      <4>3. Awaited(r) /\ Unlaunched(r) /\ Orderly(r)
        BY <1>0, <3>2, EnqueueLaunchRow DEF Awaited, Unlaunched, Ordered
      <4>4. worker.job.run # r /\ ~Running(r)
        BY <4>3 DEF Orderly
      <4>5. QED
        BY <2>1, <2>4, <2>5, <3>2, <4>1, <4>2, <4>4
    <3>3. QED
      BY <2>1, <3>1, <3>2
  <2>6. QED
    BY <2>1, <2>4, <2>5, WrittenOnward
<1>4. CASE TakeLaunch
  <2>1. /\ UNCHANGED ledger /\ queue # <<>> /\ queue' = Tail(queue)
        /\ Head(queue).kind = "launch" /\ (worker' = worker \/ worker'.pc = "launch")
    BY <1>4 DEF TakeLaunch, Idle
  <2>2. Elems(queue') \subseteq Elems(queue) /\ Head(queue).run \in Runs
    BY <1>0, <2>1, ElemsTail, JobShape
  <2>3. \A q \in Runs : /\ run'[q].base = run[q].base /\ run'[q].status = run[q].status
                        /\ run'[q].req = run[q].req
    BY <1>0, <1>4, <2>2, TakeLaunchRow DEF OthersKept
  <2>4. \A q \in Runs : /\ run'[q].base = run[q].base /\ (Running(q)' => Running(q))
                        /\ Baseless(q)'
    BY <1>0, <2>3 DEF Running, Baseless
  <2>5. QED
    BY <2>1, <2>2, <2>4, WrittenOnward
<1>5. CASE Launch
  <2>1. PICK r \in Runs : worker.pc = "launch" /\ UNCHANGED <<ledger, queue>> /\ r = worker.job.run
    BY <1>0, <1>5, JobShape DEF Launch, Base, WorkerKnown
  <2>2. Cardinality(worker.left) \in Nat
    BY <1>0, LeftFinite DEF Base
  <2>3. CASE worker' = Idle /\ run' = run
    BY <1>0, <2>1, <2>3, WrittenOnward, IdleShape DEF Running, Baseless
  <2>4. CASE /\ worker' = [worker EXCEPT !.pc = "fan"]
             /\ worker.left # {} => ~\E q \in Runs \ {r} : Active(q)
             /\ Launched(r)
    <3>1. worker'.pc = "fan" /\ worker'.job = worker.job
      BY <1>0, <2>4 DEF Worker
    <3>2. /\ \A q \in Runs : q # r => run'[q] = run[q] /\ ~Running(q)
          /\ run'[r].base = Len(ledger) /\ run'[r].req = run[r].req
      BY <2>1, <2>4 DEF Launched, OthersKept, Ordered, Orderly
    <3>3. Unwritten' /\ WrittenOnce'
      BY <2>1, <3>1 DEF Unwritten, InHand, WrittenOnce, Written
    <3>4. HistoryInOrder'
      <4> SUFFICES ASSUME NEW i \in DOMAIN ledger, NEW j \in DOMAIN ledger, i < j,
                          ledger[j].run # NoRun, i > run'[ledger[j].run].base
                   PROVE  ledger[i].turn < ledger[j].turn
        BY <2>1 DEF HistoryInOrder
      <4>1. ledger[j].run \in Runs /\ ledger[j].run # r
        BY <1>0, <3>2
      <4>2. run'[ledger[j].run] = run[ledger[j].run]
        BY <3>2, <4>1
      <4>3. QED
        BY <4>2 DEF Written, HistoryInOrder
    <3>5. WritesLater(r)'
      BY <1>0, <2>1, <3>2 DEF WritesLater, Later
    <3>6. ASSUME NEW q \in Runs, q # r
          PROVE  WritesLater(q)'
      BY <2>1, <3>1, <3>2, <3>6 DEF WritesLater, InHand, Running
    <3>7. run[r].req = "idle"
      BY <2>1 DEF Orderly, Ordered, Awaited
    <3>8. ASSUME NEW q \in Runs
          PROVE  Baseless(q)'
      BY <1>0, <3>2, <3>7 DEF Baseless
    <3>9. QED
      BY <3>3, <3>4, <3>5, <3>6, <3>8 DEF Written
  <2>5. QED
    BY <1>0, <1>5, <2>1, <2>2, <2>3, <2>4, LaunchRow
<1>6. CASE FanOut
  <2>1. PICK r \in Runs : worker.pc = "fan" /\ r = worker.job.run /\ UNCHANGED <<run, ledger>>
    BY <1>0, <1>6, JobShape DEF FanOut, Base, WorkerKnown
  <2>2. CASE worker.left = {}
    <3>1. worker' = Idle /\ queue' = queue
      BY <1>6, <2>2 DEF FanOut
    <3>2. QED
      BY <1>0, <2>1, <3>1, WrittenOnward, IdleShape DEF Running, Baseless
  <2>3. CASE worker.left # {}
    <3>1. /\ worker'.pc = "fan" /\ worker'.job = worker.job
      BY <1>0, <1>6, <2>1, <2>3 DEF FanOut, Worker
    <3>2. PICK t \in Turns : queue' = Append(queue, TurnJob(r, t))
      <4>1. Oldest(worker.left) \in worker.left
        BY <1>0, <2>3, OldestFirst DEF Base, WorkerKnown
      <4>2. QED
        BY <1>0, <1>6, <2>1, <2>3, <4>1 DEF FanOut, Worker
    <3>3. TurnJob(r, t) \in Jobs /\ TurnJob(r, t).run = r
      BY NewJobs
    <3>4. Elems(Append(queue, TurnJob(r, t))) = Elems(queue) \cup {TurnJob(r, t)}
      BY <1>0, <3>3, ElemsAppend
    <3>5. Unwritten' /\ WrittenOnce' /\ HistoryInOrder'
      BY <2>1, <3>1 DEF Unwritten, InHand, WrittenOnce, HistoryInOrder, Written
    <3>6. ASSUME NEW q \in Runs
          PROVE  WritesLater(q)'
      <4> SUFFICES ASSUME Running(q)'
                   PROVE  Later(q)'
        BY <3>1 DEF WritesLater, InHand
      <4>1. Running(q) /\ Later(q)
        BY <1>0, <2>1 DEF WritesLater, Running
      <4>2. q = r
        BY <2>1, <4>1 DEF Ordered, Orderly
      <4>3. \A i \in DOMAIN ledger : ~(i > run[q].base)
        BY <2>1, <4>1, <4>2 DEF Later
      <4>4. QED
        BY <2>1, <4>3 DEF Later
    <3>7. \A q \in Runs : Baseless(q)'
      BY <1>0, <2>1 DEF Baseless
    <3>8. QED
      BY <3>5, <3>6, <3>7 DEF Written
  <2>4. QED
    BY <2>2, <2>3
<1>7. CASE TakeTurn \/ TakeLive
  <2>1. /\ UNCHANGED <<ledger, run>> /\ worker.pc = "idle" /\ queue # <<>>
        /\ Head(queue).kind \in {"turn", "live"}
        /\ queue' = Tail(queue) \/ queue' = Append(Tail(queue), Head(queue))
    BY <1>7 DEF TakeTurn, TakeLive
  <2>2. PICK h \in Jobs : h = Head(queue) /\ h \in Elems(queue) /\ h.kind \in {"turn", "live"}
                          /\ h.turn <= newest
    BY <2>1, QueueEffect DEF Base, JobsKnown
  <2>3. Elems(queue') \subseteq Elems(queue)
    BY <2>1, QueueEffect
  <2>4. \/ worker' = worker
        \/ WriteTurn(h) /\ (h.kind = "turn" => Running(h.run))
    BY <1>7, <2>1, <2>2 DEF TakeTurn, TakeLive, Running
  <2>5. worker' = worker \/ worker'.pc \notin {"seek", "persist", "fan"}
        \/ (WriteTurn(h) /\ (h.kind = "turn" => Running(h.run)) /\ worker'.pc = "seek")
    BY <2>2, <2>4, WriteTurnEffect, IdleShape
  <2>6. CASE worker' = worker \/ worker'.pc \notin {"seek", "persist", "fan"}
    BY <1>0, <2>1, <2>3, <2>6, WrittenOnward DEF Running, Baseless
  <2>7. CASE WriteTurn(h) /\ (h.kind = "turn" => Running(h.run)) /\ worker'.pc = "seek"
    <3>1. worker'.job = h /\ ~Logged(h.turn)
      BY <2>2, <2>7, WriteTurnEffect, IdleShape
    <3>2. Unwritten'
      BY <2>1, <3>1 DEF Unwritten, Logged
    <3>3. WrittenOnce' /\ HistoryInOrder'
      BY <2>1 DEF WrittenOnce, HistoryInOrder, Written
    <3>4. ASSUME NEW r \in Runs
          PROVE  WritesLater(r)'
      <4> SUFFICES ASSUME Running(r)' \/ (InHand' /\ worker'.job.run = r)
                   PROVE  Later(r)'
        BY DEF WritesLater
      <4>1. h.run = r => h.kind = "turn"
        BY <1>0, <2>2, JobShape
      <4>2. Running(r)
        BY <2>1, <2>7, <3>1, <4>1 DEF Running
      <4>3. Later(r)
        BY <1>0, <4>2 DEF WritesLater
      <4>4. QED
        BY <2>1, <2>2, <2>3, <2>7, <3>1, <4>3 DEF Later
    <3>5. \A r \in Runs : Baseless(r)'
      BY <1>0, <2>1 DEF Baseless
    <3>6. QED
      BY <3>2, <3>3, <3>4, <3>5 DEF Written
  <2>8. QED
    BY <2>5, <2>6, <2>7
<1>8. CASE Seek
  <2>1. UNCHANGED <<ledger, run, queue>> /\ worker.pc = "seek"
        /\ worker'.pc \in {"mark", "persist"} /\ worker'.job = worker.job
    BY <1>0, <1>8 DEF Seek, Worker
  <2>2. QED
    BY <1>0, <2>1, WrittenOnward DEF Running, Baseless
<1>9. CASE Persist
  <2>1. PICK t \in Turns, q \in Runs \cup {NoRun} :
          /\ worker.pc = "persist" /\ UNCHANGED queue
          /\ worker.job.turn = t /\ worker.job.run = q
    BY <1>0, <1>9, JobShape DEF Persist, Base, WorkerKnown
  <2>2. \/ run' = Fail(q) /\ worker' = Idle /\ UNCHANGED ledger
        \/ /\ run' = run /\ worker' = [Idle EXCEPT !.pc = "mark", !.job = worker.job]
           /\ ledger' = Append(ledger, [turn |-> t, run |-> q])
    BY <1>9, <2>1 DEF Persist
  <2>3. CASE run' = Fail(q) /\ worker' = Idle /\ UNCHANGED ledger
    <3>1. \A r \in Runs : /\ run'[r].base = run[r].base /\ run'[r].req = run[r].req
                          /\ run'[r].status = "running" => run[r].status = "running"
      BY <1>0, <2>3, FailEffect
    <3>2. QED
      BY <1>0, <2>1, <2>3, <3>1, WrittenOnward, IdleShape DEF Running, Baseless
  <2>4. CASE /\ run' = run /\ worker' = [Idle EXCEPT !.pc = "mark", !.job = worker.job]
             /\ ledger' = Append(ledger, [turn |-> t, run |-> q])
    <3> DEFINE n == Len(ledger) + 1
    <3>1. /\ DOMAIN ledger' = 1 .. n /\ n \in Nat
          /\ \A i \in DOMAIN ledger : ledger'[i] = ledger[i]
          /\ ledger'[n].turn = t /\ ledger'[n].run = q
          /\ \A i \in DOMAIN ledger' : i \in DOMAIN ledger \/ i = n
          /\ \A i \in DOMAIN ledger : i < n
      BY <1>0, <2>4
    <3> HIDE DEF n
    <3>2. worker'.pc = "mark"
      BY <2>4 DEF Idle
    <3>3. \A i \in DOMAIN ledger : ledger[i].turn # t
      BY <2>1 DEF Written, Unwritten, InHand, Logged
    <3>4. Unwritten'
      BY <3>2 DEF Unwritten, InHand
    <3>5. WrittenOnce'
      BY <3>1, <3>3 DEF WrittenOnce, Written
    <3>6. q \in Runs => Later(q) /\ \A i \in DOMAIN ledger : i > run[q].base => ledger[i].turn < t
      BY <1>0, <2>1 DEF WritesLater, Later, InHand
    <3>7. HistoryInOrder'
      <4> SUFFICES ASSUME NEW i \in DOMAIN ledger', NEW j \in DOMAIN ledger', i < j,
                          ledger'[j].run # NoRun, i > run'[ledger'[j].run].base
                   PROVE  ledger'[i].turn < ledger'[j].turn
        BY DEF HistoryInOrder
      <4>1. i \in DOMAIN ledger /\ i # n
        <5>1. i # n
          BY <3>1, <1>0
        <5>2. QED
          BY <3>1, <5>1
      <4>2. CASE j = n
        BY <2>4, <3>1, <3>6, <4>1, <4>2
      <4>3. CASE j # n
        BY <2>4, <3>1, <4>1, <4>3 DEF Written, HistoryInOrder
      <4>4. QED
        BY <4>2, <4>3
    <3>8. ASSUME NEW r \in Runs
          PROVE  WritesLater(r)'
      <4> SUFFICES ASSUME Running(r)'
                   PROVE  Later(r)'
        BY <3>2 DEF WritesLater, InHand
      <4>1. Running(r)
        BY <2>4 DEF Running
      <4>2. r = q
        BY <2>1, <4>1 DEF Ordered, Orderly
      <4>3. \A j \in Elems(queue) : j.run = r => t < j.turn
        BY <1>0, <2>1, <4>2 DEF Ordered, BehindWorker, Follows
      <4>4. QED
        BY <2>1, <2>4, <3>1, <3>2, <3>6, <4>2, <4>3 DEF Later, InHand
    <3>9. \A r \in Runs : Baseless(r)'
      BY <1>0, <2>4 DEF Baseless
    <3>10. QED
      BY <3>4, <3>5, <3>7, <3>8, <3>9 DEF Written
  <2>5. QED
    BY <2>2, <2>3, <2>4
<1>10. CASE Mark
  <2>1. UNCHANGED <<ledger, run, queue>> /\ worker'.pc \in {"idle", "count"}
    BY <1>0, <1>10, AfterShape, IdleShape DEF Mark
  <2>2. QED
    BY <1>0, <2>1, WrittenOnward DEF Running, Baseless
<1>11. CASE Count
  <2>1. worker.job.run \in Runs /\ UNCHANGED <<ledger, queue>> /\ worker' = Idle
    BY <1>0, <1>11, JobShape DEF Count, Base, WorkerKnown
  <2>2. \A r \in Runs : /\ run'[r].base = run[r].base /\ run'[r].req = run[r].req
                        /\ run'[r].status = "running" => run[r].status = "running"
    BY <1>0, <1>11, <2>1, CountRow DEF OthersKept
  <2>3. QED
    BY <1>0, <2>1, <2>2, WrittenOnward, IdleShape DEF Running, Baseless
<1>12. CASE Raise \/ Kill
  <2>1. UNCHANGED <<ledger, queue>> /\ worker' = Idle /\ worker.job.run \in Runs \cup {NoRun}
    BY <1>0, <1>12, JobShape DEF Raise, Kill
  <2>2. \A r \in Runs : /\ run'[r].base = run[r].base /\ run'[r].req = run[r].req
                        /\ run'[r].status = "running" => run[r].status = "running"
    <3>1. CASE Raise
      BY <1>0, <2>1, <3>1, FailEffect DEF Raise
    <3>2. CASE Kill
      BY <1>0, <3>2, KillRow
    <3>3. QED
      BY <1>12, <3>1, <3>2
  <2>3. QED
    BY <1>0, <2>1, <2>2, WrittenOnward, IdleShape DEF Running, Baseless
<1>13. CASE Store
  <2>1. UNCHANGED <<queue, worker>> /\ (ClearStore \/ UNCHANGED <<ledger, run>>)
    BY <1>13 DEF Store, Forget, AskHold, SetHold, AskClear, ClearStore
  <2>2. CASE UNCHANGED <<ledger, run>>
    BY <1>0, <2>1, <2>2, WrittenOnward DEF Running, Baseless
  <2>3. CASE ClearStore
    <3>1. DOMAIN ledger' = {} /\ \A r \in Runs : run'[r].base = 0
      <4>1. DOMAIN ledger' = {}
        <5>1. ledger' = <<>>
          BY <2>3 DEF ClearStore
        <5>2. QED
          BY <5>1
      <4>2. \A r \in Runs : run'[r].base = 0
        BY <1>0, <2>3, ClearRow
      <4>3. QED
        BY <4>1, <4>2
    <3>2. QED
      BY <3>1 DEF Written, Unwritten, Logged, WrittenOnce, HistoryInOrder, WritesLater, Later, Baseless
  <2>4. QED
    BY <2>1, <2>2, <2>3
<1>14. QED
  BY <1>1, <1>2, <1>3, <1>4, <1>5, <1>6, <1>7, <1>8, <1>9, <1>10, <1>11, <1>12, <1>13
  DEF Next, Work

\* The third layer holds in every state.
LEMMA WrittenInvariant == Spec => []Written
<1>1. Init => Written
  BY WrittenAtStart, MemoryAssumption
<1>2. Base /\ Base' /\ Ordered /\ Ordered' /\ Written /\ [Next]_vars => Written'
  BY WrittenStep, MemoryAssumption
<1>3. QED
  BY <1>1, <1>2, BaseInvariant, OrderedInvariant, PTL DEF Spec

\* No turn is ingested twice, however many jobs name it and wherever the worker died
\* between its ledger rows and its marker.
THEOREM IngestedOnce == Spec => []WrittenOnce
<1>1. Written => WrittenOnce
  BY DEF Written
<1>2. QED
  BY <1>1, WrittenInvariant, PTL

\* From the launch of a build on, memory is written in the order of the conversation:
\* its turns never land on top of newer ones.
THEOREM OrderOfHistory == Spec => []HistoryInOrder
<1>1. Written => HistoryInOrder
  BY DEF Written
<1>2. QED
  BY <1>1, WrittenInvariant, PTL

-----------------------------------------------------------------------------
(* The fourth layer: one usable fact in the slot *)

\* Until a held fact is released by hand, or one is filed without a key beside another
\* unrecalled, there is one usable fact, the writer has seen no other, and when it writes
\* under a key it has seen that one.
Slot ==
  ~released /\ ~missed =>
    /\ \A t, u \in ActiveFacts : t = u
    /\ InHand => \A t, u \in worker.seen : t = u
    /\ InHand => \A t \in ActiveFacts, u \in worker.seen : t = u
    /\ worker.pc = "persist" /\ worker.keyed => ActiveFacts \subseteq worker.seen

\* A step that makes no fact usable, and takes nothing in hand, keeps this.
LEMMA SlotOnward ==
  ASSUME Slot, missed' = missed,
         ~released' => ~released /\ (ActiveFacts' \subseteq ActiveFacts),
         worker' = worker \/ worker'.pc \notin {"seek", "persist"}
  PROVE  Slot'
BY DEF Slot, InHand

\* Every step keeps one usable fact.
LEMMA SlotStep ==
  ASSUME MemoryAssumption, Base, Slot, [Next]_vars
  PROVE  Slot'
<1>0. /\ queue \in Seq(Jobs) /\ worker \in Worker /\ worker.job \in Jobs
      /\ fact \in [Turns -> FactState] /\ released \in BOOLEAN
  BY DEF Base, TypeOK, Worker
<1>1. ASSUME UNCHANGED <<fact, released>>
      PROVE  ActiveFacts' = ActiveFacts
  BY <1>1 DEF ActiveFacts
<1>2. CASE UNCHANGED vars \/ Replies \/ \E r \in Runs : Request(r)
  <2>1. UNCHANGED <<fact, released, missed, worker>>
    BY <1>2 DEF vars, Replies, NewTurn, FinishTurn, Request, AskBuild, CreateRun, CountTurns, EnqueueLaunch, StopRun,
                KillRequest
  <2>2. QED
    BY <1>1, <2>1, SlotOnward
<1>3. CASE TakeLaunch \/ Launch \/ FanOut
  <2>1. UNCHANGED <<fact, released, missed>>
    BY <1>3 DEF TakeLaunch, Launch, FanOut
  <2>2. worker' = worker \/ worker'.pc \notin {"seek", "persist"}
    BY <1>0, <1>3, IdleShape DEF TakeLaunch, Launch, FanOut, Idle, Worker
  <2>3. QED
    BY <1>1, <2>1, <2>2, SlotOnward
<1>4. CASE TakeTurn \/ TakeLive
  <2>1. /\ UNCHANGED <<fact, released, missed>> /\ queue # <<>> /\ Head(queue).kind \in {"turn", "live"}
        /\ worker' = worker \/ WriteTurn(Head(queue))
    BY <1>4 DEF TakeTurn, TakeLive
  <2>2. PICK h \in Jobs : h = Head(queue) /\ h.turn <= newest
    BY <2>1, QueueEffect DEF Base, JobsKnown
  <2>3. \/ worker' = worker \/ worker'.pc \notin {"seek", "persist"}
        \/ (worker'.pc = "seek" /\ worker'.seen \subseteq ActiveFacts)
    BY <2>1, <2>2, WriteTurnEffect, IdleShape
  <2>4. CASE worker'.pc = "seek" /\ worker'.seen \subseteq ActiveFacts
    BY <1>1, <2>1, <2>4 DEF Slot, InHand
  <2>5. QED
    BY <1>1, <2>1, <2>3, <2>4, SlotOnward
<1>5. CASE Seek
  <2>1. /\ UNCHANGED <<fact, released, missed>> /\ worker.pc = "seek"
        /\ worker'.pc \in {"mark", "persist"}
        /\ worker'.seen = IF worker'.keyed THEN worker.seen \cup ActiveFacts ELSE worker.seen
    BY <1>0, <1>5 DEF Seek, Worker
  <2>2. QED
    BY <1>1, <2>1 DEF Slot, InHand
<1>6. CASE Persist
  <2>1. released' = released /\ worker.pc = "persist"
        /\ worker'.pc \notin {"seek", "persist"}
    BY <1>0, <1>6, IdleShape DEF Persist, Worker, Idle
  <2>2. CASE UNCHANGED <<fact, missed>>
    BY <1>1, <2>1, <2>2, SlotOnward
  <2>3. CASE ~UNCHANGED <<fact, missed>>
    <3>1. PICK old \in Collisions(worker.what, worker.seen) :
            /\ fact' = [u \in Turns |->
                          IF worker.what \in {"active", "held"} /\ u = worker.job.turn
                          THEN worker.what
                          ELSE IF u \in old /\ fact[u] # "forgotten" THEN "superseded"
                          ELSE fact[u]]
            /\ missed' = (missed \/ /\ worker.what = "active" /\ ~worker.keyed
                                    /\ ~(ActiveFacts \subseteq worker.seen))
      BY <1>6, <2>3 DEF Persist
    <3>2. \A u \in Turns :
            fact'[u] = IF worker.what \in {"active", "held"} /\ u = worker.job.turn
                       THEN worker.what
                       ELSE IF u \in old /\ fact[u] # "forgotten" THEN "superseded"
                       ELSE fact[u]
      BY <3>1
    <3> SUFFICES ASSUME ~released, ~missed'
                 PROVE  \A t, u \in ActiveFacts' : t = u
      BY <2>1 DEF Slot, InHand
    <3>3. ~missed
      BY <3>1
    <3>4. /\ \A t, u \in worker.seen : t = u
          /\ \A t, u \in ActiveFacts : t = u
          /\ worker.keyed => ActiveFacts \subseteq worker.seen
      BY <2>1, <3>3 DEF Slot, InHand
    <3>5. CASE worker.what = "active"
      <4>1. ActiveFacts \subseteq worker.seen
        BY <3>1, <3>4, <3>5
      <4>2. ASSUME NEW u \in ActiveFacts
            PROVE  u \in old
        <5>1. u \in worker.seen /\ worker.seen # {} /\ worker.seen = {u}
          BY <3>4, <4>1
        <5>2. old \in {{o} : o \in worker.seen}
          BY <3>5, <5>1 DEF Collisions
        <5>3. QED
          BY <5>1, <5>2
      <4>3. ASSUME NEW u \in ActiveFacts'
            PROVE  u = worker.job.turn
        <5>1. u \in Turns /\ fact'[u] = "active"
          BY DEF ActiveFacts
        <5>2. fact[u] = "active" => u \in old
          BY <4>2, <5>1 DEF ActiveFacts
        <5>3. QED
          BY <3>2, <5>1, <5>2
      <4>4. QED
        BY <4>3
    <3>6. CASE worker.what # "active"
      <4>1. ActiveFacts' \subseteq ActiveFacts
        BY <3>2, <3>6 DEF ActiveFacts
      <4>2. QED
        BY <3>4, <4>1
    <3>7. QED
      BY <3>5, <3>6
  <2>4. QED
    BY <2>2, <2>3
<1>7. CASE Mark
  <2>1. UNCHANGED <<fact, released, missed>> /\ worker'.pc \notin {"seek", "persist"}
    BY <1>0, <1>7, AfterShape, IdleShape DEF Mark
  <2>2. QED
    BY <1>1, <2>1, SlotOnward
<1>8. CASE Count \/ Raise \/ Kill
  <2>1. UNCHANGED <<fact, released, missed>> /\ worker' = Idle
    BY <1>8 DEF Count, Raise, Kill
  <2>2. QED
    BY <1>1, <2>1, SlotOnward, IdleShape
<1>9. CASE Store
  <2>1. worker' = worker /\ missed' = missed /\ (~released' => ~released)
    <3>1. worker' = worker /\ missed' = missed
      BY <1>9 DEF Store, Forget, AskHold, SetHold, AskClear, ClearStore
    <3>2. released' = released \/ SetHold
      BY <1>9 DEF Store, Forget, AskHold, AskClear, ClearStore
    <3>3. SetHold => (released => released')
      BY DEF SetHold
    <3>4. QED
      BY <3>1, <3>2, <3>3
  <2>2. ASSUME ~released'
        PROVE  ActiveFacts' \subseteq ActiveFacts
    <3>1. CASE UNCHANGED <<fact, released>>
      BY <1>1, <3>1
    <3>2. CASE \E t \in Turns : Forget(t)
      BY <1>0, <3>2 DEF Forget, ActiveFacts
    <3>3. CASE SetHold
      <4>1. op.kind = "hold" /\ fact' = [fact EXCEPT ![op.turn] =
                IF @ \in {"forgotten", "cleared"} THEN @
                ELSE IF op.kind = "hold" THEN "held" ELSE "active"]
        BY <2>2, <3>3 DEF SetHold
      <4>2. \A u \in Turns : fact'[u] = fact[u] \/ fact'[u] = "held"
        BY <1>0, <4>1
      <4>3. QED
        BY <4>2 DEF ActiveFacts
    <3>4. CASE ClearStore
      <4>1. \A u \in Turns : fact'[u] \in {"none", "cleared"}
        BY <3>4 DEF ClearStore
      <4>2. QED
        BY <4>1 DEF ActiveFacts
    <3>5. QED
      BY <1>9, <3>1, <3>2, <3>3, <3>4 DEF Store, AskHold, AskClear
  <2>3. QED
    BY <2>1, <2>2, SlotOnward
<1>10. QED
  BY <1>2, <1>3, <1>4, <1>5, <1>6, <1>7, <1>8, <1>9 DEF Next, Work

\* The writer never leaves two usable facts in one slot, until a person releases a held
\* one, or a decision whose slot was not looked up is filed beside a fact it did not
\* recall (apply_decisions' collision seek, on rows read before the write).
THEOREM SlotIsUnambiguous == Spec => []SlotUnambiguous
<1>1. Init => Slot
  <2>1. ASSUME Init
        PROVE  ActiveFacts = {} /\ worker.pc = "idle"
    <3>1. \A t \in Turns : fact[t] = "none"
      BY <2>1 DEF Init
    <3>2. QED
      BY <2>1, <3>1, IdleShape DEF Init, ActiveFacts
  <2>2. QED
    BY <2>1 DEF Slot, InHand
<1>2. Base /\ Slot /\ [Next]_vars => Slot'
  BY SlotStep, MemoryAssumption
<1>3. Slot => SlotUnambiguous
  BY DEF Slot, SlotUnambiguous
<1>4. QED
  BY <1>1, <1>2, <1>3, BaseInvariant, PTL DEF Spec

-----------------------------------------------------------------------------
(* The fifth layer: what is left of a build *)

\* A turn of the build is in the queue, still to fan out, or in the worker's hand.
InWork(r, t) ==
  \/ TurnJob(r, t) \in Elems(queue)
  \/ worker.pc = "fan" /\ worker.job.run = r /\ t \in worker.left
  \/ worker.job = TurnJob(r, t)
ToDo(r) == {t \in Turns : InWork(r, t)}

\* The turns a build owes the user: those up to its cutoff that had a text when they were
\* frozen, have a user message, and carry no marker.
Owed(r) == {t \in 1 .. run[r].cutoff : t \notin marked \cup run[r].late \cup Orphans}

\* What is counted and what is to do never exceed the total; while they make it up, no
\* turn was lost, and every turn owed is still to do.
Covered(r) ==
  /\ Cardinality(ToDo(r)) + run[r].done <= run[r].total
  /\ Cardinality(ToDo(r)) + run[r].done = run[r].total => Owed(r) \subseteq ToDo(r)

Thorough(r) ==
  run[r].intact =>
    /\ Running(r) => Covered(r)
    /\ run[r].status = "completed" => Owed(r) = {}
    /\ worker.pc = "launch" /\ worker.job.run = r => Owed(r) \subseteq worker.left
    /\ worker.pc = "count" /\ worker.job.run = r => worker.job.turn \in marked \cup Orphans

\* A build owes what is eligible, but the replies that are excused.
LEMMA OwedOrExcused ==
  ASSUME NEW r \in Runs
  PROVE  Eligible(r) \subseteq Owed(r) \cup run[r].late \cup Orphans
BY DEF Eligible, Owed

\* When the turns of a build are frozen, it owes no others.
LEMMA OwedWhenFrozen ==
  ASSUME NEW r \in Runs, run'[r].late = blank \cap 1 .. run[r].cutoff,
         run'[r].cutoff = run[r].cutoff, marked' = marked
  PROVE  Owed(r)' \subseteq Eligible(r)
BY DEF Eligible, Owed

\* The turns left of a build are finitely many.
LEMMA ToDoFinite ==
  ASSUME MemoryAssumption, NEW r
  PROVE  /\ IsFiniteSet(ToDo(r)) /\ Cardinality(ToDo(r)) \in Nat /\ ToDo(r) \subseteq Turns
<1>1. IsFiniteSet(Turns)
  BY FS_Interval DEF MemoryAssumption, Turns
<1>2. ToDo(r) \subseteq Turns
  BY DEF ToDo
<1>3. QED
  BY <1>1, <1>2, FS_Subset, FS_CardinalityType

\* A turn job is that of its build and its turn.
LEMMA TurnJobOf ==
  ASSUME NEW r, NEW t
  PROVE  /\ TurnJob(r, t).kind = "turn" /\ TurnJob(r, t).run = r /\ TurnJob(r, t).turn = t
         /\ TurnJob(r, t) # NoJob /\ Idle.job = NoJob /\ Idle.pc = "idle"
BY DEF TurnJob, NoJob, Idle

\* A running build stays covered when nothing is counted, nothing new is to do, and no
\* turn comes to be owed.
LEMMA CoveredOnward ==
  ASSUME MemoryAssumption, NEW r \in Runs, run \in [Runs -> RunRow], Covered(r),
         ToDo(r)' \subseteq ToDo(r), Owed(r)' \subseteq Owed(r),
         run'[r].done = run[r].done, run'[r].total = run[r].total
  PROVE  Covered(r)'
<1> DEFINE n == Cardinality(ToDo(r))
           m == Cardinality(ToDo(r)')
           d == run[r].done
           b == run[r].total
<1>1. IsFiniteSet(ToDo(r)) /\ n \in Nat
  BY ToDoFinite
<1>2. /\ IsFiniteSet(ToDo(r)') /\ m \in Nat /\ m <= n
      /\ n = m => ToDo(r)' = ToDo(r)
  BY <1>1, FS_Subset, FS_CardinalityType
<1>3. d \in Nat /\ b \in Nat
  BY RowFields
<1>4. n + d <= b /\ (n + d = b => Owed(r) \subseteq ToDo(r))
  BY DEF Covered
<1>5. m + d <= b /\ (m + d = b => Owed(r)' \subseteq ToDo(r)')
  <2> HIDE DEF n, m, d, b
  <2>1. m + d <= b /\ (m + d = b => m = n /\ n + d = b)
    BY <1>1, <1>2, <1>3, <1>4
  <2>2. QED
    BY <1>2, <1>4, <2>1
<1>6. QED
  BY <1>5 DEF Covered

\* A step that counts nothing, launches nothing and clears nothing keeps a build
\* thorough.
LEMMA ThoroughOnward ==
  ASSUME MemoryAssumption, NEW r \in Runs, run \in [Runs -> RunRow], Thorough(r),
         run'[r].intact = run[r].intact, run'[r].done = run[r].done,
         run'[r].total = run[r].total, run'[r].cutoff = run[r].cutoff,
         run'[r].late = run[r].late,
         run'[r].status = "running" => run[r].status = "running",
         run'[r].status = "completed" => run[r].status = "completed",
         marked \subseteq marked', ToDo(r)' \subseteq ToDo(r),
         run[r].intact /\ worker'.pc = "launch" /\ worker'.job.run = r =>
           Owed(r) \subseteq worker'.left,
         run[r].intact /\ worker'.pc = "count" /\ worker'.job.run = r =>
           worker'.job.turn \in marked' \cup Orphans
  PROVE  Thorough(r)'
<1>1. Owed(r)' \subseteq Owed(r)
  BY DEF Owed
<1>2. Running(r)' => Running(r)
  BY DEF Running
<1>3. Running(r) /\ Covered(r) => Covered(r)'
  BY <1>1, CoveredOnward
<1>4. QED
  BY <1>1, <1>2, <1>3 DEF Thorough

\* A request keeps every build thorough: it completes one only when nothing was
\* eligible, and so nothing owed.
LEMMA ThoroughRequest ==
  ASSUME MemoryAssumption, Base, Ordered, Ordered', NEW r \in Runs, Request(r),
         NEW q \in Runs, Thorough(q)
  PROVE  Thorough(q)'
<1>0. /\ queue \in Seq(Jobs) /\ run \in [Runs -> RunRow] /\ newest \in Nat
      /\ Orderly(r) /\ Orderly(r)' /\ blank \subseteq Turns
  <2>1. newest \in 0 .. MaxTurn /\ blank \subseteq 1 .. newest /\ MaxTurn \in Nat
    BY DEF Base, TypeOK, MemoryAssumption
  <2>2. newest \in Nat /\ blank \subseteq Turns
    BY <2>1 DEF Turns
  <2>3. QED
    BY <2>2 DEF Base, TypeOK, Ordered
<1>1. /\ UNCHANGED <<worker, marked>>
      /\ queue' = queue \/ queue' = Append(queue, LaunchJob(r))
  BY DEF Request, AskBuild, CreateRun, CountTurns, EnqueueLaunch, StopRun, KillRequest
<1>2. Cardinality(Eligible(r)) \in Nat /\ IsFiniteSet(Eligible(r))
  BY <1>0, EligibleFinite DEF Base
<1>3. OthersKept(r)
  BY <1>0, <1>2, AskBuildRow, CreateRunRow, CountTurnsRow, EnqueueLaunchRow, StopRunRow,
     KillRequestRow DEF Request
<1>4. ToDo(q)' \subseteq ToDo(q)
  <2>1. LaunchJob(r) \in Jobs /\ LaunchJob(r).kind = "launch"
    BY DEF Jobs, LaunchJob
  <2>2. Elems(Append(queue, LaunchJob(r))) = Elems(queue) \cup {LaunchJob(r)}
    BY <1>0, <2>1, ElemsAppend
  <2>3. \A t \in Turns : TurnJob(q, t) \in Elems(queue') => TurnJob(q, t) \in Elems(queue)
    <3>1. \A t \in Turns : TurnJob(q, t) # LaunchJob(r)
      BY <2>1, TurnJobOf
    <3>2. Elems(queue') \subseteq Elems(queue) \cup {LaunchJob(r)}
      BY <1>1, <2>2
    <3>3. QED
      BY <3>1, <3>2
  <2>4. QED
    BY <1>1, <2>3 DEF ToDo, InWork
<1>5. CASE q # r
  <2>1. run'[q] = run[q]
    BY <1>3, <1>5 DEF OthersKept
  <2>2. QED
    BY <1>0, <1>1, <1>4, <2>1, ThoroughOnward DEF Thorough
<1>6. CASE q = r
  <2>1. CASE run[r].req = "idle" /\ run[r].status # "none"
    <3>1. StopRun(r)
      <4>1. run[r] # Unrequested
        BY <2>1 DEF Unrequested
      <4>2. QED
        BY <2>1, <4>1 DEF Request, AskBuild, CreateRun, CountTurns, EnqueueLaunch, KillRequest
    <3>2. /\ run'[r].status = "stopped" /\ run'[r].cutoff = run[r].cutoff
          /\ run'[r].intact = run[r].intact /\ run'[r].late = run[r].late
      BY <1>0, <3>1, StopRunRow
    <3>3. Owed(r)' = Owed(r)
      BY <1>1, <3>2 DEF Owed
    <3>4. QED
      BY <1>1, <1>6, <3>2, <3>3 DEF Thorough, Running
  <2>2. CASE ~(run[r].req = "idle" /\ run[r].status # "none")
    <3>1. worker.job.run # r /\ ~Running(r) /\ worker' = worker
      BY <1>0, <1>1, <2>2 DEF Orderly, Awaited, Unlaunched
    <3>2. run'[r].status # "running"
      <4>1. run[r].status # "running"
        BY <3>1 DEF Running
      <4>2. QED
        BY <1>0, <1>2, <4>1, AskBuildRow, CreateRunRow, CountTurnsRow, EnqueueLaunchRow, StopRunRow,
           KillRequestRow DEF Request
    <3>3. ASSUME run'[r].status = "completed", run'[r].intact
          PROVE  Owed(r)' = {}
      <4>1. CASE AskBuild(r)
        BY <1>0, <3>3, <4>1, AskBuildRow
      <4>2. CASE CreateRun(r)
        BY <1>0, <3>3, <4>2, CreateRunRow
      <4>3. CASE CountTurns(r)
        <5>1. run'[r].cutoff = run[r].cutoff /\ run[r].intact
          BY <1>0, <1>2, <3>3, <4>3, CountTurnsRow
        <5>2. CASE Cardinality(Eligible(r)) = 0
          <6>1. run'[r].late = blank \cap 1 .. run[r].cutoff
            BY <1>0, <1>2, <4>3, <5>2, CountTurnsRow
          <6>2. Eligible(r) = {}
            BY <1>2, <5>2, FS_EmptySet
          <6>3. QED
            BY <1>1, <5>1, <6>1, <6>2, OwedWhenFrozen
        <5>3. CASE Cardinality(Eligible(r)) # 0
          <6>1. run[r].status = "completed" /\ run'[r].late = run[r].late
            BY <1>0, <1>2, <3>3, <4>3, <5>3, CountTurnsRow
          <6>2. QED
            BY <1>1, <1>6, <5>1, <6>1 DEF Thorough, Owed
        <5>4. QED
          BY <5>2, <5>3
      <4>4. CASE EnqueueLaunch(r) \/ StopRun(r) \/ KillRequest(r)
        <5>1. /\ run[r].status = "completed" /\ run[r].intact
              /\ run'[r].cutoff = run[r].cutoff /\ run'[r].late = run[r].late
          BY <1>0, <3>3, <4>4, EnqueueLaunchRow, StopRunRow, KillRequestRow
        <5>2. QED
          BY <1>1, <1>6, <5>1 DEF Thorough, Owed
      <4>5. QED
        BY <4>1, <4>2, <4>3, <4>4 DEF Request
    <3>4. QED
      BY <1>6, <3>1, <3>2, <3>3 DEF Thorough, Running
  <2>3. QED
    BY <2>1, <2>2
<1>7. QED
  BY <1>5, <1>6

\* The launch freezes the turns of the build, all of them in hand.
LEMMA ThoroughLaunch ==
  ASSUME MemoryAssumption, Base, Ordered, NEW r \in Runs, Launched(r), worker.pc = "launch",
         worker.job.run = r, Thorough(r), UNCHANGED <<marked, queue>>,
         worker'.pc = "fan", worker'.job = worker.job, worker'.left = worker.left
  PROVE  Thorough(r)'
<1>0. /\ run[r].done = 0 /\ \A j \in Elems(queue) : j.run # r
      /\ worker.job.kind = "launch" /\ worker.left \subseteq Turns /\ IsFiniteSet(worker.left)
      /\ Cardinality(worker.left) \in Nat
  <2>1. Orderly(r) /\ Unlaunched(r) /\ r # NoRun
    BY DEF Ordered, Unlaunched, Runs, NoRun
  <2>2. \A j \in Elems(queue) : j.run # r
    BY <2>1 DEF Ordered, BehindWorker, Follows
  <2>3. newest \in Nat /\ WorkerKnown /\ worker.left \subseteq Turns
    BY DEF Base, TypeOK, Worker, MemoryAssumption
  <2>4. QED
    BY <2>1, <2>2, <2>3, LeftFinite DEF Orderly, WorkerKnown
<1>1. ToDo(r)' = worker.left
  <2>1. \A t \in Turns : TurnJob(r, t) \notin Elems(queue') /\ TurnJob(r, t) # worker'.job
    BY <1>0, TurnJobOf
  <2>2. QED
    BY <1>0, <2>1 DEF ToDo, InWork
<1>2. Owed(r)' = Owed(r)
  BY DEF Launched, Owed
<1>3. /\ run'[r].intact = run[r].intact /\ run'[r].total = Cardinality(worker.left)
      /\ run'[r].done = 0
      /\ run'[r].status = IF worker.left = {} THEN "completed" ELSE "running"
  BY <1>0 DEF Launched
<1>4. run[r].intact => Owed(r) \subseteq worker.left
  BY DEF Thorough
<1>5. run[r].intact => Covered(r)'
  <2>1. Cardinality(ToDo(r)') + run'[r].done = run'[r].total
    BY <1>0, <1>1, <1>3
  <2>2. run'[r].total \in Nat
    BY <1>0, <1>3
  <2>3. QED
    BY <1>1, <1>2, <1>4, <2>1, <2>2 DEF Covered
<1>6. QED
  BY <1>2, <1>3, <1>4, <1>5 DEF Thorough

\* Taking a member out of a finite set makes it smaller by one.
LEMMA OneLess ==
  ASSUME NEW S, NEW x \in S, IsFiniteSet(S)
  PROVE  IsFiniteSet(S \ {x}) /\ Cardinality(S \ {x}) = Cardinality(S) - 1
  BY FS_RemoveElement

\* A counted turn was marked or is an orphan, so that it is neither to do nor owed; when
\* all are counted nothing is.
LEMMA ThoroughCount ==
  ASSUME MemoryAssumption, Base, Ordered, NEW r \in Runs, worker.pc = "count", Count,
         worker.job.run = r, Thorough(r), run[r].status = "running"
  PROVE  Thorough(r)'
<1> DEFINE t == worker.job.turn
           n == Cardinality(ToDo(r))
           m == Cardinality(ToDo(r)')
           k == Cardinality(ToDo(r) \ {t})
           d == run[r].done
           b == run[r].total
<1>0. /\ run \in [Runs -> RunRow] /\ worker.job \in Jobs /\ r # NoRun
      /\ worker' = Idle /\ UNCHANGED <<marked, queue>>
  BY DEF Base, TypeOK, Worker, Runs, NoRun, Count
<1>1. worker.job = TurnJob(r, t) /\ t \in Turns
  BY <1>0, JobShape DEF Base, WorkerKnown
<1>2. /\ run'[r].done = d + 1 /\ run'[r].total = b /\ run'[r].intact = run[r].intact
      /\ run'[r].status = IF d + 1 >= b THEN "completed" ELSE "running"
      /\ run'[r].cutoff = run[r].cutoff /\ run'[r].late = run[r].late
  BY <1>0, CountRow
<1>3. Owed(r)' = Owed(r)
  BY <1>0, <1>2 DEF Owed
<1>4. ToDo(r)' \subseteq ToDo(r) \ {t} /\ t \in ToDo(r)
  <2>1. \A j \in Elems(queue) : j.run = r => t < j.turn
    BY <1>0 DEF Ordered, BehindWorker, Follows
  <2>2. TurnJob(r, t) \notin Elems(queue')
    <3>1. t \in Nat
      BY <1>1 DEF Turns
    <3>2. QED
      BY <1>0, <2>1, <3>1, TurnJobOf
  <2>3. \A u \in Turns : TurnJob(r, u) # Idle.job
    BY TurnJobOf
  <2>4. ASSUME NEW u \in ToDo(r)'
        PROVE  u \in Turns /\ TurnJob(r, u) \in Elems(queue')
    BY <1>0, <2>3, IdleShape DEF ToDo, InWork
  <2>5. ToDo(r)' \subseteq ToDo(r) \ {t}
    BY <1>0, <2>2, <2>4 DEF ToDo, InWork
  <2>6. QED
    BY <1>1, <2>5 DEF ToDo, InWork
<1>5. /\ IsFiniteSet(ToDo(r)) /\ n \in Nat
      /\ IsFiniteSet(ToDo(r) \ {t}) /\ k = n - 1
      /\ m \in Nat /\ m <= k /\ (m = k => ToDo(r)' = ToDo(r) \ {t})
  <2>1. IsFiniteSet(ToDo(r)) /\ n \in Nat
    BY ToDoFinite
  <2>2. IsFiniteSet(ToDo(r) \ {t}) /\ k = n - 1
    BY <1>4, <2>1, OneLess
  <2>3. /\ IsFiniteSet(ToDo(r)') /\ m <= k /\ (k = m => ToDo(r)' = ToDo(r) \ {t})
    BY <1>4, <2>2, FS_Subset
  <2>4. m \in Nat
    BY <2>3, FS_CardinalityType
  <2>5. QED
    BY <2>1, <2>2, <2>3, <2>4
<1>6. d \in Nat /\ b \in Nat
  BY <1>0, RowFields
<1>7. CASE run[r].intact
  <2>1. /\ n + d <= b /\ (n + d = b => Owed(r) \subseteq ToDo(r)) /\ t \in marked \cup Orphans
    BY <1>7 DEF Thorough, Covered, Running
  <2>2. t \notin Owed(r)
    BY <2>1 DEF Owed
  <2>3. /\ m + (d + 1) <= b
        /\ m + (d + 1) = b => n + d = b /\ m = k
        /\ d + 1 >= b => n + d = b /\ n = 1 /\ m = k /\ m = 0
    <3>1. n \in Nat /\ m \in Nat /\ d \in Nat /\ b \in Nat /\ k = n - 1 /\ m <= k /\ n + d <= b
      <4>1. n \in Nat /\ k = n - 1 /\ m \in Nat /\ m <= k
        BY <1>5
      <4>2. d \in Nat /\ b \in Nat
        BY <1>6
      <4>3. n + d <= b
        BY <2>1
      <4>4. QED
        BY <4>1, <4>2, <4>3
    <3> HIDE DEF n, m, k, d, b
    <3>2. m + (d + 1) <= b
      BY <3>1
    <3>3. m + (d + 1) = b => n + d = b /\ m = k
      BY <3>1
    <3>4. d + 1 >= b => n + d = b /\ n = 1 /\ m = k /\ m = 0
      BY <3>1
    <3>5. QED
      BY <3>2, <3>3, <3>4
  <2>4. Covered(r)'
    <3>1. m + (d + 1) = b => Owed(r) \subseteq ToDo(r)'
      BY <1>5, <2>1, <2>2, <2>3
    <3>2. m + run'[r].done <= run'[r].total
          /\ (m + run'[r].done = run'[r].total => Owed(r)' \subseteq ToDo(r)')
      BY <1>2, <1>3, <2>3, <3>1
    <3>3. QED
      BY <3>2 DEF Covered, m
  <2>5. d + 1 >= b => Owed(r)' = {}
    <3>1. ASSUME d + 1 >= b
          PROVE  Owed(r)' = {}
      <4>1. m = 0 /\ ToDo(r)' = ToDo(r) \ {t} /\ Owed(r) \subseteq ToDo(r)
        BY <1>5, <2>1, <2>3, <3>1
      <4>2. IsFiniteSet(ToDo(r)') /\ ToDo(r)' = {}
        BY <1>5, <4>1, FS_EmptySet DEF m
      <4>3. QED
        BY <1>3, <2>2, <4>1, <4>2
    <3>2. QED
      BY <3>1
  <2>6. QED
    BY <1>0, <1>2, <2>4, <2>5, IdleShape DEF Thorough
<1>8. CASE ~run[r].intact
  BY <1>2, <1>8 DEF Thorough
<1>9. QED
  BY <1>7, <1>8

\* A worker that fails the build of its job, if it is still active, and lets go.
LEMMA ThoroughFail ==
  ASSUME MemoryAssumption, NEW q \in Runs, run \in [Runs -> RunRow], Thorough(q),
         worker' = Idle, UNCHANGED <<marked, queue>>,
         worker.job.run \in Runs \cup {NoRun}, run' = Fail(worker.job.run)
  PROVE  Thorough(q)'
<1>1. /\ run'[q].status = run[q].status \/ run'[q].status = "failed"
      /\ run'[q].cutoff = run[q].cutoff /\ run'[q].total = run[q].total
      /\ run'[q].done = run[q].done /\ run'[q].intact = run[q].intact
      /\ run'[q].late = run[q].late
  BY FailEffect
<1>2. ToDo(q)' \subseteq ToDo(q)
  BY TurnJobOf DEF ToDo, InWork
<1>3. QED
  BY <1>1, <1>2, ThoroughOnward, IdleShape

\* Every step keeps every build thorough.
LEMMA ThoroughStep ==
  ASSUME MemoryAssumption, Base, Base', Ordered, Ordered', \A r \in Runs : Thorough(r),
         [Next]_vars, NEW q \in Runs
  PROVE  Thorough(q)'
<1>0. /\ queue \in Seq(Jobs) /\ worker \in Worker /\ worker.job \in Jobs /\ NoRun \notin Runs
      /\ run \in [Runs -> RunRow] /\ newest \in Nat /\ Thorough(q) /\ blank \subseteq Turns
  <2>1. newest \in 0 .. MaxTurn /\ blank \subseteq 1 .. newest /\ MaxTurn \in Nat
    BY DEF Base, TypeOK, MemoryAssumption
  <2>2. newest \in Nat /\ blank \subseteq Turns
    BY <2>1 DEF Turns
  <2>3. QED
    BY <2>2 DEF Base, TypeOK, Worker, Runs, NoRun
<1>1. CASE UNCHANGED vars
  BY <1>0, <1>1 DEF vars, Thorough, Running, Covered, ToDo, InWork, Owed
<1>2. CASE Replies
  <2>1. /\ UNCHANGED <<marked, run, worker>>
        /\ queue' = queue \/ \E t \in Turns : queue' = Append(queue, LiveJob(t))
    BY <1>2, RepliesEffect
  <2>2. ASSUME NEW t \in Turns, TurnJob(q, t) \in Elems(queue')
        PROVE  TurnJob(q, t) \in Elems(queue)
    <3>1. CASE queue' = queue
      BY <2>2, <3>1
    <3>2. ASSUME NEW u \in Turns, queue' = Append(queue, LiveJob(u))
          PROVE  TurnJob(q, t) \in Elems(queue)
      <4>1. LiveJob(u) \in Jobs /\ LiveJob(u).kind = "live"
        BY NewLiveJob
      <4>2. Elems(Append(queue, LiveJob(u))) = Elems(queue) \cup {LiveJob(u)}
        BY <1>0, <4>1, ElemsAppend
      <4>3. TurnJob(q, t) # LiveJob(u)
        BY <4>1, TurnJobOf
      <4>4. QED
        BY <2>2, <3>2, <4>2, <4>3
    <3>3. QED
      BY <2>1, <3>1, <3>2
  <2>3. ToDo(q)' \subseteq ToDo(q)
    BY <2>1, <2>2 DEF ToDo, InWork
  <2>4. QED
    BY <1>0, <2>1, <2>3, ThoroughOnward DEF Thorough
<1>3. CASE \E r \in Runs : Request(r)
  BY <1>0, <1>3, ThoroughRequest
<1>4. CASE TakeLaunch
  <2>1. /\ UNCHANGED marked /\ queue # <<>> /\ queue' = Tail(queue)
        /\ Head(queue).kind = "launch" /\ worker.pc = "idle"
    BY <1>4 DEF TakeLaunch
  <2>2. PICK h \in Jobs : h = Head(queue) /\ h.kind = "launch" /\ h.run \in Runs
    BY <1>0, <2>1, ElemsTail, JobShape
  <2>3. Elems(queue') \subseteq Elems(queue)
    BY <1>0, <2>1, ElemsTail
  <2>4. \/ run' = run /\ worker' = worker
        \/ /\ worker'.pc = "launch" /\ worker'.job = h /\ worker'.left = Eligible(h.run)
           /\ OthersKept(h.run) /\ run[h.run].status = "queued"
           /\ run'[h.run].late = blank \cap 1 .. run[h.run].cutoff
           /\ run'[h.run].status = run[h.run].status /\ run'[h.run].cutoff = run[h.run].cutoff
    <3>1. CASE run' = run /\ worker' = worker
      BY <3>1
    <3>2. CASE ~(run' = run /\ worker' = worker)
      <4>1. /\ worker' = [Idle EXCEPT !.pc = "launch", !.job = h, !.left = Eligible(h.run)]
            /\ OthersKept(h.run) /\ run[h.run].status = "queued"
            /\ run'[h.run].late = blank \cap 1 .. run[h.run].cutoff
            /\ run'[h.run].status = run[h.run].status /\ run'[h.run].cutoff = run[h.run].cutoff
        BY <1>0, <1>4, <2>2, <3>2, TakeLaunchRow
      <4>2. worker'.pc = "launch" /\ worker'.job = h /\ worker'.left = Eligible(h.run)
        BY <4>1 DEF Idle
      <4>3. QED
        BY <4>1, <4>2
    <3>3. QED
      BY <3>1, <3>2
  <2>5. CASE run' = run /\ worker' = worker
    <3>1. ToDo(q)' \subseteq ToDo(q)
      BY <2>3, <2>5 DEF ToDo, InWork
    <3>2. QED
      BY <1>0, <2>1, <2>5, <3>1, ThoroughOnward DEF Thorough
  <2>6. CASE ~(run' = run /\ worker' = worker)
    <3>1. worker'.pc = "launch" /\ worker'.job = h
      BY <2>4, <2>6
    <3>2. CASE q = h.run
      <4>1. ~Running(q)' /\ run'[q].status # "completed"
        BY <2>4, <2>6, <3>2 DEF Running
      <4>2. Owed(q)' \subseteq worker'.left
        BY <2>1, <2>4, <2>6, <3>2, OwedWhenFrozen
      <4>3. QED
        BY <3>1, <4>1, <4>2 DEF Thorough
    <3>3. CASE q # h.run
      <4>1. run'[q] = run[q]
        BY <2>4, <2>6, <3>3 DEF OthersKept
      <4>2. ToDo(q)' \subseteq ToDo(q)
        <5>1. \A t \in Turns : TurnJob(q, t) # h
          BY <2>2, TurnJobOf
        <5>2. QED
          BY <2>3, <3>1, <5>1 DEF ToDo, InWork
      <4>3. QED
        BY <1>0, <2>1, <3>1, <3>3, <4>1, <4>2, ThoroughOnward
    <3>4. QED
      BY <3>2, <3>3
  <2>7. QED
    BY <2>5, <2>6
<1>5. CASE Launch
  <2>1. PICK r \in Runs : worker.pc = "launch" /\ UNCHANGED <<marked, queue>> /\ r = worker.job.run
    BY <1>0, <1>5, JobShape DEF Launch, Base, WorkerKnown
  <2>2. Len(ledger) \in Nat /\ Cardinality(worker.left) \in Nat
    <3>1. Len(ledger) \in Nat
      BY DEF Base, TypeOK
    <3>2. QED
      BY <1>0, <3>1, LeftFinite DEF Base
  <2>3. CASE worker' = Idle /\ run' = run
    <3>1. ToDo(q)' \subseteq ToDo(q)
      BY <2>1, <2>3, TurnJobOf DEF ToDo, InWork
    <3>2. QED
      BY <1>0, <2>1, <2>3, <3>1, ThoroughOnward, IdleShape
  <2>4. CASE /\ worker' = [worker EXCEPT !.pc = "fan"]
             /\ Launched(r)
    <3>1. worker'.pc = "fan" /\ worker'.job = worker.job /\ worker'.left = worker.left
      BY <1>0, <2>4 DEF Worker
    <3>2. CASE q = r
      BY <2>1, <2>4, <3>1, <3>2, ThoroughLaunch
    <3>3. CASE q # r
      <4>1. run'[q] = run[q] /\ ~Running(q)
        BY <2>1, <2>4, <3>3 DEF Launched, OthersKept, Ordered, Orderly
      <4>2. ~Running(q)' /\ Owed(q)' = Owed(q)
        BY <2>1, <4>1 DEF Running, Owed
      <4>3. QED
        BY <1>0, <3>1, <4>1, <4>2 DEF Thorough
    <3>4. QED
      BY <3>2, <3>3
  <2>5. QED
    BY <1>0, <1>5, <2>1, <2>2, <2>3, <2>4, LaunchRow
<1>6. CASE FanOut
  <2>1. PICK r \in Runs : worker.pc = "fan" /\ r = worker.job.run /\ UNCHANGED <<marked, run>>
    BY <1>0, <1>6, JobShape DEF FanOut, Base, WorkerKnown
  <2>2. CASE worker.left = {}
    <3>1. worker' = Idle /\ queue' = queue
      BY <1>6, <2>2 DEF FanOut
    <3>2. ToDo(q)' \subseteq ToDo(q)
      BY <3>1, TurnJobOf DEF ToDo, InWork
    <3>3. QED
      BY <1>0, <2>1, <3>1, <3>2, ThoroughOnward, IdleShape
  <2>3. CASE worker.left # {}
    <3>1. PICK t \in worker.left :
            /\ queue' = Append(queue, TurnJob(r, t))
            /\ worker' = [worker EXCEPT !.left = @ \ {t}]
      <4>1. Oldest(worker.left) \in worker.left
        BY <1>0, <2>3, OldestFirst DEF Base, WorkerKnown
      <4>2. QED
        BY <1>6, <2>1, <2>3, <4>1 DEF FanOut
    <3>2. t \in Turns
      BY <1>0 DEF Worker
    <3>3. worker'.pc = "fan" /\ worker'.job = worker.job /\ worker'.left \subseteq worker.left
      BY <1>0, <2>1, <3>1 DEF Worker
    <3>4. TurnJob(r, t) \in Jobs
      BY <3>2, NewJobs
    <3>5. Elems(Append(queue, TurnJob(r, t))) = Elems(queue) \cup {TurnJob(r, t)}
      BY <1>0, <3>4, ElemsAppend
    <3>6. ToDo(q)' \subseteq ToDo(q)
      <4>1. ASSUME NEW u \in Turns, TurnJob(q, u) \in Elems(queue')
            PROVE  InWork(q, u)
        <5>1. CASE TurnJob(q, u) \in Elems(queue)
          BY <5>1 DEF InWork
        <5>2. CASE TurnJob(q, u) \notin Elems(queue)
          <6>1. TurnJob(q, u) = TurnJob(r, t)
            BY <3>1, <3>5, <4>1, <5>2
          <6>2. q = r /\ u = t
            BY <6>1, TurnJobOf
          <6>3. QED
            BY <2>1, <6>2 DEF InWork
        <5>3. QED
          BY <5>1, <5>2
      <4>2. QED
        BY <2>1, <3>3, <4>1 DEF ToDo, InWork
    <3>7. QED
      BY <1>0, <2>1, <3>3, <3>6, ThoroughOnward
  <2>4. QED
    BY <2>2, <2>3
<1>7. CASE TakeTurn \/ TakeLive
  <2>1. /\ UNCHANGED run /\ worker.pc = "idle" /\ queue # <<>>
        /\ Head(queue).kind \in {"turn", "live"}
        /\ queue' = Tail(queue) \/ queue' = Append(Tail(queue), Head(queue))
        /\ UNCHANGED <<worker, marked>> \/ WriteTurn(Head(queue))
    BY <1>7 DEF TakeTurn, TakeLive
  <2>2. PICK h \in Jobs : h = Head(queue) /\ h \in Elems(queue) /\ h.kind \in {"turn", "live"}
                          /\ h.turn <= newest
    BY <2>1, QueueEffect DEF Base, JobsKnown
  <2>3. Elems(queue') \subseteq Elems(queue)
    BY <2>1, QueueEffect
  <2>4. /\ marked \subseteq marked'
        /\ \/ worker' = worker \/ worker' = Idle
           \/ worker'.pc = "count" /\ worker'.job = h /\ h.turn \in marked' \cup Orphans
           \/ worker'.pc = "seek" /\ worker'.job = h
    <3>1. CASE UNCHANGED <<worker, marked>>
      BY <3>1
    <3>2. CASE WriteTurn(h)
      BY <2>2, <3>2, WriteTurnEffect
    <3>3. QED
      BY <2>1, <2>2, <3>1, <3>2
  <2>5. ToDo(q)' \subseteq ToDo(q)
    BY <2>1, <2>2, <2>3, <2>4, TurnJobOf DEF ToDo, InWork
  <2>6. QED
    BY <1>0, <2>1, <2>4, <2>5, ThoroughOnward, IdleShape
<1>8. CASE Seek
  <2>1. UNCHANGED <<marked, run, queue>> /\ worker'.pc \in {"mark", "persist"}
        /\ worker'.job = worker.job
    BY <1>0, <1>8 DEF Seek, Worker
  <2>2. ToDo(q)' \subseteq ToDo(q)
    BY <2>1 DEF ToDo, InWork
  <2>3. QED
    BY <1>0, <2>1, <2>2, ThoroughOnward
<1>9. CASE Persist
  <2>1. worker.job.run \in Runs \cup {NoRun} /\ UNCHANGED <<marked, queue>>
    BY <1>0, <1>9, JobShape DEF Persist
  <2>2. \/ run' = Fail(worker.job.run) /\ worker' = Idle
        \/ run' = run /\ worker' = [Idle EXCEPT !.pc = "mark", !.job = worker.job]
    BY <1>9 DEF Persist
  <2>3. CASE run' = Fail(worker.job.run) /\ worker' = Idle
    BY <1>0, <2>1, <2>3, ThoroughFail
  <2>4. CASE run' = run /\ worker' = [Idle EXCEPT !.pc = "mark", !.job = worker.job]
    <3>1. worker'.pc = "mark" /\ worker'.job = worker.job
      BY <2>4 DEF Idle
    <3>2. ToDo(q)' \subseteq ToDo(q)
      BY <2>1, <3>1 DEF ToDo, InWork
    <3>3. QED
      BY <1>0, <2>1, <2>4, <3>1, <3>2, ThoroughOnward
  <2>5. QED
    BY <2>2, <2>3, <2>4
<1>10. CASE Mark
  <2>1. UNCHANGED <<run, queue>> /\ marked' = marked \cup {worker.job.turn}
    BY <1>10 DEF Mark
  <2>2. worker' = Idle \/ (worker'.pc = "count" /\ worker'.job = worker.job)
    BY <1>0, <1>10, AfterShape DEF Mark
  <2>3. ToDo(q)' \subseteq ToDo(q)
    BY <2>1, <2>2, TurnJobOf DEF ToDo, InWork
  <2>4. QED
    BY <1>0, <2>1, <2>2, <2>3, ThoroughOnward, IdleShape
<1>11. CASE Count
  <2>1. PICK r \in Runs : worker.pc = "count" /\ r = worker.job.run /\ worker' = Idle
                          /\ UNCHANGED <<marked, queue>>
    BY <1>0, <1>11, JobShape DEF Count, Base, WorkerKnown
  <2>2. CASE run[r].status = "running" /\ q = r
    BY <1>0, <1>11, <2>1, <2>2, ThoroughCount
  <2>3. CASE ~(run[r].status = "running" /\ q = r)
    <3>1. run'[q] = run[q]
      BY <1>0, <1>11, <2>1, <2>3, CountRow DEF OthersKept
    <3>2. ToDo(q)' \subseteq ToDo(q)
      BY <2>1, TurnJobOf DEF ToDo, InWork
    <3>3. QED
      BY <1>0, <2>1, <3>1, <3>2, ThoroughOnward, IdleShape
  <2>4. QED
    BY <2>2, <2>3
<1>12. CASE Raise
  <2>1. /\ worker.job.run \in Runs \cup {NoRun} /\ UNCHANGED <<marked, queue>>
        /\ run' = Fail(worker.job.run) /\ worker' = Idle
    BY <1>0, <1>12, JobShape DEF Raise
  <2>2. QED
    BY <1>0, <2>1, ThoroughFail
<1>13. CASE Kill
  <2>1. UNCHANGED <<marked, queue>> /\ worker' = Idle
    BY <1>13 DEF Kill
  <2>2. ToDo(q)' \subseteq ToDo(q)
    BY <2>1, TurnJobOf DEF ToDo, InWork
  <2>3. QED
    BY <1>0, <1>13, <2>1, <2>2, KillRow, ThoroughOnward, IdleShape
<1>14. CASE Store
  <2>1. UNCHANGED <<queue, worker>> /\ (ClearStore \/ UNCHANGED <<run, marked>>)
    BY <1>14 DEF Store, Forget, AskHold, SetHold, AskClear, ClearStore
  <2>2. CASE UNCHANGED <<run, marked>>
    BY <1>0, <2>1, <2>2 DEF Thorough, Running, Covered, ToDo, InWork, Owed
  <2>3. CASE ClearStore
    <3>1. CASE run[q] = Unrequested
      <4>1. run[q].status = "none" /\ run'[q].status = "none"
        <5>1. run[q].status = "none"
          BY <3>1 DEF Unrequested
        <5>2. QED
          BY <1>0, <2>3, <5>1, ClearRow
      <4>2. worker'.job.run # q
        BY <2>1, <4>1 DEF Ordered, Orderly, Awaited
      <4>3. QED
        BY <4>1, <4>2 DEF Thorough, Running
    <3>2. CASE run[q] # Unrequested
      <4>1. run'[q].intact = FALSE
        BY <1>0, <2>3, <3>2, ClearRow
      <4>2. QED
        BY <4>1 DEF Thorough
    <3>3. QED
      BY <3>1, <3>2
  <2>4. QED
    BY <2>1, <2>2, <2>3
<1>15. QED
  BY <1>1, <1>2, <1>3, <1>4, <1>5, <1>6, <1>7, <1>8, <1>9, <1>10, <1>11, <1>12, <1>13, <1>14
  DEF Next, Work

\* The fifth layer holds in every state.
LEMMA ThoroughInvariant == Spec => [](\A r \in Runs : Thorough(r))
<1>1. Init => \A r \in Runs : Thorough(r)
  <2>1. ASSUME Init, NEW r \in Runs
        PROVE  run[r].status = "none" /\ worker.pc = "idle"
    BY <2>1, IdleShape DEF Init, Unrequested
  <2>2. QED
    BY <2>1 DEF Thorough, Running
<1>2. Base /\ Base' /\ Ordered /\ Ordered' /\ (\A r \in Runs : Thorough(r)) /\ [Next]_vars
        => (\A r \in Runs : Thorough(r))'
  BY ThoroughStep, MemoryAssumption
<1>3. QED
  BY <1>1, <1>2, BaseInvariant, OrderedInvariant, PTL DEF Spec

\* A completed build left none of its old turns out, whatever was stopped, failed or
\* started beside it, unless the memory was cleared since: what is still eligible had no
\* text when its turns were frozen, or has no user message.
THEOREM BuildIsThorough == Spec => []CompletedIsThorough
<1>1. (\A r \in Runs : Thorough(r)) => CompletedIsThorough
  BY OwedOrExcused DEF Thorough, CompletedIsThorough
<1>2. QED
  BY <1>1, ThoroughInvariant, PTL

=============================================================================
