----------------------------- MODULE ChatProofs -----------------------------
(***************************************************************************)
(* Theorems about ChatTurn, for any number of turns, rounds and events.    *)
(* The inductive invariant has three parts: what a turn may have in hand   *)
(* at each await (Sane), who is registered for a message and may be        *)
(* stopped (Registered), and what the rows of the conversation hold        *)
(* (Filled).  Every step of a task is first shown to be of one of a few    *)
(* kinds (Moves, Departs, Finishes, ...), and each part is kept by each    *)
(* kind.                                                                   *)
(***************************************************************************)
EXTENDS ChatTurn, TLAPS

After == {"save", "check", "settle"}

\* A turn that leaves its loop, or ends, keeps its type.
LEMMA NoRounds == 0 \in 0 .. MaxRounds + 1
BY ChatAssumption

LEMMA OutType ==
  ASSUME NEW r \in Turn
  PROVE  OutOfLoop(r) \in Turn
BY NoRounds DEF OutOfLoop, Turn

LEMMA OutFields ==
  ASSUME NEW r \in Turn
  PROVE  /\ OutOfLoop(r).msg = r.msg /\ OutOfLoop(r).why = r.why
         /\ OutOfLoop(r).reach = r.reach /\ OutOfLoop(r).asked = r.asked
BY DEF OutOfLoop, Turn

LEMMA OverType ==
  ASSUME NEW r \in Turn
  PROVE  Over(r) \in Turn
<1> DEFINE s == OutOfLoop(r)
<1>1. s \in Turn
  BY OutType
<1>2. Over(r) = [s EXCEPT !.pc = "over", !.reach = "here", !.usage = FALSE,
                          !.result = "none", !.flag = FALSE, !.missed = FALSE]
  BY DEF Over
<1> HIDE DEF s
<1>3. QED
  BY <1>1, <1>2, ZenonT(90) DEF Turn

LEMMA OverFields ==
  ASSUME NEW r \in Turn
  PROVE  /\ Over(r).pc = "over" /\ Over(r).result = "none" /\ Over(r).msg = r.msg
         /\ Over(r).why = r.why /\ Over(r).asked = r.asked /\ Over(r).paid = r.paid
BY DEF Over, OutOfLoop, Turn

LEMMA LeavesType ==
  ASSUME NEW r \in Turn, NEW pc \in {"save", "check", "keep"}, NEW result \in Texts,
         NEW usage \in BOOLEAN
  PROVE  [OutOfLoop(r) EXCEPT !.pc = pc, !.result = result, !.usage = usage] \in Turn
<1> DEFINE s == OutOfLoop(r)
<1>1. s \in Turn
  BY OutType
<1> HIDE DEF s
<1>2. [s EXCEPT !.pc = pc, !.result = result, !.usage = usage] \in Turn
  <2>1. pc \in Loop \cup {"idle", "setup", "begin", "save", "check", "settle", "keep", "over"}
    OBVIOUS
  <2>2. result \in Texts \cup {"none"}
    OBVIOUS
  <2>3. QED
    BY <1>1, <2>1, <2>2 DEF Turn
<1>3. QED
  BY <1>2 DEF s

LEMMA SpoiledType ==
  ASSUME NEW r \in Turn
  PROVE  [r EXCEPT !.pc = "check", !.result = "apology", !.usage = FALSE] \in Turn
BY DEF Turn, Texts

LEMMA StoredType ==
  ASSUME NEW r \in Turn
  PROVE  [r EXCEPT !.stored = TRUE] \in Turn
BY DEF Turn

LEMMA BegunType ==
  ASSUME NEW r \in Turn
  PROVE  [r EXCEPT !.pc = "begin"] \in Turn
BY DEF Turn

LEMMA EnteredType ==
  ASSUME NEW r \in Turn, NEW pc \in {"open", "prepare"}
  PROVE  [r EXCEPT !.pc = pc, !.again = FALSE] \in Turn
BY DEF Turn, Loop, Catching

LEMMA WhyType ==
  ASSUME NEW r \in Turn, NEW why \in {"", "setup", "halted", "struck", "refused", "killed", "gone"}
  PROVE  [r EXCEPT !.why = why] \in Turn
BY DEF Turn

LEMMA PaidType ==
  ASSUME NEW r \in Turn, NEW paid \in Seq({"part", "full"})
  PROVE  [r EXCEPT !.paid = paid] \in Turn
BY DEF Turn

LEMMA CaughtType ==
  ASSUME NEW r \in Turn, NEW usage \in BOOLEAN, NEW paid \in Seq({"part", "full"})
  PROVE  [OutOfLoop(r) EXCEPT !.pc = "save", !.result = "stopped", !.usage = usage,
                              !.paid = paid] \in Turn
<1> DEFINE o == [OutOfLoop(r) EXCEPT !.pc = "save", !.result = "stopped", !.usage = usage]
<1>1. o \in Turn
  BY LeavesType DEF Texts
<1>2. [OutOfLoop(r) EXCEPT !.pc = "save", !.result = "stopped", !.usage = usage,
                           !.paid = paid] = [o EXCEPT !.paid = paid]
  BY OutType DEF Turn
<1> HIDE DEF o
<1>3. QED
  BY <1>1, <1>2, PaidType

LEMMA IdleType ==
  ASSUME NEW m \in Messages
  PROVE  /\ NewTurn("idle", m, FALSE, FALSE) \in Turn
         /\ NewTurn("idle", m, FALSE, FALSE).pc = "idle"
         /\ ~NewTurn("idle", m, FALSE, FALSE).asked
         /\ NewTurn("idle", m, FALSE, FALSE).why = ""
         /\ NewTurn("idle", m, FALSE, FALSE).paid = <<>>
         /\ NewTurn("idle", m, FALSE, FALSE).result = "none"
BY NoRounds DEF NewTurn, Turn

LEMMA SetupType ==
  ASSUME NEW m \in Messages, NEW again \in BOOLEAN, NEW panel \in BOOLEAN
  PROVE  NewTurn("setup", m, again, panel) \in Turn
BY NoRounds DEF NewTurn, Turn

LEMMA ReachType ==
  ASSUME NEW r \in Turn, NEW reach, reach \in {"lost", "away"}
  PROVE  [r EXCEPT !.reach = reach] \in Turn
BY DEF Turn

LEMMA MissedType ==
  ASSUME NEW r \in Turn
  PROVE  [r EXCEPT !.missed = TRUE] \in Turn
BY DEF Turn

LEMMA AskedType ==
  ASSUME NEW r \in Turn
  PROVE  [r EXCEPT !.asked = TRUE] \in Turn
BY DEF Turn

LEMMA StruckType ==
  ASSUME NEW r \in Turn, NEW paid \in Seq({"part", "full"})
  PROVE  [r EXCEPT !.why = "struck", !.stored = TRUE, !.paid = paid] \in Turn
BY DEF Turn

\* What a turn has in hand, await by await.
Sane(r) ==
  /\ r.pc \in Loop \cup {"idle", "setup", "begin"} =>
       r.result = "none" /\ r.paid = <<>>
  /\ r.pc = "over" => r.result = "none"
  /\ r.pc \in After \cup {"keep"} => r.result \in Texts
  /\ r.asked => r.pc \in Streaming \cup After \cup {"keep", "over"} /\ r.result \notin Answers
  /\ r.result = "short" => r.pc = "keep" /\ r.paid \in {<<>>, <<"part">>}
  /\ r.result = "apology" => ~r.usage
  /\ r.pc \in After => r.paid = <<>> \/ (r.asked /\ r.paid = <<"part">>)
  /\ r.pc = "keep" /\ r.result # "short" /\ r.usage =>
       r.paid = <<"full">> \/ (r.asked /\ r.paid = <<"part", "full">>)
  /\ r.pc = "keep" /\ r.result # "short" /\ ~r.usage =>
       r.paid = <<>> \/ (r.asked /\ r.paid = <<"part">>)
  /\ r.paid \in {<<>>, <<"part">>, <<"full">>} \/ (r.asked /\ r.paid = <<"part", "full">>)

AllSane == \A t \in Turns : Sane(turn[t])

\* One turn becomes r, and remains the turn of its message.
Becomes(t, r) ==
  /\ turn' = [turn EXCEPT ![t] = r]
  /\ r \in Turn /\ Sane(r) /\ r.msg = turn[t].msg

\* The kinds of step: inside the loop or after it, ...
Moves(t) ==
  /\ \E r \in Turn : /\ Becomes(t, r) /\ r.reach = turn[t].reach /\ r.why = turn[t].why
                     /\ \/ turn[t].pc \in Loop /\ r.pc \in Loop
                        \/ turn[t].pc \in After /\ r.pc \in After \cup {"keep"}
  /\ UNCHANGED <<row, generation, stoppable, tab, gone, events>>

\* ... from the loop or its beginning to what comes after it, ...
Departs(t) ==
  /\ turn[t].pc \in Loop \cup {"begin"}
  /\ \E r \in Turn : /\ Becomes(t, r) /\ r.reach = turn[t].reach /\ r.why = turn[t].why
                     /\ r.pc \in After \cup {"keep"}
  /\ stoppable' = IF Here(t) /\ At(t, Loop) THEN stoppable \ {turn[t].msg} ELSE stoppable
  /\ UNCHANGED <<row, generation, tab, gone, events>>

\* ... and to its end, with the text stored or a reason why not.
Finishes(t) ==
  /\ turn[t].pc \in After \cup {"keep"}
  /\ \E r \in Turn : /\ Becomes(t, r) /\ r.pc = "over"
                     /\ \/ r.why \in {"refused", "gone"} /\ row' = row
                        \/ r.why = turn[t].why /\ row' = Store(t) /\ turn[t].pc = "keep" /\ ~gone
  /\ generation' = Unregistered(t)
  /\ UNCHANGED <<stoppable, tab, gone, events>>

\* The debits there may be of one turn.
LEMMA Debits ==
  /\ <<>> \in Seq({"part", "full"}) /\ <<"part">> \in Seq({"part", "full"})
  /\ <<"full">> \in Seq({"part", "full"}) /\ <<"part", "full">> \in Seq({"part", "full"})
  /\ <<>> \o <<>> = <<>> /\ <<>> \o <<"part">> = <<"part">>
  /\ Append(<<>>, "part") = <<"part">> /\ Append(<<>>, "full") = <<"full">>
  /\ Append(<<"part">>, "full") = <<"part", "full">>
  /\ Len(<<>>) = 0 /\ Len(<<"part">>) = 1 /\ Len(<<"full">>) = 1
<1> DEFINE S == Seq({"part", "full"})
           s == Append(<<"part">>, "full")
<1>1. s \in S /\ Len(s) = 2 /\ s[1] = "part" /\ s[2] = "full"
  OBVIOUS
<1>2. <<>> \in S
  OBVIOUS
<1>3. <<"part">> \in S
  OBVIOUS
<1>4. <<"full">> \in S
  OBVIOUS
<1>5. <<"part", "full">> \in S
  OBVIOUS
<1>6. <<>> \o <<>> = <<>> /\ <<>> \o <<"part">> = <<"part">>
  OBVIOUS
<1>7. Append(<<>>, "part") = <<"part">> /\ Append(<<>>, "full") = <<"full">>
  OBVIOUS
<1>8. s = <<"part", "full">>
  <2> HIDE DEF s
  <2> QED  BY <1>1
<1>9. Len(<<>>) = 0 /\ Len(<<"part">>) = 1 /\ Len(<<"full">>) = 1
  OBVIOUS
<1> HIDE DEF s
<1>10. QED
  BY <1>2, <1>3, <1>4, <1>5, <1>6, <1>7, <1>8, <1>9 DEF s

USE DEF Loop, Catching, Streaming, After, Texts, Answers

LEMMA OverSane ==
  ASSUME NEW r \in Turn, Sane(r)
  PROVE  Over(r) \in Turn /\ Sane(Over(r)) /\ Over(r).msg = r.msg /\ Over(r).pc = "over"
         /\ Over(r).why = r.why
BY OverType, OverFields DEF Sane

LEMMA LeavesDeparts ==
  ASSUME TypeOK, AllSane, NEW t \in Turns, turn[t].pc \in Loop \cup {"begin"},
         NEW new \in Turn, new.msg = turn[t].msg, new.reach = turn[t].reach,
         new.why = turn[t].why,
         NEW result \in Texts, NEW usage \in BOOLEAN,
         new.asked => result \notin Answers,
         result = "apology" => ~usage,
         new.paid = <<>> \/ (new.paid = <<"part">> /\ result = "short"),
         Leaves(t, new, result, usage)
  PROVE  Departs(t)
<1> DEFINE pc == CASE result = "short" -> "keep"
                   [] result = "apology" -> "check"
                   [] OTHER -> "save"
           r == [OutOfLoop(new) EXCEPT !.pc = pc, !.result = result, !.usage = usage]
<1>2. /\ result = "short" => pc = "keep"
      /\ result # "short" => pc \in After
      /\ pc \in {"save", "check", "keep"}
  OBVIOUS
<1>3. turn' = [turn EXCEPT ![t] = r]
  BY DEF Leaves, Become
<1> HIDE DEF pc
<1>4. r \in Turn
  BY <1>2, LeavesType
<1>5. /\ r.msg = new.msg /\ r.reach = new.reach /\ r.why = new.why /\ r.result = result
      /\ r.usage = usage /\ r.paid = new.paid /\ r.asked = new.asked /\ r.pc = pc
  BY DEF OutOfLoop, Turn
<1> HIDE DEF r
<1>6. Sane(r)
  BY <1>2, <1>5 DEF Sane
<1>7. Becomes(t, r)
  BY <1>3, <1>4, <1>5, <1>6 DEF Becomes
<1>8. QED
  BY <1>2, <1>4, <1>5, <1>7 DEF Leaves, Departs

-----------------------------------------------------------------------------
\* Inside the loop.

Alike(r, s) ==
  /\ r.msg = s.msg /\ r.reach = s.reach /\ r.why = s.why
  /\ r.asked = s.asked /\ r.paid = s.paid /\ r.result = s.result

LEMMA LoopMoves ==
  ASSUME TypeOK, AllSane, NEW t \in Turns, turn[t].pc \in Loop,
         NEW r \in Turn, r.pc \in Loop, Alike(r, turn[t]), r.asked => r.pc \in Streaming,
         turn' = [turn EXCEPT ![t] = r],
         UNCHANGED <<row, generation, stoppable, tab, gone, events>>
  PROVE  Moves(t)
<1>1. Sane(turn[t])
  BY DEF AllSane
<1>2. Sane(r)
  BY <1>1 DEF Sane, Alike
<1>3. QED
  BY <1>2 DEF Moves, Becomes, Alike

LEMMA RoundMoves ==
  ASSUME TypeOK, AllSane, NEW t \in Turns, turn[t].pc \in Loop,
         NEW new \in Turn, Alike(new, turn[t]), ~turn[t].asked, NextRound(t, new)
  PROVE  Moves(t) \/ Departs(t)
<1>1. Sane(turn[t])
  BY DEF AllSane
<1>2. CASE new.round + 1 > MaxRounds + 1
  <2> DEFINE result == IF new.said THEN "answer" ELSE "fallback"
  <2>1. result \in Texts /\ result # "apology"
    OBVIOUS
  <2>2. Leaves(t, new, result, new.usage)
    BY <1>2 DEF NextRound
  <2> HIDE DEF result
  <2>3. new.paid = <<>> /\ ~new.asked /\ new.usage \in BOOLEAN
    BY <1>1 DEF Sane, Alike, Turn
  <2>4. QED
    BY <2>1, <2>2, <2>3, LeavesDeparts DEF Alike
<1>3. CASE ~(new.round + 1 > MaxRounds + 1)
  <2> DEFINE r == [new EXCEPT !.pc = "stream", !.round = new.round + 1]
  <2>1. turn' = [turn EXCEPT ![t] = r] /\ UNCHANGED <<row, generation, stoppable, tab, gone, events>>
    BY <1>3 DEF NextRound, Become
  <2>2. new.round + 1 \in 0 .. MaxRounds + 1
    <3>1. new.round \in 0 .. MaxRounds + 1
      BY DEF Turn
    <3>2. QED
      BY <1>3, <3>1, ChatAssumption
  <2>3. r \in Turn
    BY <2>2 DEF Turn
  <2>4. r.pc = "stream" /\ Alike(r, turn[t])
    BY DEF Alike, Turn
  <2> HIDE DEF r
  <2>5. QED
    BY <2>1, <2>3, <2>4, LoopMoves
<1>4. QED
  BY <1>2, <1>3

\* One await after the other, nothing else changed.
LEMMA GotoMoves ==
  ASSUME TypeOK, AllSane, NEW t \in Turns, turn[t].pc \in Loop,
         NEW pc \in Loop, turn[t].asked => pc \in Streaming, Goto(t, pc)
  PROVE  Moves(t)
<1> DEFINE r == [turn[t] EXCEPT !.pc = pc]
<1>1. turn[t] \in Turn
  BY DEF TypeOK
<1>2. r \in Turn
  BY <1>1 DEF Turn
<1>3. r.pc = pc /\ Alike(r, turn[t])
  BY <1>1 DEF Alike, Turn
<1>4. turn' = [turn EXCEPT ![t] = r]
  BY DEF Goto, Become
<1> HIDE DEF r
<1>5. QED
  BY <1>2, <1>3, <1>4, LoopMoves DEF Alike, Goto

\* A turn inside its loop stays there, or leaves it.
LEMMA LoopKinds ==
  ASSUME TypeOK, AllSane, NEW t \in Turns,
         \/ Open(t) \/ Prepared(t) \/ Traced(t) \/ UsageFrame(t) \/ GateOpens(t)
         \/ StreamEnds(t) \/ Pauses(t) \/ CallsTools(t) \/ ToolsDone(t) \/ Capped(t)
         \/ PanelDone(t)
  PROVE  Moves(t) \/ Departs(t)
<1>1. turn[t] \in Turn /\ Sane(turn[t])
  BY DEF TypeOK, AllSane
<1>2. turn[t].asked /\ turn[t].pc \in Loop => turn[t].pc \in Streaming
  BY <1>1 DEF Sane
<1>3. Alike(turn[t], turn[t])
  BY DEF Alike
<1>4. ASSUME NEW new \in Spoken(t)
      PROVE  new \in Turn /\ Alike(new, turn[t])
  <2>1. PICK text \in {turn[t].said, TRUE} : new = [turn[t] EXCEPT !.said = text]
    BY DEF Spoken
  <2>2. text \in BOOLEAN
    BY <1>1, <2>1 DEF Turn
  <2>3. QED
    BY <1>1, <2>1, <2>2 DEF Alike, Turn
<1>5. CASE Open(t)
  <2> DEFINE pc == IF turn[t].panel THEN "panel" ELSE "prepare"
             r == [turn[t] EXCEPT !.pc = pc, !.panel = FALSE]
  <2>1. r \in Turn /\ r.pc \in Loop /\ Alike(r, turn[t])
    <3>1. pc \in {"panel", "prepare"}
      OBVIOUS
    <3> HIDE DEF pc
    <3>2. QED
      BY <1>1, <3>1 DEF Alike, Turn
  <2>2. turn' = [turn EXCEPT ![t] = r] /\ turn[t].pc = "open"
    BY <1>5 DEF Open, Become, At
  <2> HIDE DEF r
  <2>3. QED
    BY <1>2, <1>5, <2>1, <2>2, LoopMoves DEF Open, Alike
<1>6. CASE Prepared(t)
  BY <1>1, <1>2, <1>3, <1>6, RoundMoves, GotoMoves DEF Prepared, At
<1>7. CASE Traced(t)
  BY <1>1, <1>2, <1>3, <1>7, RoundMoves DEF Traced, At
<1>8. CASE UsageFrame(t)
  <2>0. PICK pc \in {"stream", "gate"} :
          turn' = [turn EXCEPT ![t] = [turn[t] EXCEPT !.pc = pc, !.usage = TRUE]]
    BY <1>8 DEF UsageFrame, Become
  <2> DEFINE r == [turn[t] EXCEPT !.pc = pc, !.usage = TRUE]
  <2>1. r \in Turn /\ r.pc \in Loop /\ Alike(r, turn[t])
    BY <1>1, <2>0 DEF Alike, Turn
  <2>2. turn' = [turn EXCEPT ![t] = r] /\ turn[t].pc = "stream" /\ ~turn[t].asked
    BY <1>8, <2>0 DEF UsageFrame, At, CancelRequested
  <2> HIDE DEF r
  <2>3. QED
    BY <1>8, <2>1, <2>2, LoopMoves DEF UsageFrame, Alike
<1>9. CASE GateOpens(t)
  BY <1>1, <1>2, <1>9, GotoMoves DEF GateOpens, At
<1>10. CASE StreamEnds(t)
  <2>1. PICK new \in Spoken(t) :
          IF new.said \/ new.retried
          THEN Leaves(t, new, IF new.said THEN "answer" ELSE "fallback", new.usage)
          ELSE /\ Become(t, [new EXCEPT !.pc = "stream", !.retried = TRUE])
               /\ UNCHANGED <<row, generation, stoppable, tab, gone, events>>
    BY <1>10 DEF StreamEnds
  <2>2. new \in Turn /\ Alike(new, turn[t]) /\ turn[t].pc \in Loop /\ ~turn[t].asked
    BY <1>4, <1>10 DEF StreamEnds, At, CancelRequested
  <2>3. CASE new.said \/ new.retried
    <3> DEFINE result == IF new.said THEN "answer" ELSE "fallback"
    <3>1. result \in Texts /\ result # "apology"
      OBVIOUS
    <3>2. Leaves(t, new, result, new.usage)
      BY <2>1, <2>3
    <3> HIDE DEF result
    <3>3. new.paid = <<>> /\ ~new.asked /\ new.usage \in BOOLEAN
      BY <1>1, <2>2 DEF Sane, Alike, Turn
    <3>4. QED
      BY <2>2, <3>1, <3>2, <3>3, LeavesDeparts DEF Alike
  <2>4. CASE ~(new.said \/ new.retried)
    <3> DEFINE r == [new EXCEPT !.pc = "stream", !.retried = TRUE]
    <3>1. r \in Turn /\ r.pc \in Loop /\ Alike(r, turn[t])
      BY <2>2 DEF Alike, Turn
    <3>2. /\ turn' = [turn EXCEPT ![t] = r]
          /\ UNCHANGED <<row, generation, stoppable, tab, gone, events>>
      BY <2>1, <2>4 DEF Become
    <3> HIDE DEF r
    <3>3. QED
      BY <2>2, <3>1, <3>2, LoopMoves DEF Alike
  <2>5. QED
    BY <2>3, <2>4
<1>11. CASE Pauses(t)
  BY <1>4, <1>11, RoundMoves DEF Pauses, At, CancelRequested
<1>12. CASE CallsTools(t)
  <2>1. PICK new \in Spoken(t) : Become(t, [new EXCEPT !.pc = "tools"])
    BY <1>12 DEF CallsTools
  <2> DEFINE r == [new EXCEPT !.pc = "tools"]
  <2>2. r \in Turn /\ r.pc \in Loop /\ Alike(r, turn[t])
    <3>1. new \in Turn /\ Alike(new, turn[t])
      BY <1>4
    <3>2. QED
      BY <3>1 DEF Alike, Turn
  <2>3. turn' = [turn EXCEPT ![t] = r]
    BY <2>1 DEF Become
  <2> HIDE DEF r
  <2>4. turn[t].pc \in Loop /\ ~turn[t].asked
    BY <1>12 DEF CallsTools, At, CancelRequested
  <2>5. QED
    BY <1>12, <2>2, <2>3, <2>4, LoopMoves DEF CallsTools, Alike
<1>13. CASE ToolsDone(t)
  <2>1. turn[t].pc \in Loop /\ ~turn[t].asked
    BY <1>2, <1>13 DEF ToolsDone, At
  <2>2. CASE turn[t].round = MaxRounds
    <3> DEFINE r == [turn[t] EXCEPT !.pc = "capped", !.open = FALSE]
    <3>1. r \in Turn /\ r.pc \in Loop /\ Alike(r, turn[t])
      BY <1>1 DEF Alike, Turn
    <3>2. /\ turn' = [turn EXCEPT ![t] = r]
          /\ UNCHANGED <<row, generation, stoppable, tab, gone, events>>
      BY <1>13, <2>2 DEF ToolsDone, Become
    <3> HIDE DEF r
    <3>3. QED
      BY <2>1, <3>1, <3>2, LoopMoves DEF Alike
  <2>3. CASE turn[t].round # MaxRounds
    BY <1>1, <1>3, <1>13, <2>1, <2>3, RoundMoves DEF ToolsDone
  <2>4. QED
    BY <2>2, <2>3
<1>14. CASE Capped(t)
  BY <1>1, <1>2, <1>3, <1>14, RoundMoves DEF Capped, At
<1>15. CASE PanelDone(t)
  BY <1>1, <1>2, <1>15, GotoMoves DEF PanelDone, At
<1>16. QED
  BY <1>5, <1>6, <1>7, <1>8, <1>9, <1>10, <1>11, <1>12, <1>13, <1>14, <1>15

\* A turn that leaves its loop does so with something to store.
LEMMA LeavingKinds ==
  ASSUME TypeOK, AllSane, NEW t \in Turns,
         Fails(t) \/ StopSurfaces(t) \/ GateCloses(t) \/ TimesOut(t) \/ Wrapped(t)
  PROVE  Departs(t)
<1>1. turn[t] \in Turn /\ Sane(turn[t])
  BY DEF TypeOK, AllSane
<1>2. turn[t].pc \in Loop \cup {"begin"} => turn[t].paid = <<>>
  BY <1>1 DEF Sane
<1>3. CASE Fails(t)
  BY <1>1, <1>2, <1>3, LeavesDeparts DEF Fails, At
<1>4. CASE StopSurfaces(t)
  BY <1>1, <1>2, <1>4, LeavesDeparts DEF StopSurfaces, At
<1>5. CASE GateCloses(t)
  <2>1. PICK paid \in {<<>>, <<"part">>} :
          Leaves(t, [turn[t] EXCEPT !.paid = turn[t].paid \o paid], "short", TRUE)
    BY <1>5 DEF GateCloses
  <2> DEFINE new == [turn[t] EXCEPT !.paid = turn[t].paid \o paid]
  <2>2. turn[t].pc \in Loop /\ turn[t].paid = <<>>
    BY <1>2, <1>5 DEF GateCloses, At
  <2>3. turn[t].paid \o paid = paid /\ paid \in Seq({"part", "full"})
    BY <2>2, Debits
  <2>4. /\ new \in Turn /\ new.paid = paid
        /\ new.msg = turn[t].msg /\ new.reach = turn[t].reach /\ new.why = turn[t].why
    BY <1>1, <2>3 DEF Turn
  <2>5. Leaves(t, new, "short", TRUE)
    BY <2>1
  <2> HIDE DEF new
  <2>6. QED
    BY <2>2, <2>4, <2>5, LeavesDeparts
<1>6. CASE TimesOut(t)
  <2>1. turn[t].usage \in BOOLEAN
    BY <1>1 DEF Turn
  <2>2. QED
    BY <1>1, <1>2, <1>6, <2>1, LeavesDeparts DEF TimesOut, At
<1>7. CASE Wrapped(t)
  <2>1. turn[t].pc = "wrap" /\ ~turn[t].asked
    BY <1>1, <1>7 DEF Wrapped, At, Sane
  <2>2. QED
    BY <1>1, <1>2, <1>7, <2>1, LeavesDeparts DEF Wrapped
<1>8. QED
  BY <1>3, <1>4, <1>5, <1>6, <1>7

-----------------------------------------------------------------------------
\* After the loop.

LEMMA AfterMoves ==
  ASSUME TypeOK, NEW t \in Turns, turn[t].pc \in After,
         NEW r \in Turn, r.pc \in After \cup {"keep"}, Sane(r),
         r.msg = turn[t].msg, r.reach = turn[t].reach, r.why = turn[t].why,
         turn' = [turn EXCEPT ![t] = r],
         UNCHANGED <<row, generation, stoppable, tab, gone, events>>
  PROVE  Moves(t)
BY DEF Moves, Becomes

LEMMA EndsFinishes ==
  ASSUME TypeOK, AllSane, NEW t \in Turns, turn[t].pc \in After \cup {"keep"},
         NEW why \in {"refused", "gone"},
         Ends(t, [turn[t] EXCEPT !.why = why]), row' = row
  PROVE  Finishes(t)
<1> DEFINE new == [turn[t] EXCEPT !.why = why]
<1>1. turn[t] \in Turn /\ Sane(turn[t])
  BY DEF TypeOK, AllSane
<1>2. new \in Turn /\ new.msg = turn[t].msg /\ new.why = why
  BY <1>1 DEF Turn
<1>3. Sane(new)
  BY <1>1 DEF Sane, Turn
<1>4. turn' = [turn EXCEPT ![t] = Over(new)]
  BY DEF Ends, Become
<1> HIDE DEF new
<1>5. QED
  BY <1>2, <1>3, <1>4, OverSane DEF Finishes, Becomes, Ends

\* What is settled is paid in full, unless it is an apology or costs nothing.
LEMMA SettleSane ==
  ASSUME NEW r \in Turn, Sane(r), r.pc = "settle", NEW paid,
         paid = IF r.usage THEN Append(r.paid, "full") ELSE r.paid
  PROVE  /\ paid \in Seq({"part", "full"})
         /\ r.usage => paid = <<"full">> \/ (r.asked /\ paid = <<"part", "full">>)
         /\ ~r.usage => paid = <<>> \/ (r.asked /\ paid = <<"part">>)
         /\ r.result # "short"
<1>1. r.result # "short" /\ (r.paid = <<>> \/ (r.asked /\ r.paid = <<"part">>))
  BY DEF Sane
<1>2. CASE r.usage
  BY <1>1, <1>2, Debits
<1>3. CASE ~r.usage
  BY <1>1, <1>3, Debits
<1>4. QED
  BY <1>2, <1>3

LEMMA AfterKinds ==
  ASSUME TypeOK, AllSane, NEW t \in Turns,
         \/ Saved(t) \/ SavingFails(t) \/ Check(t) \/ Settle(t)
         \/ Refused(t) \/ Keep(t) \/ KeepFails(t)
  PROVE  Moves(t) \/ Finishes(t)
<1>1. turn[t] \in Turn /\ Sane(turn[t])
  BY DEF TypeOK, AllSane
<1>2. CASE Saved(t)
  <2> DEFINE r == [turn[t] EXCEPT !.pc = "check"]
  <2>1. /\ turn' = [turn EXCEPT ![t] = r] /\ turn[t].pc = "save"
        /\ UNCHANGED <<row, generation, stoppable, tab, gone, events>>
    BY <1>2 DEF Saved, Goto, Become, At
  <2>2. r \in Turn /\ r.pc = "check" /\ Alike(r, turn[t]) /\ r.usage = turn[t].usage
    BY <1>1 DEF Alike, Turn
  <2> HIDE DEF r
  <2>3. Sane(r)
    BY <1>1, <2>1, <2>2 DEF Sane, Alike
  <2>4. QED
    BY <2>1, <2>2, <2>3, AfterMoves DEF Alike
<1>3. CASE SavingFails(t)
  <2> DEFINE r == [turn[t] EXCEPT !.pc = "check", !.result = "apology", !.usage = FALSE]
  <2>1. /\ turn' = [turn EXCEPT ![t] = r] /\ turn[t].pc = "save"
        /\ UNCHANGED <<row, generation, stoppable, tab, gone, events>>
    BY <1>3 DEF SavingFails, Become, At
  <2>2. r \in Turn
    BY <1>1, SpoiledType
  <2>3. /\ r.pc = "check" /\ r.result = "apology" /\ ~r.usage
        /\ r.msg = turn[t].msg /\ r.reach = turn[t].reach /\ r.why = turn[t].why
        /\ r.paid = turn[t].paid /\ r.asked = turn[t].asked
    BY <1>1 DEF Turn
  <2> HIDE DEF r
  <2>4. Sane(r)
    BY <1>1, <2>1, <2>3 DEF Sane
  <2>5. QED
    BY <2>1, <2>2, <2>3, <2>4, AfterMoves
<1>4. CASE Check(t)
  <2>1. CASE gone
    BY <1>4, <2>1, EndsFinishes DEF Check, At
  <2>2. CASE ~gone
    <3> DEFINE r == [turn[t] EXCEPT !.pc = "settle", !.flag = row[turn[t].msg].deleted]
    <3>1. /\ turn' = [turn EXCEPT ![t] = r] /\ turn[t].pc = "check"
          /\ UNCHANGED <<row, generation, stoppable, tab, gone, events>>
      BY <1>4, <2>2 DEF Check, Become, At
    <3>2. row[turn[t].msg].deleted \in BOOLEAN
      BY <1>1 DEF TypeOK, Turn, Row
    <3>3. r \in Turn /\ r.pc = "settle" /\ Alike(r, turn[t]) /\ r.usage = turn[t].usage
      BY <1>1, <3>2 DEF Alike, Turn
    <3> HIDE DEF r
    <3>4. Sane(r)
      BY <1>1, <3>1, <3>3 DEF Sane, Alike
    <3>5. QED
      BY <3>1, <3>3, <3>4, AfterMoves DEF Alike
  <2>3. QED
    BY <2>1, <2>2
<1>5. CASE Settle(t)
  <2> DEFINE r == [turn[t] EXCEPT !.pc = "keep", !.paid = Charged(t)]
  <2>1. /\ turn' = [turn EXCEPT ![t] = r] /\ turn[t].pc = "settle"
        /\ UNCHANGED <<row, generation, stoppable, tab, gone, events>>
    BY <1>5 DEF Settle, Become, At
  <2>2. /\ Charged(t) \in Seq({"part", "full"}) /\ turn[t].result # "short"
        /\ turn[t].usage =>
             Charged(t) = <<"full">> \/ (turn[t].asked /\ Charged(t) = <<"part", "full">>)
        /\ ~turn[t].usage =>
             Charged(t) = <<>> \/ (turn[t].asked /\ Charged(t) = <<"part">>)
    BY <1>1, <2>1, SettleSane DEF Charged
  <2>3. /\ r \in Turn /\ r.pc = "keep" /\ r.paid = Charged(t) /\ r.usage = turn[t].usage
        /\ r.msg = turn[t].msg /\ r.reach = turn[t].reach /\ r.why = turn[t].why
        /\ r.asked = turn[t].asked /\ r.result = turn[t].result
    BY <1>1, <2>2 DEF Turn
  <2> HIDE DEF r
  <2>4. Sane(r)
    BY <1>1, <2>1, <2>2, <2>3 DEF Sane
  <2>5. QED
    BY <2>1, <2>3, <2>4, AfterMoves
<1>6. CASE Refused(t)
  BY <1>6, EndsFinishes DEF Refused, At
<1>7. CASE Keep(t)
  <2> DEFINE new == [turn[t] EXCEPT !.stored = TRUE]
  <2>1. /\ turn' = [turn EXCEPT ![t] = Over(new)] /\ turn[t].pc = "keep"
    BY <1>7 DEF Keep, Ends, Become, At
  <2>2. new \in Turn
    BY <1>1, StoredType
  <2>3. Alike(new, turn[t]) /\ new.pc = "keep" /\ new.usage = turn[t].usage
    BY <1>1, <2>1 DEF Alike, Turn
  <2> HIDE DEF new
  <2>4. Sane(new)
    BY <1>1, <2>1, <2>3 DEF Sane, Alike
  <2>5. /\ Over(new) \in Turn /\ Sane(Over(new)) /\ Over(new).msg = turn[t].msg
        /\ Over(new).pc = "over" /\ Over(new).why = turn[t].why
    BY <2>2, <2>3, <2>4, OverSane DEF Alike
  <2>6. Becomes(t, Over(new))
    BY <2>1, <2>5 DEF Becomes
  <2>7. /\ row' = Store(t) /\ ~gone /\ generation' = Unregistered(t)
        /\ UNCHANGED <<stoppable, tab, gone, events>>
    BY <1>7 DEF Keep, Ends
  <2>8. QED
    BY <2>1, <2>5, <2>6, <2>7 DEF Finishes
<1>8. CASE KeepFails(t)
  BY <1>8, EndsFinishes DEF KeepFails, At
<1>9. QED
  BY <1>2, <1>3, <1>4, <1>5, <1>6, <1>7, <1>8

LEMMA StepKinds ==
  ASSUME TypeOK, AllSane, NEW t \in Turns, Step(t)
  PROVE  \/ Moves(t) \/ Departs(t) \/ Finishes(t)
         \/ Register(t) \/ SetupFails(t) \/ Enter(t)
BY LoopKinds, LeavingKinds, AfterKinds DEF Step

\* Before the loop.
LEMMA RegisterKind ==
  ASSUME TypeOK, AllSane, NEW t \in Turns, Register(t)
  PROVE  \E r \in Turn : /\ Becomes(t, r) /\ r.pc = "begin"
                         /\ r.reach = turn[t].reach /\ r.why = turn[t].why
<1> DEFINE r == [turn[t] EXCEPT !.pc = "begin"]
<1>1. turn[t] \in Turn /\ Sane(turn[t])
  BY DEF TypeOK, AllSane
<1>2. r \in Turn
  BY <1>1, BegunType
<1>3. r.pc = "begin" /\ Alike(r, turn[t])
  BY <1>1 DEF Alike, Turn
<1>4. turn' = [turn EXCEPT ![t] = r] /\ turn[t].pc = "setup"
  BY DEF Register, Become, At
<1> HIDE DEF r
<1>5. Sane(r)
  BY <1>1, <1>3, <1>4 DEF Sane, Alike
<1>6. QED
  BY <1>2, <1>3, <1>4, <1>5 DEF Becomes, Alike

LEMMA SetupFailsKind ==
  ASSUME TypeOK, AllSane, NEW t \in Turns, SetupFails(t)
  PROVE  \E r \in Turn : Becomes(t, r) /\ r.pc = "over" /\ r.why = "setup"
<1> DEFINE new == [turn[t] EXCEPT !.why = "setup"]
<1>1. turn[t] \in Turn /\ Sane(turn[t])
  BY DEF TypeOK, AllSane
<1>2. new \in Turn
  BY <1>1, WhyType
<1>3. /\ new.msg = turn[t].msg /\ new.why = "setup" /\ new.pc = turn[t].pc
      /\ new.asked = turn[t].asked /\ new.result = turn[t].result
      /\ new.paid = turn[t].paid /\ new.usage = turn[t].usage
  BY <1>1 DEF Turn
<1>4. turn' = [turn EXCEPT ![t] = Over(new)]
  BY DEF SetupFails, Become
<1> HIDE DEF new
<1>5. Sane(new)
  BY <1>1, <1>3 DEF Sane
<1>6. Over(new) \in Turn /\ Sane(Over(new)) /\ Over(new).msg = turn[t].msg
      /\ Over(new).pc = "over" /\ Over(new).why = "setup"
  BY <1>2, <1>3, <1>5, OverSane
<1>7. QED
  BY <1>4, <1>6 DEF Becomes

LEMMA EnterKind ==
  ASSUME TypeOK, AllSane, NEW t \in Turns, Enter(t)
  PROVE  \E r \in Turn : /\ Becomes(t, r) /\ r.pc \in Loop
                         /\ r.reach = turn[t].reach /\ r.why = turn[t].why
<1> DEFINE pc == IF turn[t].again \/ turn[t].panel THEN "open" ELSE "prepare"
           r == [turn[t] EXCEPT !.pc = pc, !.again = FALSE]
<1>1. turn[t] \in Turn /\ Sane(turn[t])
  BY DEF TypeOK, AllSane
<1>2. pc \in {"open", "prepare"}
  OBVIOUS
<1>3. turn' = [turn EXCEPT ![t] = r] /\ turn[t].pc = "begin"
  BY DEF Enter, Become, At
<1> HIDE DEF pc
<1>4. r \in Turn
  BY <1>1, <1>2, EnteredType
<1>5. r.pc = pc /\ Alike(r, turn[t])
  BY <1>1 DEF Alike, Turn
<1> HIDE DEF r
<1>6. Sane(r)
  BY <1>1, <1>2, <1>3, <1>5 DEF Sane, Alike
<1>7. QED
  BY <1>2, <1>3, <1>4, <1>5, <1>6 DEF Becomes, Alike

-----------------------------------------------------------------------------
\* A stop.

\* The stop was heard where the turn catches it, or will be ...
Caught(t) ==
  /\ turn[t].pc \in Loop
  /\ \E r \in Turn : /\ Becomes(t, r) /\ r.reach = turn[t].reach /\ r.why = turn[t].why
                     /\ r.asked /\ r.pc \in After \cup Streaming
  /\ UNCHANGED <<row, generation>>

\* ... or it ended the turn, whose text may be stored all the same.
Halted(t) ==
  /\ \E r \in Turn : /\ Becomes(t, r) /\ r.pc = "over"
                     /\ r.why = IF At(t, Loop) THEN "halted" ELSE "struck"
  /\ row' = row \/ (row' = Store(t) /\ At(t, {"settle", "keep"}) /\ ~gone)
  /\ generation' = Unregistered(t)

LEMMA OverPaid ==
  ASSUME NEW r \in Turn, r.asked,
         r.paid \in {<<>>, <<"part">>, <<"full">>, <<"part", "full">>}
  PROVE  Over(r) \in Turn /\ Sane(Over(r)) /\ Over(r).msg = r.msg /\ Over(r).pc = "over"
         /\ Over(r).why = r.why
BY OverType, OverFields DEF Sane

LEMMA CaughtKind ==
  ASSUME TypeOK, AllSane, NEW t \in Turns, At(t, Catching),
         NEW r \in Turn, r.pc = "save", r.result = "stopped", r.asked,
         r.paid \in {<<>>, <<"part">>},
         r.msg = turn[t].msg, r.reach = turn[t].reach, r.why = turn[t].why,
         turn' = [turn EXCEPT ![t] = r], UNCHANGED <<row, generation>>
  PROVE  Caught(t)
<1>1. Sane(r)
  BY DEF Sane
<1>2. QED
  BY <1>1 DEF Caught, Becomes, At

\* What was charged when a stop strikes the settlement.
LEMMA StruckPaid ==
  ASSUME TypeOK, AllSane, NEW t \in Turns, At(t, {"settle", "keep"}), NEW paid,
         paid = IF At(t, {"settle"}) THEN Charged(t) ELSE turn[t].paid
  PROVE  /\ paid \in Seq({"part", "full"})
         /\ paid \in {<<>>, <<"part">>, <<"full">>, <<"part", "full">>}
<1>1. turn[t] \in Turn /\ Sane(turn[t])
  BY DEF TypeOK, AllSane
<1>2. CASE At(t, {"settle"})
  BY <1>1, <1>2, SettleSane DEF At, Charged
<1>3. CASE ~At(t, {"settle"})
  <2>1. turn[t].paid \in Seq({"part", "full"})
    BY <1>1 DEF Turn
  <2>2. QED
    BY <1>1, <1>3, <2>1 DEF Sane
<1>4. QED
  BY <1>2, <1>3

LEMMA HaltedKind ==
  ASSUME TypeOK, AllSane, NEW t \in Turns, NEW new \in Turn, new.asked,
         new.msg = turn[t].msg, new.why = IF At(t, Loop) THEN "halted" ELSE "struck",
         new.paid \in {<<>>, <<"part">>, <<"full">>, <<"part", "full">>},
         Become(t, Over(new)), generation' = Unregistered(t),
         row' = row \/ (row' = Store(t) /\ At(t, {"settle", "keep"}) /\ ~gone)
  PROVE  Halted(t)
<1>1. /\ Over(new) \in Turn /\ Sane(Over(new)) /\ Over(new).msg = turn[t].msg
      /\ Over(new).pc = "over" /\ Over(new).why = new.why
  BY OverPaid
<1>2. turn' = [turn EXCEPT ![t] = Over(new)]
  BY DEF Become
<1>3. Becomes(t, Over(new))
  BY <1>1, <1>2 DEF Becomes
<1>4. QED
  BY <1>1, <1>3 DEF Halted

LEMMA StruckKinds ==
  ASSUME TypeOK, AllSane, NEW t \in Turns, NEW new, new = [turn[t] EXCEPT !.asked = TRUE],
         Struck(t, new)
  PROVE  Caught(t) \/ Halted(t)
<1>1. turn[t] \in Turn /\ Sane(turn[t])
  BY DEF TypeOK, AllSane
<1>2. new \in Turn
  BY <1>1, AskedType
<1>3. /\ new.asked /\ new.pc = turn[t].pc /\ new.msg = turn[t].msg
      /\ new.reach = turn[t].reach /\ new.why = turn[t].why /\ new.paid = turn[t].paid
      /\ new.usage = turn[t].usage /\ new.result = turn[t].result
  BY <1>1 DEF Turn
<1>4. CASE At(t, Streaming) /\ Become(t, new) /\ UNCHANGED <<row, generation>>
  <2>1. turn' = [turn EXCEPT ![t] = new] /\ new.pc \in Streaming
    BY <1>3, <1>4 DEF Become, At
  <2>2. Sane(new)
    BY <1>1, <1>3, <2>1 DEF Sane
  <2>3. Becomes(t, new)
    BY <1>2, <1>3, <2>1, <2>2 DEF Becomes
  <2>4. QED
    BY <1>2, <1>3, <1>4, <2>1, <2>3 DEF Caught
<1>5. ASSUME NEW usage \in BOOLEAN,
             NEW paid \in {new.paid} \cup {Append(p, "part") : p \in {q \in {new.paid} : At(t, {"gate"})}},
             At(t, Catching), UNCHANGED <<row, generation>>,
             Become(t, [OutOfLoop(new) EXCEPT !.pc = "save", !.result = "stopped",
                                              !.usage = usage, !.paid = paid])
      PROVE  Caught(t)
  <2> DEFINE r == [OutOfLoop(new) EXCEPT !.pc = "save", !.result = "stopped",
                                         !.usage = usage, !.paid = paid]
  <2>1. turn' = [turn EXCEPT ![t] = r]
    BY <1>5 DEF Become
  <2>2. turn[t].paid = <<>>
    BY <1>1, <1>5 DEF Sane, At
  <2>3. paid \in {<<>>, <<"part">>}
    BY <1>3, <1>5, <2>2, Debits
  <2>4. paid \in Seq({"part", "full"})
    BY <2>3, Debits
  <2>5. r \in Turn
    BY <1>2, <2>4, CaughtType
  <2>6. /\ r.pc = "save" /\ r.result = "stopped" /\ r.paid = paid
        /\ r.msg = new.msg /\ r.why = new.why /\ r.reach = new.reach /\ r.asked = new.asked
    <3>1. /\ OutOfLoop(new) \in Turn
          /\ OutOfLoop(new).msg = new.msg /\ OutOfLoop(new).why = new.why
          /\ OutOfLoop(new).reach = new.reach /\ OutOfLoop(new).asked = new.asked
      BY <1>2, OutType, OutFields
    <3>2. r.pc = "save" /\ r.result = "stopped" /\ r.paid = paid
      BY <3>1 DEF Turn
    <3>3. r.msg = OutOfLoop(new).msg /\ r.why = OutOfLoop(new).why
      BY <3>1 DEF Turn
    <3>4. r.reach = OutOfLoop(new).reach /\ r.asked = OutOfLoop(new).asked
      BY <3>1 DEF Turn
    <3>5. QED
      BY <3>1, <3>2, <3>3, <3>4
  <2> HIDE DEF r
  <2>7. QED
    BY <1>3, <1>5, <2>1, <2>3, <2>5, <2>6, CaughtKind
<1>6. CASE /\ ~At(t, Catching) /\ generation' = Unregistered(t) /\ row' = row
           /\ Become(t, Over([new EXCEPT !.why = IF At(t, Loop) THEN "halted" ELSE "struck"]))
  <2> DEFINE why == IF At(t, Loop) THEN "halted" ELSE "struck"
             r == [new EXCEPT !.why = why]
  <2>1. why \in {"", "setup", "halted", "struck", "refused", "killed", "gone"}
    OBVIOUS
  <2> HIDE DEF why
  <2>2. r \in Turn
    BY <1>2, <2>1, WhyType
  <2>3. r.asked /\ r.msg = turn[t].msg /\ r.why = why /\ r.paid = turn[t].paid
    BY <1>2, <1>3 DEF Turn
  <2>4. turn[t].paid \in {<<>>, <<"part">>, <<"full">>, <<"part", "full">>}
    BY <1>1 DEF Sane
  <2>5. Become(t, Over(r))
    BY <1>6 DEF why
  <2> HIDE DEF r
  <2>6. QED
    BY <1>6, <2>2, <2>3, <2>4, <2>5, HaltedKind DEF why
<1>7. CASE /\ ~At(t, Catching) /\ generation' = Unregistered(t) /\ row' = Store(t)
           /\ At(t, {"settle", "keep"}) /\ ~gone
           /\ Become(t, Over([new EXCEPT !.why = "struck", !.stored = TRUE,
                                         !.paid = IF At(t, {"settle"}) THEN Charged(t)
                                                 ELSE new.paid]))
  <2> DEFINE paid == IF At(t, {"settle"}) THEN Charged(t) ELSE new.paid
             r == [new EXCEPT !.why = "struck", !.stored = TRUE, !.paid = paid]
  <2>1. /\ paid \in Seq({"part", "full"})
        /\ paid \in {<<>>, <<"part">>, <<"full">>, <<"part", "full">>}
    BY <1>3, <1>7, StruckPaid
  <2>2. Become(t, Over(r))
    BY <1>7
  <2> HIDE DEF paid
  <2>3. r \in Turn
    BY <1>2, <2>1, StruckType
  <2>4. r.asked /\ r.msg = turn[t].msg /\ r.why = "struck" /\ r.paid = paid
    BY <1>2, <1>3 DEF Turn
  <2> HIDE DEF r
  <2>5. ~At(t, Loop)
    BY <1>7 DEF At
  <2>6. QED
    BY <1>7, <2>1, <2>2, <2>3, <2>4, <2>5, HaltedKind
<1>8. CASE ~At(t, Catching)
  BY <1>4, <1>6, <1>7, <1>8 DEF Struck
<1>9. CASE At(t, Catching)
  <2> DEFINE usages == CASE At(t, {"prepare"}) -> {FALSE}
                         [] At(t, {"tools"}) -> {new.usage}
                         [] At(t, {"panel"}) -> BOOLEAN
                         [] OTHER -> {TRUE}
  <2>1. new.usage \in BOOLEAN
    BY <1>2 DEF Turn
  <2>2. usages \subseteq BOOLEAN
    BY <2>1 DEF At
  <2> HIDE DEF usages
  <2>3. \/ /\ At(t, Streaming) /\ Become(t, new) /\ UNCHANGED <<row, generation>>
        \/ /\ \E usage \in usages,
                 paid \in {new.paid} \cup {Append(p, "part") : p \in {q \in {new.paid} : At(t, {"gate"})}} :
               Become(t, [OutOfLoop(new) EXCEPT !.pc = "save", !.result = "stopped",
                                                !.usage = usage, !.paid = paid])
           /\ UNCHANGED <<row, generation>>
    BY <1>9, Zenon DEF Struck, usages
  <2>4. QED
    BY <1>4, <1>5, <1>9, <2>2, <2>3
<1>10. QED
  BY <1>8, <1>9

-----------------------------------------------------------------------------
\* What happens to all turns at once.

Kept(r, s) ==
  /\ r \in Turn /\ r.pc = s.pc /\ r.msg = s.msg /\ r.why = s.why /\ r.asked = s.asked
  /\ r.paid = s.paid /\ r.result = s.result /\ r.usage = s.usage

LEMMA KeptSane ==
  ASSUME NEW r, NEW s, Kept(r, s), Sane(s)
  PROVE  Sane(r)
BY DEF Kept, Sane

\* The coordinator was replaced.
Switched == \E reach \in {"lost", "away"} : Replaced(reach)

LEMMA ReplacedKeeps ==
  ASSUME TypeOK, Switched
  PROVE  /\ turn' \in [Turns -> Turn]
         /\ \A t \in Turns : Kept(turn'[t], turn[t])
         /\ \A t \in Turns : Running(t) /\ Here(t) => ~(turn'[t].reach = "here")
<1> PICK reach \in {"lost", "away"} : Replaced(reach)
  BY DEF Switched
<1> DEFINE new(t) == IF Running(t) /\ Here(t) THEN [turn[t] EXCEPT !.reach = reach] ELSE turn[t]
<1>1. turn' = [t \in Turns |-> new(t)]
  BY DEF Replaced
<1>2. ASSUME NEW t \in Turns
      PROVE  Kept(new(t), turn[t]) /\ (Running(t) /\ Here(t) => new(t).reach = reach)
  <2>1. turn[t] \in Turn
    BY DEF TypeOK
  <2>2. [turn[t] EXCEPT !.reach = reach] \in Turn
    BY <2>1, ReachType
  <2>3. Kept([turn[t] EXCEPT !.reach = reach], turn[t])
    BY <2>1, <2>2 DEF Kept, Turn
  <2>4. Kept(turn[t], turn[t])
    BY <2>1 DEF Kept
  <2>5. [turn[t] EXCEPT !.reach = reach].reach = reach
    BY <2>1 DEF Turn
  <2>6. QED
    BY <2>3, <2>4, <2>5
<1> HIDE DEF new
<1>3. \A t \in Turns : turn'[t] = new(t)
  BY <1>1
<1>4. \A t \in Turns : new(t) \in Turn
  BY <1>2 DEF Kept
<1>5. QED
  BY <1>1, <1>2, <1>3, <1>4

LEMMA DeletedKeeps ==
  ASSUME TypeOK, NEW m \in Messages, SoftDelete(m)
  PROVE  turn' \in [Turns -> Turn] /\ \A t \in Turns : Kept(turn'[t], turn[t]) /\ turn'[t].reach = turn[t].reach
<1> DEFINE new(t) == IF turn[t].msg = m /\ At(t, {"settle", "keep"})
                     THEN [turn[t] EXCEPT !.missed = TRUE] ELSE turn[t]
<1>1. turn' = [t \in Turns |-> new(t)]
  BY DEF SoftDelete
<1>2. ASSUME NEW t \in Turns
      PROVE  Kept(new(t), turn[t]) /\ new(t).reach = turn[t].reach
  <2>1. turn[t] \in Turn
    BY DEF TypeOK
  <2>2. [turn[t] EXCEPT !.missed = TRUE] \in Turn
    BY <2>1, MissedType
  <2>3. /\ Kept([turn[t] EXCEPT !.missed = TRUE], turn[t])
        /\ [turn[t] EXCEPT !.missed = TRUE].reach = turn[t].reach
    BY <2>1, <2>2 DEF Kept, Turn
  <2>4. Kept(turn[t], turn[t])
    BY <2>1 DEF Kept
  <2>5. QED
    BY <2>3, <2>4
<1> HIDE DEF new
<1>3. \A t \in Turns : turn'[t] = new(t)
  BY <1>1
<1>4. \A t \in Turns : new(t) \in Turn
  BY <1>2 DEF Kept
<1>5. QED
  BY <1>1, <1>2, <1>3, <1>4

LEMMA KillEnds ==
  ASSUME TypeOK, AllSane, Kill
  PROVE  /\ turn' \in [Turns -> Turn]
         /\ \A t \in Turns :
              /\ Sane(turn'[t]) /\ turn'[t].msg = turn[t].msg
              /\ Running(t) => turn'[t].pc = "over" /\ turn'[t].why = "killed"
              /\ ~Running(t) => turn'[t] = turn[t]
<1> DEFINE new(t) == IF Running(t) THEN Over([turn[t] EXCEPT !.why = "killed"]) ELSE turn[t]
<1>1. turn' = [t \in Turns |-> new(t)]
  BY DEF Kill
<1>2. ASSUME NEW t \in Turns
      PROVE  /\ new(t) \in Turn /\ Sane(new(t)) /\ new(t).msg = turn[t].msg
             /\ Running(t) => new(t).pc = "over" /\ new(t).why = "killed"
             /\ ~Running(t) => new(t) = turn[t]
  <2> DEFINE r == [turn[t] EXCEPT !.why = "killed"]
  <2>1. turn[t] \in Turn /\ Sane(turn[t])
    BY DEF TypeOK, AllSane
  <2>2. r \in Turn
    BY <2>1, WhyType
  <2>3. /\ r.pc = turn[t].pc /\ r.msg = turn[t].msg /\ r.why = "killed"
        /\ r.asked = turn[t].asked /\ r.paid = turn[t].paid /\ r.result = turn[t].result
        /\ r.usage = turn[t].usage
    BY <2>1 DEF Turn
  <2> HIDE DEF r
  <2>4. Sane(r)
    BY <2>1, <2>3 DEF Sane
  <2>5. Over(r) \in Turn /\ Sane(Over(r)) /\ Over(r).msg = turn[t].msg
        /\ Over(r).pc = "over" /\ Over(r).why = "killed"
    BY <2>2, <2>3, <2>4, OverSane
  <2>6. QED
    BY <2>1, <2>5 DEF r
<1> HIDE DEF new
<1>3. \A t \in Turns : turn'[t] = new(t)
  BY <1>1
<1>4. QED
  BY <1>1, <1>2, <1>3

-----------------------------------------------------------------------------
\* Types, and what a turn has in hand.

LEMMA StoreRows ==
  ASSUME TypeOK, AllSane, NEW t \in Turns, At(t, {"settle", "keep"})
  PROVE  /\ Store(t) \in [Messages -> Row]
         /\ turn[t].msg \in Messages /\ turn[t].result \in Texts
         /\ Store(t)[turn[t].msg].text = turn[t].result
         /\ \A m \in Messages : m # turn[t].msg => Store(t)[m] = row[m]
<1>1. turn[t] \in Turn /\ Sane(turn[t])
  BY DEF TypeOK, AllSane
<1>2. turn[t].msg \in Messages /\ turn[t].flag \in BOOLEAN
  BY <1>1 DEF Turn
<1>3. turn[t].result \in Texts
  BY <1>1 DEF Sane, At
<1>4. [text |-> turn[t].result, deleted |-> turn[t].flag] \in Row
  BY <1>2, <1>3 DEF Row
<1>5. row \in [Messages -> Row]
  BY DEF TypeOK
<1>6. QED
  BY <1>2, <1>3, <1>4, <1>5 DEF Store

LEMMA OneTurn ==
  ASSUME TypeOK, AllSane, NEW t \in Turns, NEW r \in Turn, Becomes(t, r)
  PROVE  turn' \in [Turns -> Turn] /\ AllSane'
<1>1. turn \in [Turns -> Turn]
  BY DEF TypeOK
<1>2. turn' \in [Turns -> Turn]
  BY <1>1 DEF Becomes
<1>3. ASSUME NEW u \in Turns
      PROVE  Sane(turn'[u])
  BY <1>1 DEF Becomes, AllSane
<1>4. QED
  BY <1>2, <1>3 DEF AllSane

LEMMA UnregisteredType ==
  ASSUME TypeOK, NEW t \in Turns
  PROVE  Unregistered(t) \in [Messages -> Turns \cup {NoTurn}]
BY DEF TypeOK, Unregistered

LEMMA EventsType ==
  ASSUME TypeOK, events > 0, events' = events - 1
  PROVE  events' \in 0 .. MaxEvents
BY ChatAssumption DEF TypeOK

LEMMA StepSane ==
  ASSUME TypeOK, AllSane, NEW t \in Turns, Step(t)
  PROVE  TypeOK' /\ AllSane'
<1>1. turn[t].msg \in Messages
  BY DEF TypeOK, Turn
<1>2. CASE Moves(t)
  BY <1>2, OneTurn DEF Moves, TypeOK
<1>3. CASE Departs(t)
  BY <1>3, OneTurn DEF Departs, TypeOK
<1>4. CASE Finishes(t)
  <2>1. turn' \in [Turns -> Turn] /\ AllSane'
    BY <1>4, OneTurn DEF Finishes
  <2>2. row' \in [Messages -> Row]
    BY <1>4, StoreRows DEF Finishes, TypeOK, At
  <2>3. generation' \in [Messages -> Turns \cup {NoTurn}]
    BY <1>4, UnregisteredType DEF Finishes
  <2>4. QED
    BY <1>4, <2>1, <2>2, <2>3 DEF Finishes, TypeOK
<1>5. CASE Register(t)
  <2>1. turn' \in [Turns -> Turn] /\ AllSane'
    BY <1>5, RegisterKind, OneTurn
  <2>2. generation' \in [Messages -> Turns \cup {NoTurn}]
    BY <1>5 DEF Register, TypeOK
  <2>3. QED
    BY <1>5, <2>1, <2>2 DEF Register, TypeOK
<1>6. CASE SetupFails(t)
  <2>1. turn' \in [Turns -> Turn] /\ AllSane'
    BY <1>6, SetupFailsKind, OneTurn
  <2>2. QED
    BY <1>6, <2>1 DEF SetupFails, TypeOK
<1>7. CASE Enter(t)
  <2>1. turn' \in [Turns -> Turn] /\ AllSane'
    BY <1>7, EnterKind, OneTurn
  <2>2. stoppable' \subseteq Messages
    BY <1>1, <1>7 DEF Enter, TypeOK
  <2>3. QED
    BY <1>7, <2>1, <2>2 DEF Enter, TypeOK
<1>8. QED
  BY <1>2, <1>3, <1>4, <1>5, <1>6, <1>7, StepKinds

\* A turn that begins is sane, whichever message it is about.
LEMMA BeginKind ==
  ASSUME TypeOK, NEW t \in Turns, Send(t) \/ Regenerate(t)
  PROVE  \E m \in Messages, r \in Turn :
           /\ turn' = [turn EXCEPT ![t] = r] /\ Sane(r)
           /\ r.pc = "setup" /\ r.why = "" /\ r.msg = m
           /\ \/ row' = row /\ row[m].text # "none"
              \/ row' = [row EXCEPT ![t].text = "empty"] /\ m = t
<1>1. PICK m \in Messages, again \in BOOLEAN, panel \in BOOLEAN :
        /\ Become(t, NewTurn("setup", m, again, panel))
        /\ \/ row' = row /\ row[m].text # "none"
           \/ row' = [row EXCEPT ![t].text = "empty"] /\ m = t
  <2>1. CASE Send(t)
    <3>1. t \in Messages
      BY DEF Messages
    <3>2. QED
      BY <2>1, <3>1 DEF Send
  <2>2. CASE Regenerate(t)
    BY <2>2 DEF Regenerate
  <2>3. QED
    BY <2>1, <2>2
<1> DEFINE r == NewTurn("setup", m, again, panel)
<1>2. /\ r \in Turn /\ r.pc = "setup" /\ r.msg = m /\ r.why = "" /\ ~r.asked
      /\ r.paid = <<>> /\ r.result = "none"
  <2>1. r \in Turn
    BY SetupType
  <2>2. QED
    BY <2>1 DEF NewTurn
<1>3. turn' = [turn EXCEPT ![t] = r]
  BY <1>1 DEF Become
<1> HIDE DEF r
<1>4. Sane(r)
  BY <1>2 DEF Sane
<1>5. QED
  BY <1>1, <1>2, <1>3, <1>4

LEMMA BeginSane ==
  ASSUME TypeOK, AllSane, NEW t \in Turns, Send(t) \/ Regenerate(t)
  PROVE  TypeOK' /\ AllSane'
<1>1. PICK m \in Messages, r \in Turn :
        /\ turn' = [turn EXCEPT ![t] = r] /\ Sane(r)
        /\ row' = row \/ row' = [row EXCEPT ![t].text = "empty"]
  BY BeginKind
<1>2. turn' \in [Turns -> Turn] /\ AllSane'
  BY <1>1 DEF AllSane, TypeOK
<1>3. row' \in [Messages -> Row]
  <2>1. row \in [Messages -> Row] /\ t \in Messages
    BY DEF TypeOK, Messages
  <2>2. [row[t] EXCEPT !.text = "empty"] \in Row
    BY <2>1 DEF Row
  <2>3. QED
    BY <1>1, <2>1, <2>2
<1>4. events' \in 0 .. MaxEvents
  BY EventsType DEF Send, Regenerate, Begins
<1>5. UNCHANGED <<generation, stoppable, tab, gone>>
  BY DEF Send, Regenerate
<1>6. QED
  BY <1>2, <1>3, <1>4, <1>5 DEF TypeOK

\* A stop concerns the turn registered for the message.
LEMMA StopKind ==
  ASSUME TypeOK, AllSane, NEW m \in Messages, Stop(m)
  PROVE  /\ generation[m] \in Turns /\ m \in stoppable /\ tab
         /\ Caught(generation[m]) \/ Halted(generation[m])
         /\ stoppable' = stoppable \ {m} /\ UNCHANGED <<tab, gone>>
<1>1. generation[m] \in Turns
  BY DEF Stop, TypeOK
<1>2. Caught(generation[m]) \/ Halted(generation[m])
  BY <1>1, StruckKinds DEF Stop
<1>3. QED
  BY <1>1, <1>2 DEF Stop

LEMMA StopSane ==
  ASSUME TypeOK, AllSane, NEW m \in Messages, Stop(m)
  PROVE  TypeOK' /\ AllSane'
<1>1. PICK t \in Turns : (Caught(t) \/ Halted(t)) /\ stoppable' = stoppable \ {m}
  BY StopKind
<1>2. turn' \in [Turns -> Turn] /\ AllSane'
  BY <1>1, OneTurn DEF Caught, Halted
<1>3. row' \in [Messages -> Row]
  BY <1>1, StoreRows DEF Caught, Halted, TypeOK
<1>4. generation' \in [Messages -> Turns \cup {NoTurn}]
  BY <1>1, UnregisteredType DEF Caught, Halted, TypeOK
<1>5. events' \in 0 .. MaxEvents
  BY EventsType DEF Stop, Happens
<1>6. QED
  BY <1>1, <1>2, <1>3, <1>4, <1>5 DEF Stop, TypeOK

LEMMA AllKept ==
  ASSUME TypeOK, AllSane, turn' \in [Turns -> Turn],
         \A t \in Turns : Kept(turn'[t], turn[t])
  PROVE  AllSane'
BY KeptSane DEF AllSane

\* Leaving, returning and disconnecting replace the coordinator, or nothing.
LEMMA SwitchKinds ==
  ASSUME Leave \/ Return \/ Disconnect
  PROVE  /\ \/ Switched
            \/ Active # {} /\ UNCHANGED <<generation, stoppable, turn>>
         /\ tab' \in BOOLEAN /\ UNCHANGED <<row, gone>>
         /\ events' = events \/ (events > 0 /\ events' = events - 1)
BY DEF Leave, Return, Disconnect, KeepsActive, Happens, Switched

LEMMA SwitchSane ==
  ASSUME TypeOK, AllSane, Leave \/ Return \/ Disconnect
  PROVE  TypeOK' /\ AllSane'
<1>1. events' \in 0 .. MaxEvents
  BY SwitchKinds, EventsType DEF TypeOK
<1>2. CASE Switched
  <2>1. turn' \in [Turns -> Turn] /\ AllSane'
    <3>1. turn' \in [Turns -> Turn] /\ \A t \in Turns : Kept(turn'[t], turn[t])
      BY <1>2, ReplacedKeeps
    <3>2. QED
      BY <3>1, AllKept
  <2>2. generation' \in [Messages -> Turns \cup {NoTurn}] /\ stoppable' = {}
    BY <1>2 DEF Switched, Replaced
  <2>3. QED
    BY <1>1, <2>1, <2>2, SwitchKinds DEF TypeOK
<1>3. CASE UNCHANGED <<generation, stoppable, turn>>
  BY <1>1, <1>3, SwitchKinds DEF TypeOK, AllSane
<1>4. QED
  BY <1>2, <1>3, SwitchKinds

LEMMA TroubleSane ==
  ASSUME TypeOK, AllSane, (\E m \in Messages : SoftDelete(m)) \/ Delete \/ Kill
  PROVE  TypeOK' /\ AllSane'
<1>1. events' \in 0 .. MaxEvents
  BY EventsType DEF SoftDelete, Delete, Kill, Happens
<1>2. CASE \E m \in Messages : SoftDelete(m)
  <2>1. PICK m \in Messages : SoftDelete(m)
    BY <1>2
  <2>2. turn' \in [Turns -> Turn] /\ AllSane'
    BY <2>1, DeletedKeeps, AllKept
  <2>3. [row[m] EXCEPT !.deleted = TRUE] \in Row
    BY DEF TypeOK, Row
  <2>4. row' \in [Messages -> Row]
    BY <2>1, <2>3 DEF SoftDelete, TypeOK
  <2>5. QED
    BY <1>1, <2>1, <2>2, <2>4 DEF SoftDelete, TypeOK
<1>3. CASE Delete
  <2>1. [text |-> "none", deleted |-> FALSE] \in Row
    BY DEF Row
  <2>2. row' \in [Messages -> Row]
    BY <1>3, <2>1 DEF Delete
  <2>3. QED
    BY <1>1, <1>3, <2>2 DEF Delete, TypeOK, AllSane
<1>4. CASE Kill
  <2>1. turn' \in [Turns -> Turn] /\ AllSane'
    BY <1>4, KillEnds DEF AllSane
  <2>2. generation' \in [Messages -> Turns \cup {NoTurn}] /\ stoppable' = {} /\ tab' = FALSE
    BY <1>4 DEF Kill
  <2>3. QED
    BY <1>1, <1>4, <2>1, <2>2 DEF Kill, TypeOK
<1>5. QED
  BY <1>2, <1>3, <1>4

LEMMA InitSane == Init => TypeOK /\ AllSane
<1> SUFFICES ASSUME Init PROVE TypeOK /\ AllSane
  OBVIOUS
<1>1. \A t \in Turns : /\ turn[t] \in Turn /\ turn[t].pc = "idle" /\ ~turn[t].asked
                       /\ turn[t].paid = <<>> /\ turn[t].result = "none"
  <2>1. \A t \in Turns : t \in Messages
    BY DEF Messages
  <2>2. \A t \in Turns : turn[t] = NewTurn("idle", t, FALSE, FALSE)
    BY DEF Init
  <2>3. QED
    BY <2>1, <2>2, IdleType
<1>2. turn \in [Turns -> Turn]
  BY <1>1 DEF Init
<1>3. AllSane
  BY <1>1 DEF AllSane, Sane
<1>4. row \in [Messages -> Row]
  BY DEF Init, Row
<1>5. events \in 0 .. MaxEvents
  BY ChatAssumption DEF Init
<1>6. QED
  BY <1>2, <1>3, <1>4, <1>5 DEF Init, TypeOK

LEMMA NextSane == TypeOK /\ AllSane /\ [Next]_vars => (TypeOK /\ AllSane)'
<1> SUFFICES ASSUME TypeOK, AllSane, [Next]_vars PROVE TypeOK' /\ AllSane'
  OBVIOUS
<1>1. CASE UNCHANGED vars
  BY <1>1 DEF vars, TypeOK, AllSane
<1>2. CASE Next
  BY <1>2, BeginSane, StepSane, StopSane, SwitchSane, TroubleSane DEF Next
<1>3. QED
  BY <1>1, <1>2

LEMMA SaneInvariant == Spec => [](TypeOK /\ AllSane)
BY InitSane, NextSane, PTL DEF Spec

\* Every variable keeps its type, whatever is stopped, switched, deleted or killed.
THEOREM TypeCorrect == Spec => []TypeOK
BY SaneInvariant, PTL

\* A turn is paid for once, what is kept and cost something is paid for, and an
\* apology is free (the debits of check_streaming_credit_usage and
\* finalize_ai_message), for any number of turns and rounds.
THEOREM PaidAlwaysOnce == Spec => []PaidOnce
<1>1. ASSUME TypeOK, AllSane
      PROVE  PaidOnce
  <2> SUFFICES ASSUME NEW t \in Turns
               PROVE  /\ Len(turn[t].paid) <= 1 \/ (turn[t].asked /\ turn[t].paid = <<"part", "full">>)
                      /\ At(t, {"keep"}) /\ turn[t].usage /\ turn[t].result # "short"
                           => turn[t].paid # <<>>
                      /\ turn[t].result = "apology" =>
                           turn[t].paid = <<>> \/ (turn[t].asked /\ turn[t].paid = <<"part">>)
    BY DEF PaidOnce
  <2>1. Sane(turn[t])
    BY <1>1 DEF AllSane
  <2>2. Len(turn[t].paid) <= 1 \/ (turn[t].asked /\ turn[t].paid = <<"part", "full">>)
    <3>1. \/ turn[t].paid = <<>> \/ turn[t].paid = <<"part">> \/ turn[t].paid = <<"full">>
          \/ turn[t].asked /\ turn[t].paid = <<"part", "full">>
      BY <2>1 DEF Sane
    <3>2. CASE turn[t].paid = <<>>
      BY <3>2, Debits
    <3>3. CASE turn[t].paid = <<"part">>
      BY <3>3, Debits
    <3>4. CASE turn[t].paid = <<"full">>
      BY <3>4, Debits
    <3>5. QED
      BY <3>1, <3>2, <3>3, <3>4
  <2>3. At(t, {"keep"}) /\ turn[t].usage /\ turn[t].result # "short" => turn[t].paid # <<>>
    BY <2>1 DEF Sane, At
  <2>4. turn[t].result = "apology" =>
          turn[t].paid = <<>> \/ (turn[t].asked /\ turn[t].paid = <<"part">>)
    <3>1. turn[t] \in Turn
      BY <1>1 DEF TypeOK
    <3>2. turn[t].result = "apology" => turn[t].pc \in After \cup {"keep"}
      BY <2>1, <3>1 DEF Sane, Turn
    <3>3. QED
      BY <2>1, <3>2 DEF Sane
  <2>5. QED
    BY <2>2, <2>3, <2>4
<1>2. QED
  BY <1>1, SaneInvariant, PTL

-----------------------------------------------------------------------------
\* The task registered for a message is a turn about it that its coordinator still
\* knows; a message may be stopped while a turn about it is in its loop; a turn struck
\* where nothing catches the stop was not the only one about its message.
Known(m) == /\ turn[generation[m]].msg = m /\ Here(generation[m])
            /\ ~At(generation[m], {"idle", "setup", "over"})
Looping(m) == \E u \in Turns : At(u, Loop) /\ turn[u].msg = m /\ Here(u)

Registered ==
  /\ \A m \in Messages : generation[m] # NoTurn => Known(m)
  /\ \A m \in stoppable : Looping(m)
  /\ \A t \in Turns : turn[t].why = "struck" => Twins(t)

\* A row is there once its turn has begun, and has a text once that ended well.
FilledAt(t) ==
  /\ turn[t].pc = "idle" => row[t].text = "none"
  /\ turn[t].pc # "idle" => gone \/ row[turn[t].msg].text # "none"
  /\ turn[t].pc = "over" /\ turn[t].why = "" => gone \/ row[turn[t].msg].text \in Texts

Filled == \A t \in Turns : FilledAt(t)

\* One turn that has begun goes on.
GoesOn(t, r) ==
  /\ turn' = [turn EXCEPT ![t] = r]
  /\ r \in Turn /\ r.msg = turn[t].msg
  /\ turn[t].pc # "idle" /\ r.pc # "idle"

LEMMA OthersStay ==
  ASSUME TypeOK, NEW t \in Turns, NEW r \in Turn, GoesOn(t, r)
  PROVE  /\ turn'[t] = r /\ turn'[t].msg = turn[t].msg
         /\ \A u \in Turns \ {t} : turn'[u] = turn[u]
BY DEF GoesOn, TypeOK

\* Who is a twin remains one.
LEMMA TwinsStay ==
  ASSUME TypeOK, NEW t \in Turns, NEW r \in Turn, GoesOn(t, r), NEW u \in Turns, Twins(u)
  PROVE  Twins(u)'
<1>1. PICK v \in Turns \ {u} : turn[v].pc # "idle" /\ turn[v].msg = turn[u].msg
  BY DEF Twins, At
<1>2. turn'[v].pc # "idle" /\ turn'[v].msg = turn[v].msg /\ turn'[u].msg = turn[u].msg
  BY <1>1, OthersStay DEF GoesOn
<1>3. QED
  BY <1>1, <1>2 DEF Twins, At

\* Nobody may be stopped for a turn that leaves its loop.
NoStopLeft(t, r) ==
  /\ stoppable' \subseteq stoppable
  /\ r.pc \in Loop \/ turn[t].pc \notin Loop \/ ~Here(t) \/ turn[t].msg \notin stoppable'

LEMMA LoopingStays ==
  ASSUME TypeOK, Registered, NEW t \in Turns, NEW r \in Turn, GoesOn(t, r),
         r.reach = turn[t].reach \/ r.pc \notin Loop, NoStopLeft(t, r)
  PROVE  \A m \in stoppable' : Looping(m)'
<1>1. turn'[t] = r /\ \A u \in Turns \ {t} : turn'[u] = turn[u]
  BY OthersStay
<1>2. ASSUME NEW m \in stoppable'
      PROVE  Looping(m)'
  <2>1. PICK u \in Turns : At(u, Loop) /\ turn[u].msg = m /\ Here(u)
    BY DEF Registered, Looping, NoStopLeft
  <2>2. At(u, Loop)' /\ turn'[u].msg = m /\ Here(u)'
    BY <1>1, <2>1 DEF GoesOn, NoStopLeft, At, Here
  <2>3. QED
    BY <2>2 DEF Looping
<1>3. QED
  BY <1>2

LEMMA StruckStays ==
  ASSUME TypeOK, Registered, NEW t \in Turns, NEW r \in Turn, GoesOn(t, r),
         r.why = "struck" => Twins(t)
  PROVE  \A u \in Turns : turn'[u].why = "struck" => Twins(u)'
BY OthersStay, TwinsStay DEF Registered

\* The steps of one turn t that becomes r, by what they do to the registered tasks:
\* nothing, ...
LEMMA StaysRegistered ==
  ASSUME TypeOK, Registered, NEW t \in Turns, NEW r \in Turn, GoesOn(t, r),
         r.reach = turn[t].reach \/ turn[t].pc = "setup", r.why = "struck" => Twins(t),
         r.pc \notin {"setup", "over"} \/ turn[t].pc = "setup",
         r.reach = turn[t].reach \/ r.pc \notin Loop,
         NoStopLeft(t, r), UNCHANGED generation
  PROVE  Registered'
<1>1. turn'[t] = r /\ \A u \in Turns \ {t} : turn'[u] = turn[u]
  BY OthersStay
<1>2. ASSUME NEW m \in Messages, generation[m] # NoTurn
      PROVE  Known(m)'
  <2>1. Known(m) /\ generation[m] \in Turns
    BY <1>2 DEF Registered, TypeOK
  <2>2. QED
    BY <1>1, <2>1 DEF Known, GoesOn, Here, At
<1>3. QED
  BY <1>2, LoopingStays, StruckStays DEF Registered

\* ... taking t out, ...
LEMMA EndsUnregistered ==
  ASSUME TypeOK, Registered, NEW t \in Turns, NEW r \in Turn, GoesOn(t, r),
         r.why = "struck" => Twins(t), r.pc = "over",
         NoStopLeft(t, r), generation' = Unregistered(t)
  PROVE  Registered'
<1>1. turn'[t] = r /\ \A u \in Turns \ {t} : turn'[u] = turn[u]
  BY OthersStay
<1>2. ASSUME NEW m \in Messages, generation'[m] # NoTurn
      PROVE  Known(m)'
  <2>1. generation'[m] = generation[m]
    BY <1>2 DEF Unregistered, TypeOK
  <2>2. Known(m) /\ generation[m] \in Turns
    BY <1>2, <2>1 DEF Registered, TypeOK
  <2>3. generation[m] # t
    BY <1>2, <2>1, <2>2 DEF Unregistered, TypeOK, Known
  <2>4. QED
    BY <1>1, <2>1, <2>2, <2>3 DEF Known, Here, At
<1>3. QED
  BY <1>2, LoopingStays, StruckStays DEF Registered

\* ... and putting it in.
LEMMA BeginsRegistered ==
  ASSUME TypeOK, AllSane, Registered, NEW t \in Turns, Register(t)
  PROVE  Registered'
<1>1. PICK r \in Turn : /\ Becomes(t, r) /\ r.pc = "begin"
                        /\ r.reach = turn[t].reach /\ r.why = turn[t].why
  BY RegisterKind
<1>2. GoesOn(t, r) /\ (r.why = "struck" => Twins(t)) /\ NoStopLeft(t, r)
  BY <1>1 DEF GoesOn, Becomes, Register, At, Registered, NoStopLeft
<1>3. turn'[t] = r /\ \A u \in Turns \ {t} : turn'[u] = turn[u]
  BY <1>2, OthersStay
<1>4. ASSUME NEW m \in Messages, generation'[m] # NoTurn
      PROVE  Known(m)'
  <2>1. CASE Here(t) /\ m = turn[t].msg
    <3>1. generation'[m] = t
      BY <2>1 DEF Register, TypeOK
    <3>2. QED
      BY <1>1, <1>3, <2>1, <3>1 DEF Becomes, Known, Here, At
  <2>2. CASE ~(Here(t) /\ m = turn[t].msg)
    <3>1. generation'[m] = generation[m]
      BY <2>2 DEF Register, TypeOK
    <3>2. Known(m) /\ generation[m] \in Turns
      BY <1>4, <3>1 DEF Registered, TypeOK
    <3>3. generation[m] # t
      BY <3>2 DEF Known, Register, At
    <3>4. QED
      BY <1>3, <3>1, <3>2, <3>3 DEF Known, Here, At
  <2>3. QED
    BY <2>1, <2>2
<1>5. QED
  BY <1>1, <1>2, <1>4, LoopingStays, StruckStays DEF Registered

\* A turn that enters its loop may be stopped.
LEMMA EntersRegistered ==
  ASSUME TypeOK, AllSane, Registered, NEW t \in Turns, Enter(t)
  PROVE  Registered'
<1>1. PICK r \in Turn : /\ Becomes(t, r) /\ r.pc \in Loop
                        /\ r.reach = turn[t].reach /\ r.why = turn[t].why
  BY EnterKind
<1>2. GoesOn(t, r) /\ (r.why = "struck" => Twins(t))
  BY <1>1 DEF GoesOn, Becomes, Enter, At, Registered
<1>3. turn'[t] = r /\ \A u \in Turns \ {t} : turn'[u] = turn[u]
  BY <1>2, OthersStay
<1>4. ASSUME NEW m \in Messages, generation'[m] # NoTurn
      PROVE  Known(m)'
  <2>1. generation'[m] = generation[m]
    BY DEF Enter
  <2>2. Known(m) /\ generation[m] \in Turns
    BY <1>4, <2>1 DEF Registered, TypeOK
  <2>3. QED
    BY <1>1, <1>3, <2>1, <2>2 DEF Known, GoesOn, Becomes, Here, At
<1>5. ASSUME NEW m \in stoppable'
      PROVE  Looping(m)'
  <2>1. CASE Here(t) /\ m = turn[t].msg
    BY <1>1, <1>3, <2>1 DEF Looping, Becomes, Here, At
  <2>2. CASE ~(Here(t) /\ m = turn[t].msg)
    <3>1. m \in stoppable
      BY <2>2 DEF Enter
    <3>2. PICK u \in Turns : At(u, Loop) /\ turn[u].msg = m /\ Here(u)
      BY <3>1 DEF Registered, Looping
    <3>3. At(u, Loop)' /\ turn'[u].msg = m /\ Here(u)'
      BY <1>1, <1>3, <3>2 DEF Becomes, At, Here
    <3>4. QED
      BY <3>3 DEF Looping
  <2>3. QED
    BY <2>1, <2>2
<1>6. QED
  BY <1>2, <1>4, <1>5, StruckStays DEF Registered

LEMMA StepRegistered ==
  ASSUME TypeOK, AllSane, Registered, NEW t \in Turns, Step(t)
  PROVE  Registered'
<1>1. turn[t].why = "struck" => Twins(t)
  BY DEF Registered
<1>2. CASE Moves(t)
  <2>1. PICK r \in Turn : /\ Becomes(t, r) /\ r.reach = turn[t].reach /\ r.why = turn[t].why
                          /\ \/ turn[t].pc \in Loop /\ r.pc \in Loop
                             \/ turn[t].pc \in After /\ r.pc \in After \cup {"keep"}
    BY <1>2 DEF Moves
  <2>2. GoesOn(t, r) /\ NoStopLeft(t, r)
    BY <1>2, <2>1 DEF Moves, Becomes, GoesOn, NoStopLeft
  <2>3. QED
    BY <1>1, <1>2, <2>1, <2>2, StaysRegistered DEF Moves
<1>3. CASE Departs(t)
  <2>1. PICK r \in Turn : /\ Becomes(t, r) /\ r.reach = turn[t].reach /\ r.why = turn[t].why
                          /\ r.pc \in After \cup {"keep"}
    BY <1>3 DEF Departs
  <2>2. GoesOn(t, r) /\ NoStopLeft(t, r)
    BY <1>3, <2>1 DEF Departs, Becomes, GoesOn, NoStopLeft, At
  <2>3. QED
    BY <1>1, <1>3, <2>1, <2>2, StaysRegistered DEF Departs
<1>4. CASE Finishes(t)
  <2>1. PICK r \in Turn : Becomes(t, r) /\ r.pc = "over" /\ (r.why = "struck" => Twins(t))
    BY <1>1, <1>4 DEF Finishes
  <2>2. GoesOn(t, r) /\ NoStopLeft(t, r)
    BY <1>4, <2>1 DEF Finishes, Becomes, GoesOn, NoStopLeft
  <2>3. QED
    BY <1>4, <2>1, <2>2, EndsUnregistered DEF Finishes
<1>5. CASE SetupFails(t)
  <2>1. PICK r \in Turn : Becomes(t, r) /\ r.pc = "over" /\ r.why = "setup"
    BY <1>5, SetupFailsKind
  <2>2. GoesOn(t, r) /\ NoStopLeft(t, r) /\ turn[t].pc = "setup"
    BY <1>5, <2>1 DEF SetupFails, Becomes, GoesOn, NoStopLeft, At
  <2>3. QED
    BY <1>5, <2>1, <2>2, StaysRegistered DEF SetupFails
<1>6. QED
  BY <1>2, <1>3, <1>4, <1>5, StepKinds, BeginsRegistered, EntersRegistered

LEMMA BeginRegistered ==
  ASSUME TypeOK, AllSane, Registered, NEW t \in Turns, Send(t) \/ Regenerate(t)
  PROVE  Registered'
<1>1. PICK m \in Messages, r \in Turn :
        /\ turn' = [turn EXCEPT ![t] = r]
        /\ r.pc = "setup" /\ r.why = "" /\ r.msg = m
  <2>1. PICK m \in Messages, r \in Turn :
          /\ turn' = [turn EXCEPT ![t] = r] /\ Sane(r)
          /\ r.pc = "setup" /\ r.why = "" /\ r.msg = m
          /\ \/ row' = row /\ row[m].text # "none"
             \/ row' = [row EXCEPT ![t].text = "empty"] /\ m = t
    BY BeginKind
  <2>2. QED
    BY <2>1
<1>2. turn[t].pc = "idle" /\ UNCHANGED <<generation, stoppable>>
  BY DEF Send, Regenerate, Begins, At
<1>3. turn'[t] = r /\ \A u \in Turns \ {t} : turn'[u] = turn[u]
  BY <1>1 DEF TypeOK
<1>4. ASSUME NEW n \in Messages, generation[n] # NoTurn
      PROVE  Known(n)'
  <2>1. Known(n) /\ generation[n] \in Turns
    BY <1>4 DEF Registered, TypeOK
  <2>2. generation[n] # t
    BY <1>2, <2>1 DEF Known, At
  <2>3. QED
    BY <1>2, <1>3, <2>1, <2>2 DEF Known, Here, At
<1>5. ASSUME NEW n \in stoppable
      PROVE  Looping(n)'
  <2>1. PICK u \in Turns : At(u, Loop) /\ turn[u].msg = n /\ Here(u)
    BY DEF Registered, Looping
  <2>2. At(u, Loop)' /\ turn'[u].msg = n /\ Here(u)'
    BY <1>2, <1>3, <2>1 DEF At, Here
  <2>3. QED
    BY <2>2 DEF Looping
<1>6. ASSUME NEW u \in Turns, turn'[u].why = "struck"
      PROVE  Twins(u)'
  <2>1. u # t /\ Twins(u)
    BY <1>1, <1>3, <1>6 DEF Registered
  <2>2. PICK v \in Turns \ {u} : turn[v].pc # "idle" /\ turn[v].msg = turn[u].msg
    BY <2>1 DEF Twins, At
  <2>3. turn'[v] = turn[v] /\ turn'[u] = turn[u]
    BY <1>2, <1>3, <2>1, <2>2
  <2>4. QED
    BY <2>2, <2>3 DEF Twins, At
<1>7. QED
  BY <1>2, <1>4, <1>5, <1>6 DEF Registered

\* A stop finds its turn in the loop, or another turn about the message there.
LEMMA StopFinds ==
  ASSUME TypeOK, Registered, NEW m \in Messages, Stop(m)
  PROVE  /\ generation[m] \in Turns /\ Known(m)
         /\ At(generation[m], Loop) \/ Twins(generation[m])
<1>1. generation[m] \in Turns /\ m \in stoppable /\ generation[m] # NoTurn
  BY DEF Stop, TypeOK
<1>2. Known(m)
  BY <1>1 DEF Registered
<1>3. PICK u \in Turns : At(u, Loop) /\ turn[u].msg = m /\ Here(u)
  BY <1>1 DEF Registered, Looping
<1>4. CASE u = generation[m]
  BY <1>1, <1>2, <1>3, <1>4
<1>5. CASE u # generation[m]
  BY <1>1, <1>2, <1>3, <1>5 DEF Twins, Known, At
<1>6. QED
  BY <1>1, <1>2, <1>4, <1>5

LEMMA StopRegistered ==
  ASSUME TypeOK, AllSane, Registered, NEW m \in Messages, Stop(m)
  PROVE  Registered'
<1> DEFINE t == generation[m]
<1>1. /\ t \in Turns /\ turn[t].msg = m /\ turn[t].pc # "idle"
      /\ turn[t].pc \in Loop \/ Twins(t)
  BY StopFinds DEF Known, At
<1>2. (Caught(t) \/ Halted(t)) /\ stoppable' = stoppable \ {m}
  BY StopKind
<1> HIDE DEF t
<1>3. CASE Caught(t)
  <2>1. PICK r \in Turn : /\ Becomes(t, r) /\ r.reach = turn[t].reach /\ r.why = turn[t].why
                          /\ r.pc \in After \cup Streaming
    BY <1>3 DEF Caught
  <2>2. GoesOn(t, r) /\ NoStopLeft(t, r)
    BY <1>1, <1>2, <2>1 DEF Becomes, GoesOn, NoStopLeft
  <2>3. r.why = "struck" => Twins(t)
    BY <1>1, <2>1 DEF Registered
  <2>4. QED
    BY <1>1, <1>3, <2>1, <2>2, <2>3, StaysRegistered DEF Caught
<1>4. CASE Halted(t)
  <2>1. PICK r \in Turn : /\ Becomes(t, r) /\ r.pc = "over"
                          /\ r.why = IF At(t, Loop) THEN "halted" ELSE "struck"
    BY <1>4 DEF Halted
  <2>2. GoesOn(t, r) /\ NoStopLeft(t, r)
    BY <1>1, <1>2, <2>1 DEF Becomes, GoesOn, NoStopLeft
  <2>3. r.why = "struck" => Twins(t)
    BY <1>1, <2>1 DEF At
  <2>4. QED
    BY <1>1, <1>4, <2>1, <2>2, <2>3, EndsUnregistered DEF Halted
<1>5. QED
  BY <1>2, <1>3, <1>4

\* When no turn begins or changes its message, twins remain twins.
LEMMA AllTwinsStay ==
  ASSUME \A u \in Turns : /\ turn'[u].msg = turn[u].msg
                          /\ turn[u].pc # "idle" => turn'[u].pc # "idle",
         NEW t \in Turns, Twins(t)
  PROVE  Twins(t)'
BY DEF Twins, At

LEMMA ReplacedRegistered ==
  ASSUME TypeOK, Registered, Switched
  PROVE  Registered'
<1>1. /\ \A m \in Messages : generation'[m] = NoTurn
      /\ stoppable' = {}
  BY DEF Switched, Replaced
<1>2. \A t \in Turns : Kept(turn'[t], turn[t])
  BY ReplacedKeeps
<1>3. \A t \in Turns : turn'[t].why = "struck" => Twins(t)'
  BY <1>2, AllTwinsStay DEF Kept, Registered
<1>4. QED
  BY <1>1, <1>3 DEF Registered

LEMMA UnchangedRegistered ==
  ASSUME Registered, UNCHANGED <<generation, stoppable, turn>>
  PROVE  Registered'
BY DEF Registered, Known, Looping, Twins, Here, At

LEMMA DeletedRegistered ==
  ASSUME TypeOK, Registered, NEW m \in Messages, SoftDelete(m)
  PROVE  Registered'
<1>1. /\ \A t \in Turns : Kept(turn'[t], turn[t]) /\ turn'[t].reach = turn[t].reach
      /\ UNCHANGED <<generation, stoppable>>
  BY DeletedKeeps DEF SoftDelete
<1>2. \A t \in Turns : turn'[t].why = "struck" => Twins(t)'
  BY <1>1, AllTwinsStay DEF Kept, Registered
<1>3. \A n \in Messages : generation[n] # NoTurn => Known(n)'
  BY <1>1 DEF Kept, Registered, Known, TypeOK, Here, At
<1>4. \A n \in stoppable : Looping(n)'
  BY <1>1 DEF Kept, Registered, Looping, Here, At
<1>5. QED
  BY <1>1, <1>2, <1>3, <1>4 DEF Registered

LEMMA KillRegistered ==
  ASSUME TypeOK, AllSane, Registered, Kill
  PROVE  Registered'
<1>1. /\ \A m \in Messages : generation'[m] = NoTurn
      /\ stoppable' = {}
  BY DEF Kill
<1>2. \A t \in Turns : /\ turn'[t].msg = turn[t].msg
                       /\ turn[t].pc # "idle" => turn'[t].pc # "idle"
                       /\ turn'[t].why = "struck" => turn[t].why = "struck"
  BY KillEnds
<1>3. ASSUME NEW t \in Turns, turn'[t].why = "struck"
      PROVE  Twins(t)'
  <2>1. Twins(t)
    BY <1>2, <1>3 DEF Registered
  <2>2. QED
    BY <1>2, <2>1, AllTwinsStay
<1>4. QED
  BY <1>1, <1>3 DEF Registered

LEMMA InitRegistered == Init => Registered
<1> SUFFICES ASSUME Init PROVE Registered
  OBVIOUS
<1>1. ASSUME NEW t \in Turns
      PROVE  turn[t].why = ""
  <2>1. turn[t] = NewTurn("idle", t, FALSE, FALSE) /\ t \in Messages
    BY DEF Init, Messages
  <2>2. QED
    BY <2>1, IdleType
<1>2. QED
  BY <1>1 DEF Init, Registered

LEMMA NextRegistered ==
  ASSUME TypeOK, AllSane, Registered, [Next]_vars
  PROVE  Registered'
<1>1. CASE UNCHANGED vars
  BY <1>1, UnchangedRegistered DEF vars
<1>2. CASE Leave \/ Return \/ Disconnect
  BY <1>2, SwitchKinds, ReplacedRegistered, UnchangedRegistered
<1>3. CASE Delete
  BY <1>3, UnchangedRegistered DEF Delete
<1>4. CASE Next
  BY <1>2, <1>3, <1>4, BeginRegistered, StepRegistered, StopRegistered, DeletedRegistered,
     KillRegistered DEF Next
<1>5. QED
  BY <1>1, <1>4

LEMMA RegisteredInvariant == Spec => [](TypeOK /\ AllSane /\ Registered)
<1>1. TypeOK /\ AllSane /\ Registered /\ [Next]_vars => (TypeOK /\ AllSane /\ Registered)'
  BY NextSane, NextRegistered
<1>2. QED
  BY <1>1, InitSane, InitRegistered, PTL DEF Spec

\* A turn a stop was acknowledged for does not go on to an answer, and no stop strikes a
\* turn past its loop unless another turn about the message is in its own
\* (cancel_generation and the finally clauses of stream_ai_response and _run_generation).
THEOREM StopIsHeard == Spec => []StopHeard
<1>1. AllSane /\ Registered => StopHeard
  BY DEF AllSane, Sane, Registered, StopHeard
<1>2. QED
  BY <1>1, RegisteredInvariant, PTL

-----------------------------------------------------------------------------
\* What may happen to a turn that can be stopped while it is in its loop.
StopKept(t) == Stoppable(t)' \/ turn'[t].asked \/ turn'[t].pc \notin Loop \/ turn'[t].reach = "away"

\* Another turn, about another message, leaves the registrations of this one alone.
Untouched(t) ==
  /\ turn'[t].msg = turn[t].msg /\ turn'[t].reach = turn[t].reach
  /\ turn[t].msg \in stoppable'
  /\ generation'[turn[t].msg] = t

LEMMA UntouchedKept ==
  ASSUME NEW t \in Turns, Stoppable(t), Untouched(t)
  PROVE  StopKept(t)
BY DEF Stoppable, Untouched, StopKept, Here

LEMMA OtherStepKept ==
  ASSUME TypeOK, AllSane, NEW t \in Turns, Stoppable(t), At(t, Loop), ~Twins(t),
         NEW u \in Turns \ {t}, Step(u)
  PROVE  StopKept(t)
<1>1. /\ turn[t].msg \in Messages /\ turn[t].msg \in stoppable
      /\ generation[turn[t].msg] = t
  BY DEF Stoppable, TypeOK, Turn
<1>2. turn[u].pc # "idle" => turn[u].msg # turn[t].msg
  BY DEF Twins, At
<1>3. turn'[t] = turn[t]
  <2>1. \E r \in Turn : Becomes(u, r)
    BY StepKinds, RegisterKind, SetupFailsKind, EnterKind DEF Moves, Departs, Finishes
  <2>2. QED
    BY <2>1 DEF Becomes, TypeOK
<1>4. CASE Moves(u)
  BY <1>1, <1>3, <1>4, UntouchedKept DEF Moves, Untouched
<1>5. CASE Departs(u)
  BY <1>1, <1>2, <1>3, <1>5, UntouchedKept DEF Departs, Untouched
<1>6. CASE Finishes(u)
  <2>1. generation'[turn[t].msg] = generation[turn[t].msg]
    BY <1>1, <1>2, <1>6 DEF Finishes, Unregistered, TypeOK
  <2>2. QED
    BY <1>1, <1>3, <1>6, <2>1, UntouchedKept DEF Finishes, Untouched
<1>7. CASE Register(u)
  <2>1. generation'[turn[t].msg] = generation[turn[t].msg]
    BY <1>1, <1>2, <1>7 DEF Register, TypeOK, At
  <2>2. QED
    BY <1>1, <1>3, <1>7, <2>1, UntouchedKept DEF Register, Untouched
<1>8. CASE SetupFails(u)
  BY <1>1, <1>3, <1>8, UntouchedKept DEF SetupFails, Untouched
<1>9. CASE Enter(u)
  BY <1>1, <1>3, <1>9, UntouchedKept DEF Enter, Untouched
<1>10. QED
  BY <1>4, <1>5, <1>6, <1>7, <1>8, <1>9, StepKinds

LEMMA OwnStepKept ==
  ASSUME TypeOK, AllSane, NEW t \in Turns, Stoppable(t), At(t, Loop), Step(t)
  PROVE  StopKept(t)
<1>1. turn[t].pc \in Loop
  BY DEF At
<1>2. CASE Moves(t)
  <2>1. PICK r \in Turn : Becomes(t, r) /\ r.reach = turn[t].reach
    BY <1>2 DEF Moves
  <2>2. turn'[t] = r
    BY <2>1 DEF Becomes, TypeOK
  <2>3. UNCHANGED <<generation, stoppable>>
    BY <1>2 DEF Moves
  <2>4. QED
    BY <2>1, <2>2, <2>3, UntouchedKept DEF Becomes, Untouched, Stoppable
<1>3. CASE Departs(t)
  <2>1. PICK r \in Turn : Becomes(t, r) /\ r.pc \in After \cup {"keep"}
    BY <1>3 DEF Departs
  <2>2. turn'[t] = r
    BY <2>1 DEF Becomes, TypeOK
  <2>3. QED
    BY <2>1, <2>2 DEF StopKept
<1>4. ~Finishes(t) /\ ~Register(t) /\ ~SetupFails(t) /\ ~Enter(t)
  BY <1>1 DEF Finishes, Register, SetupFails, Enter, At
<1>5. QED
  BY <1>2, <1>3, <1>4, StepKinds

LEMMA BeginStopKept ==
  ASSUME TypeOK, NEW t \in Turns, Stoppable(t), At(t, Loop),
         NEW u \in Turns, Send(u) \/ Regenerate(u)
  PROVE  StopKept(t)
<1>1. u # t /\ UNCHANGED <<generation, stoppable>>
  BY DEF Send, Regenerate, Begins, At
<1>2. PICK r : turn' = [turn EXCEPT ![u] = r]
  BY DEF Send, Regenerate, Become
<1>3. turn'[t] = turn[t]
  BY <1>1, <1>2 DEF TypeOK
<1>4. QED
  BY <1>1, <1>3, UntouchedKept DEF Stoppable, Untouched

\* A stop of this turn is acknowledged or ends it; a stop of another is another's.
LEMMA StopStopKept ==
  ASSUME TypeOK, AllSane, Registered, NEW t \in Turns, Stoppable(t), At(t, Loop),
         NEW m \in Messages, Stop(m)
  PROVE  StopKept(t)
<1> DEFINE u == generation[m]
<1>1. u \in Turns /\ turn[u].msg = m /\ (Caught(u) \/ Halted(u)) /\ stoppable' = stoppable \ {m}
  BY StopFinds, StopKind DEF Known
<1>2. u = t <=> turn[t].msg = m
  BY <1>1 DEF Stoppable
<1> HIDE DEF u
<1>3. CASE u = t
  <2>1. PICK r \in Turn : Becomes(t, r) /\ (r.asked \/ r.pc = "over")
    BY <1>1, <1>3 DEF Caught, Halted
  <2>2. turn'[t] = r
    BY <2>1 DEF Becomes, TypeOK
  <2>3. QED
    BY <2>1, <2>2 DEF StopKept
<1>4. CASE u # t
  <2>1. turn[t].msg # m /\ turn[t].msg \in Messages
    BY <1>2, <1>4 DEF TypeOK, Turn
  <2>2. PICK r \in Turn : Becomes(u, r)
    BY <1>1 DEF Caught, Halted
  <2>3. turn'[t] = turn[t]
    BY <1>1, <1>4, <2>2 DEF Becomes, TypeOK
  <2>4. generation'[turn[t].msg] = generation[turn[t].msg]
    BY <1>1, <2>1 DEF Caught, Halted, Unregistered, TypeOK
  <2>5. QED
    BY <1>1, <2>1, <2>3, <2>4, UntouchedKept DEF Stoppable, Untouched
<1>5. QED
  BY <1>3, <1>4

\* The coordinator that still streams is kept, whichever chat the user is in.
LEMMA SwitchStopKept ==
  ASSUME TypeOK, NEW t \in Turns, Stoppable(t), At(t, Loop), Leave \/ Return \/ Disconnect
  PROVE  StopKept(t)
<1>1. CASE Leave \/ Return
  <2>1. t # NoTurn /\ turn[t].msg \in Messages
    <3>1. t # NoTurn
      BY ChatAssumption DEF Turns, NoTurn
    <3>2. QED
      BY <3>1 DEF TypeOK, Turn
  <2>2. turn[t].msg \in Active
    BY <2>1 DEF Active, Stoppable
  <2>3. UNCHANGED <<generation, stoppable, turn>>
    BY <1>1, <2>2 DEF Leave, Return, KeepsActive
  <2>4. QED
    BY <2>3, UntouchedKept DEF Stoppable, Untouched
<1>2. CASE Disconnect
  <2>1. Running(t) /\ Here(t)
    BY DEF Running, At, Stoppable
  <2>2. turn'[t] = [turn[t] EXCEPT !.reach = "away"]
    BY <1>2, <2>1 DEF Disconnect, Replaced
  <2>3. turn[t] \in Turn
    BY DEF TypeOK
  <2>4. turn'[t].reach = "away"
    BY <2>2, <2>3 DEF Turn
  <2>5. QED
    BY <2>4 DEF StopKept
<1>3. QED
  BY <1>1, <1>2

LEMMA TroubleStopKept ==
  ASSUME TypeOK, AllSane, NEW t \in Turns, Stoppable(t), At(t, Loop),
         (\E m \in Messages : SoftDelete(m)) \/ Delete \/ Kill
  PROVE  StopKept(t)
<1>1. CASE \E m \in Messages : SoftDelete(m)
  <2>1. PICK m \in Messages : SoftDelete(m)
    BY <1>1
  <2>2. Kept(turn'[t], turn[t]) /\ turn'[t].reach = turn[t].reach
    BY <2>1, DeletedKeeps
  <2>3. UNCHANGED <<generation, stoppable>>
    BY <2>1 DEF SoftDelete
  <2>4. QED
    BY <2>2, <2>3, UntouchedKept DEF Kept, Stoppable, Untouched
<1>2. CASE Delete
  BY <1>2, UntouchedKept DEF Delete, Stoppable, Untouched
<1>3. CASE Kill
  <2>1. turn'[t].pc = "over"
    BY <1>3, KillEnds DEF Running, At
  <2>2. QED
    BY <2>1 DEF StopKept
<1>4. QED
  BY <1>1, <1>2, <1>3

\* A turn that can be stopped stays so while it is in its loop and its socket lives,
\* whichever chats the user visits (on_unsubscribe_conversation and
\* on_subscribe_conversation keep a coordinator with active generations).
THEOREM StopRemainsPossible == Spec => StopStaysPossible
<1>1. ASSUME TypeOK, AllSane, Registered, [Next]_vars,
             NEW t \in Turns, Stoppable(t), At(t, Loop), ~Twins(t)
      PROVE  StopKept(t)
  <2>1. CASE UNCHANGED vars
    BY <1>1, <2>1, UntouchedKept DEF vars, Stoppable, Untouched
  <2>2. CASE \E u \in Turns : Send(u) \/ Regenerate(u) \/ Step(u)
    BY <1>1, <2>2, BeginStopKept, OwnStepKept, OtherStepKept
  <2>3. CASE \E m \in Messages : Stop(m) \/ SoftDelete(m)
    BY <1>1, <2>3, StopStopKept, TroubleStopKept
  <2>4. CASE Leave \/ Return \/ Disconnect \/ Delete \/ Kill
    BY <1>1, <2>4, SwitchStopKept, TroubleStopKept
  <2>5. QED
    BY <1>1, <2>1, <2>2, <2>3, <2>4 DEF Next
<1>2. TypeOK /\ AllSane /\ Registered /\ [Next]_vars =>
        [\A t \in Turns : Stoppable(t) /\ At(t, Loop) /\ ~Twins(t) =>
           Stoppable(t)' \/ turn'[t].asked \/ turn'[t].pc \notin Loop \/ turn'[t].reach = "away"]_vars
  BY <1>1 DEF StopKept
<1>3. QED
  BY <1>2, RegisteredInvariant, PTL DEF Spec, StopStaysPossible

-----------------------------------------------------------------------------
\* A turn that goes on leaves the rows as they are, and does not end well by that, ...
LEMMA UnwrittenFilled ==
  ASSUME TypeOK, Filled, NEW t \in Turns, NEW r \in Turn, GoesOn(t, r),
         r.pc = "over" => r.why # "", UNCHANGED <<row, gone>>
  PROVE  Filled'
<1>1. turn'[t] = r /\ turn'[t].msg = turn[t].msg /\ \A u \in Turns \ {t} : turn'[u] = turn[u]
  BY OthersStay
<1>2. ASSUME NEW u \in Turns
      PROVE  FilledAt(u)'
  <2>1. FilledAt(u)
    BY DEF Filled
  <2>2. CASE u = t
    BY <1>1, <2>1, <2>2 DEF FilledAt, GoesOn
  <2>3. CASE u # t
    <3>1. turn'[u] = turn[u]
      BY <1>1, <2>3
    <3>2. QED
      BY <2>1, <3>1 DEF FilledAt
  <2>4. QED
    BY <2>2, <2>3
<1>3. QED
  BY <1>2 DEF Filled

\* ... or stores the text it has.
LEMMA StoredFilled ==
  ASSUME TypeOK, AllSane, Filled, NEW t \in Turns, NEW r \in Turn, GoesOn(t, r),
         At(t, {"settle", "keep"}), ~gone, row' = Store(t), UNCHANGED gone
  PROVE  Filled'
<1>1. turn'[t] = r /\ turn'[t].msg = turn[t].msg /\ \A u \in Turns \ {t} : turn'[u] = turn[u]
  BY OthersStay
<1>2. /\ row'[turn[t].msg].text \in Texts
      /\ \A m \in Messages : m # turn[t].msg => row'[m] = row[m]
  BY StoreRows
<1>3. row[turn[t].msg].text # "none"
  BY DEF Filled, FilledAt, At
<1>4. ASSUME NEW u \in Turns
      PROVE  /\ turn'[u].pc = "idle" => row'[u].text = "none"
             /\ turn'[u].pc # "idle" => row'[turn'[u].msg].text # "none"
             /\ turn'[u].pc = "over" /\ turn'[u].why = "" => row'[turn'[u].msg].text \in Texts
  <2>1. u \in Messages /\ turn[u].msg \in Messages
    BY DEF Messages, TypeOK, Turn
  <2>2. turn'[u].msg = turn[u].msg /\ (turn'[u].pc = "idle" <=> turn[u].pc = "idle")
    BY <1>1 DEF GoesOn
  <2>3. turn[u].pc = "idle" => u # turn[t].msg /\ row[u].text = "none"
    BY <1>3 DEF Filled, FilledAt
  <2>4. CASE turn[u].msg = turn[t].msg
    BY <1>2, <2>1, <2>2, <2>3, <2>4
  <2>5. CASE turn[u].msg # turn[t].msg
    <3>1. turn'[u] = turn[u]
      BY <1>1, <2>5
    <3>2. row'[turn[u].msg] = row[turn[u].msg]
      BY <1>2, <2>1, <2>5
    <3>3. turn[u].pc = "idle" => row'[u].text = "none"
      BY <1>2, <2>1, <2>3
    <3>4. FilledAt(u)
      BY DEF Filled
    <3>5. QED
      BY <3>1, <3>2, <3>3, <3>4 DEF FilledAt
  <2>6. QED
    BY <2>4, <2>5
<1>5. QED
  BY <1>4 DEF Filled, FilledAt

LEMMA StepFilled ==
  ASSUME TypeOK, AllSane, Filled, NEW t \in Turns, Step(t)
  PROVE  Filled'
<1>1. CASE Moves(t)
  <2>1. PICK r \in Turn : Becomes(t, r) /\ \/ turn[t].pc \in Loop /\ r.pc \in Loop
                                           \/ turn[t].pc \in After /\ r.pc \in After \cup {"keep"}
    BY <1>1 DEF Moves
  <2>2. GoesOn(t, r) /\ r.pc # "over" /\ UNCHANGED <<row, gone>>
    BY <1>1, <2>1 DEF Moves, GoesOn, Becomes
  <2>3. QED
    BY <2>2, UnwrittenFilled
<1>2. CASE Departs(t)
  <2>1. PICK r \in Turn : Becomes(t, r) /\ r.pc \in After \cup {"keep"}
    BY <1>2 DEF Departs
  <2>2. GoesOn(t, r) /\ r.pc # "over" /\ UNCHANGED <<row, gone>>
    BY <1>2, <2>1 DEF Departs, GoesOn, Becomes
  <2>3. QED
    BY <2>2, UnwrittenFilled
<1>3. CASE Finishes(t)
  <2>1. PICK r \in Turn : /\ Becomes(t, r) /\ r.pc = "over"
                          /\ \/ r.why \in {"refused", "gone"} /\ row' = row
                             \/ row' = Store(t) /\ turn[t].pc = "keep" /\ ~gone
    BY <1>3 DEF Finishes
  <2>2. GoesOn(t, r) /\ UNCHANGED gone
    BY <1>3, <2>1 DEF Finishes, GoesOn, Becomes
  <2>3. CASE r.why \in {"refused", "gone"} /\ row' = row
    BY <2>2, <2>3, UnwrittenFilled
  <2>4. CASE row' = Store(t) /\ turn[t].pc = "keep" /\ ~gone
    BY <2>2, <2>4, StoredFilled DEF At
  <2>5. QED
    BY <2>1, <2>3, <2>4
<1>4. CASE Register(t)
  <2>1. PICK r \in Turn : Becomes(t, r) /\ r.pc = "begin"
    BY <1>4, RegisterKind
  <2>2. GoesOn(t, r) /\ r.pc # "over" /\ UNCHANGED <<row, gone>>
    BY <1>4, <2>1 DEF Register, GoesOn, Becomes, At
  <2>3. QED
    BY <2>2, UnwrittenFilled
<1>5. CASE SetupFails(t)
  <2>1. PICK r \in Turn : Becomes(t, r) /\ r.pc = "over" /\ r.why = "setup"
    BY <1>5, SetupFailsKind
  <2>2. GoesOn(t, r) /\ UNCHANGED <<row, gone>>
    BY <1>5, <2>1 DEF SetupFails, GoesOn, Becomes, At
  <2>3. QED
    BY <2>1, <2>2, UnwrittenFilled
<1>6. CASE Enter(t)
  <2>1. PICK r \in Turn : Becomes(t, r) /\ r.pc \in Loop
    BY <1>6, EnterKind
  <2>2. GoesOn(t, r) /\ r.pc # "over" /\ UNCHANGED <<row, gone>>
    BY <1>6, <2>1 DEF Enter, GoesOn, Becomes, At
  <2>3. QED
    BY <2>2, UnwrittenFilled
<1>7. QED
  BY <1>1, <1>2, <1>3, <1>4, <1>5, <1>6, StepKinds

LEMMA BeginFilled ==
  ASSUME TypeOK, Filled, NEW t \in Turns, Send(t) \/ Regenerate(t)
  PROVE  Filled'
<1>1. PICK m \in Messages, r \in Turn :
        /\ turn' = [turn EXCEPT ![t] = r] /\ Sane(r)
        /\ r.pc = "setup" /\ r.why = "" /\ r.msg = m
        /\ \/ row' = row /\ row[m].text # "none"
           \/ row' = [row EXCEPT ![t].text = "empty"] /\ m = t
  BY BeginKind
<1>2. turn[t].pc = "idle" /\ UNCHANGED gone /\ ~gone
  BY DEF Send, Regenerate, Begins, At
<1>3. turn'[t] = r /\ \A u \in Turns \ {t} : turn'[u] = turn[u]
  BY <1>1 DEF TypeOK
<1>4. row[t].text = "none" /\ t \in Messages
  BY <1>2 DEF Filled, FilledAt, Messages
<1>5. /\ row'[m].text # "none"
      /\ \A n \in Messages : n # t => row'[n].text = row[n].text
  <2>1. row \in [Messages -> Row]
    BY DEF TypeOK
  <2>2. row' = [row EXCEPT ![t].text = "empty"] => row'[t].text = "empty"
    BY <1>4, <2>1 DEF Row
  <2>3. QED
    BY <1>1, <1>4, <2>1, <2>2
<1>6. ASSUME NEW u \in Turns \ {t}
      PROVE  /\ turn[u].pc = "idle" => row'[u].text = "none"
             /\ turn[u].pc # "idle" => row'[turn[u].msg].text # "none"
             /\ turn[u].pc = "over" /\ turn[u].why = "" => row'[turn[u].msg].text \in Texts
  <2>1. u \in Messages /\ turn[u].msg \in Messages
    BY DEF Messages, TypeOK, Turn
  <2>2. turn[u].pc # "idle" => turn[u].msg # t
    <3>1. FilledAt(u)
      BY DEF Filled
    <3>2. QED
      BY <1>2, <1>4, <3>1 DEF FilledAt
  <2>3. QED
    BY <1>2, <1>5, <2>1, <2>2 DEF Filled, FilledAt
<1>7. FilledAt(t)'
  BY <1>1, <1>3, <1>5 DEF FilledAt
<1>8. ASSUME NEW u \in Turns \ {t}
      PROVE  FilledAt(u)'
  BY <1>3, <1>6 DEF FilledAt
<1>9. QED
  BY <1>7, <1>8 DEF Filled

LEMMA StopFilled ==
  ASSUME TypeOK, AllSane, Registered, Filled, NEW m \in Messages, Stop(m)
  PROVE  Filled'
<1> DEFINE t == generation[m]
<1>1. t \in Turns /\ turn[t].pc # "idle" /\ (Caught(t) \/ Halted(t)) /\ UNCHANGED gone
  BY StopFinds, StopKind DEF Known, At
<1> HIDE DEF t
<1>2. CASE Caught(t)
  <2>1. PICK r \in Turn : Becomes(t, r) /\ r.pc \in After \cup Streaming
    BY <1>2 DEF Caught
  <2>2. GoesOn(t, r) /\ r.pc # "over" /\ row' = row
    BY <1>1, <1>2, <2>1 DEF Caught, GoesOn, Becomes
  <2>3. QED
    BY <1>1, <2>2, UnwrittenFilled
<1>3. CASE Halted(t)
  <2>1. PICK r \in Turn : Becomes(t, r) /\ r.pc = "over" /\ r.why # ""
    BY <1>3 DEF Halted
  <2>2. GoesOn(t, r)
    BY <1>1, <2>1 DEF GoesOn, Becomes
  <2>3. QED
    BY <1>1, <1>3, <2>1, <2>2, UnwrittenFilled, StoredFilled DEF Halted
<1>4. QED
  BY <1>1, <1>2, <1>3

\* When the turns keep where they are and why, and the rows their texts, all is as before.
LEMMA SameFilled ==
  ASSUME Filled, gone' = gone,
         \A m \in Messages : row'[m].text = row[m].text,
         \A t \in Turns : turn[t].msg \in Messages,
         \A t \in Turns : /\ turn'[t].msg = turn[t].msg
                          /\ turn'[t].pc = "idle" <=> turn[t].pc = "idle"
                          /\ turn'[t].pc = "over" /\ turn'[t].why = "" =>
                               turn[t].pc = "over" /\ turn[t].why = ""
  PROVE  Filled'
<1>1. \A t \in Turns : t \in Messages
  BY DEF Messages
<1>2. ASSUME NEW t \in Turns
      PROVE  FilledAt(t)'
  <2>1. FilledAt(t)
    BY DEF Filled
  <2>2. QED
    BY <1>1, <2>1 DEF FilledAt
<1>3. QED
  BY <1>2 DEF Filled

LEMMA OthersFilled ==
  ASSUME TypeOK, AllSane, Filled,
         \/ Leave \/ Return \/ Disconnect \/ Delete \/ Kill
         \/ \E m \in Messages : SoftDelete(m)
  PROVE  Filled'
<1>1. \A t \in Turns : turn[t].msg \in Messages
  BY DEF TypeOK, Turn
<1>2. CASE Leave \/ Return \/ Disconnect
  <2>1. UNCHANGED <<row, gone>> /\ (Switched \/ UNCHANGED turn)
    BY <1>2, SwitchKinds
  <2>2. CASE UNCHANGED turn
    BY <1>1, <2>1, <2>2, SameFilled
  <2>3. CASE Switched
    <3>1. \A t \in Turns : Kept(turn'[t], turn[t])
      BY <2>3, ReplacedKeeps
    <3>2. QED
      BY <1>1, <2>1, <3>1, SameFilled DEF Kept
  <2>4. QED
    BY <2>1, <2>2, <2>3
<1>3. CASE \E m \in Messages : SoftDelete(m)
  <2>1. PICK m \in Messages : SoftDelete(m)
    BY <1>3
  <2>2. \A t \in Turns : Kept(turn'[t], turn[t])
    BY <2>1, DeletedKeeps
  <2>3. gone' = gone /\ \A n \in Messages : row'[n].text = row[n].text
    BY <2>1 DEF SoftDelete, TypeOK, Row
  <2>4. QED
    BY <1>1, <2>2, <2>3, SameFilled DEF Kept
<1>4. CASE Delete
  <2>1. gone' /\ turn' = turn /\ \A t \in Turns : row'[t].text = "none"
    BY <1>4 DEF Delete, Messages
  <2>2. QED
    BY <2>1 DEF Filled, FilledAt
<1>5. CASE Kill
  <2>1. UNCHANGED <<row, gone>>
    BY <1>5 DEF Kill
  <2>2. \A t \in Turns : /\ turn'[t].msg = turn[t].msg
                         /\ turn'[t].pc = "idle" <=> turn[t].pc = "idle"
                         /\ turn'[t].pc = "over" /\ turn'[t].why = "" =>
                              turn[t].pc = "over" /\ turn[t].why = ""
    BY <1>5, KillEnds DEF Running, At
  <2>3. QED
    BY <1>1, <2>1, <2>2, SameFilled
<1>6. QED
  BY <1>2, <1>3, <1>4, <1>5

\* No turn ends well on an empty placeholder, for any number of turns, rounds and
\* disturbances (stream_ai_response: "Never leave the placeholder as an empty,
\* apparently streaming message").
THEOREM PlaceholderIsFilled == Spec => []PlaceholderFilled
<1>1. Init => Filled
  <2> SUFFICES ASSUME Init PROVE Filled
    OBVIOUS
  <2>1. \A t \in Turns : t \in Messages /\ t # Old
    BY ChatAssumption DEF Messages, Turns, Old
  <2>2. \A t \in Turns : turn[t].pc = "idle"
    BY <2>1, IdleType DEF Init
  <2>3. \A t \in Turns : row[t].text = "none"
    BY <2>1 DEF Init
  <2>4. QED
    BY <2>2, <2>3 DEF Filled, FilledAt
<1>2. TypeOK /\ AllSane /\ Registered /\ Filled /\ [Next]_vars => Filled'
  <2> SUFFICES ASSUME TypeOK, AllSane, Registered, Filled, [Next]_vars PROVE Filled'
    OBVIOUS
  <2>1. CASE UNCHANGED vars
    BY <2>1 DEF vars, Filled, FilledAt
  <2>2. CASE Next
    BY <2>2, BeginFilled, StepFilled, StopFilled, OthersFilled DEF Next
  <2>3. QED
    BY <2>1, <2>2
<1>3. Filled => PlaceholderFilled
  BY DEF Filled, FilledAt, PlaceholderFilled, At
<1>4. QED
  BY <1>1, <1>2, <1>3, RegisteredInvariant, PTL DEF Spec

=============================================================================
