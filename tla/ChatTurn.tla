------------------------------- MODULE ChatTurn -------------------------------
(***************************************************************************)
(* The turn of a conversation: a message is sent or an answer regenerated, *)
(* the tool loop or a panel produces the answer while the user may stop    *)
(* it, switch chats, disconnect or delete things, and the answer is paid   *)
(* for and stored in the row that was there from the beginning             *)
(* (conversations: message_coordinator, tool_loop_service, chat namespace, *)
(* message_helpers; core: billing_service).                                *)
(*                                                                         *)
(* A turn is an asyncio task; its pc names the await it is in.  A stop     *)
(* cancels the task there: some awaits catch that and keep what has        *)
(* streamed, the others end the turn.                                      *)
(***************************************************************************)
EXTENDS Naturals, FiniteSets, Sequences

CONSTANTS
  MaxTurns,   \* bound: turns of one conversation
  MaxRounds,  \* ToolLoopConfig.max_rounds
  MaxEvents   \* bound: turns begun, stops, switches, disconnections, deletions, kills

ASSUME ChatAssumption ==
  MaxTurns \in Nat /\ MaxRounds \in Nat \ {0} /\ MaxEvents \in Nat

VARIABLES
  row,         \* Message rows of the assistant: one answer that was there, and one per turn
  turn,        \* the turns, each a task of one coordinator
  generation,  \* _generation_tasks of the tab's coordinator
  stoppable,   \* its _cancellable_message_ids
  tab,         \* the tab is subscribed to the conversation
  gone,        \* the conversation was deleted
  events       \* what may still happen: see MaxEvents

vars == <<row, turn, generation, stoppable, tab, gone, events>>

Turns == 1 .. MaxTurns    \* as they begin
Old == 0
Messages == Turns \cup {Old}
NoTurn == 0

Answers == {"answer", "fallback"}    \* the turn ended by itself
Texts == Answers \cup {"stopped", "cut", "short", "apology"}
Catching == {"prepare", "stream", "rest", "gate", "tools", "panel"}
Loop == Catching \cup {"open", "trace", "capped", "wrap"}
Streaming == {"stream", "rest"}

Row == [text : {"none", "empty", "old"} \cup Texts, deleted : BOOLEAN]

Turn ==
  [pc : Loop \cup {"idle", "setup", "begin", "save", "check", "settle", "keep", "over"},
   msg : Messages, again : BOOLEAN, panel : BOOLEAN,
   reach : {"here", "lost", "away"}, asked : BOOLEAN, round : 0 .. MaxRounds + 1,
   retried : BOOLEAN, open : BOOLEAN, said : BOOLEAN, usage : BOOLEAN,
   result : Texts \cup {"none"}, flag : BOOLEAN, missed : BOOLEAN,
   paid : Seq({"part", "full"}), stored : BOOLEAN,
   why : {"", "setup", "halted", "struck", "refused", "killed", "gone"}]

TypeOK ==
  /\ row \in [Messages -> Row]
  /\ turn \in [Turns -> Turn]
  /\ generation \in [Messages -> Turns \cup {NoTurn}]
  /\ stoppable \subseteq Messages
  /\ tab \in BOOLEAN /\ gone \in BOOLEAN
  /\ events \in 0 .. MaxEvents

NewTurn(pc, m, again, panel) ==
  [pc |-> pc, msg |-> m, again |-> again, panel |-> panel,
   reach |-> "here",    \* its coordinator is the tab's; "lost" once a switch replaced
                        \* it, "away" once the socket disconnected
   asked |-> FALSE,     \* a stop was acknowledged
   round |-> 0, retried |-> FALSE,
   open |-> TRUE,       \* tools_open
   said |-> FALSE,      \* text_accum is not empty
   usage |-> FALSE,     \* token_usage costs something
   result |-> "none",   \* the text it has to store
   flag |-> FALSE,      \* is_deleted of the message object in memory
   missed |-> FALSE,    \* history: the row was deleted after flag was read
   paid |-> <<>>,       \* history: debits, of what was left or of the whole cost
   stored |-> FALSE,    \* history: its text was saved
   why |-> ""]          \* history: why it could not be

Init ==
  /\ row = [m \in Messages |-> [text |-> IF m = Old THEN "old" ELSE "none", deleted |-> FALSE]]
  /\ turn = [t \in Turns |-> NewTurn("idle", t, FALSE, FALSE)]
  /\ generation = [m \in Messages |-> NoTurn]
  /\ stoppable = {}
  /\ tab = TRUE /\ gone = FALSE
  /\ events = MaxEvents

-----------------------------------------------------------------------------
\* Steps of a task

At(t, pcs) == turn[t].pc \in pcs
Here(t) == turn[t].reach = "here"
Running(t) == ~At(t, {"idle", "over"})

Become(t, new) == turn' = [turn EXCEPT ![t] = new]

Goto(t, pc) ==
  /\ Become(t, [turn[t] EXCEPT !.pc = pc])
  /\ UNCHANGED <<row, generation, stoppable, tab, gone, events>>

\* What the loop kept count of is no more.
OutOfLoop(new) == [new EXCEPT !.round = 0, !.retried = FALSE, !.open = TRUE, !.said = FALSE,
                              !.again = FALSE, !.panel = FALSE]

\* stream_ai_response after the loop: the finally clause takes the message off the
\* ids a stop may name before anything else is awaited.  A turn out of credit is
\* stored without further ado, and an apology has nothing more to save with it.
Leaves(t, new, result, usage) ==
  /\ Become(t, [OutOfLoop(new) EXCEPT
                  !.pc = CASE result = "short" -> "keep"
                           [] result = "apology" -> "check"
                           [] OTHER -> "save",
                  !.result = result, !.usage = usage])
  /\ stoppable' = IF Here(t) /\ At(t, Loop) THEN stoppable \ {turn[t].msg} ELSE stoppable
  /\ UNCHANGED <<row, generation, tab, gone, events>>

\* _run_generation, finally: whoever ends takes the message's task out.
Unregistered(t) == IF Here(t) THEN [generation EXCEPT ![turn[t].msg] = NoTurn] ELSE generation

Over(new) == [OutOfLoop(new) EXCEPT !.pc = "over", !.reach = "here", !.usage = FALSE,
                                    !.result = "none", !.flag = FALSE, !.missed = FALSE]

Ends(t, new) ==
  /\ Become(t, Over(new))
  /\ generation' = Unregistered(t)
  /\ UNCHANGED <<stoppable, tab, gone, events>>

-----------------------------------------------------------------------------
\* Before the loop

Begins(t) ==
  /\ tab /\ ~gone /\ events > 0 /\ events' = events - 1
  /\ At(t, {"idle"}) /\ \A u \in 1 .. t - 1 : ~At(u, {"idle"})

\* handle_new_message: the placeholder is in the conversation before the task is.
Send(t) ==
  /\ Begins(t)
  /\ \E panel \in BOOLEAN : Become(t, NewTurn("setup", t, FALSE, panel))
  /\ row' = [row EXCEPT ![t].text = "empty"]
  /\ UNCHANGED <<generation, stoppable, tab, gone>>

\* handle_regenerate_response: any answer not deleted, one in the making included.
Regenerate(t) ==
  /\ Begins(t)
  /\ \E m \in Messages, panel \in BOOLEAN :
       /\ row[m].text # "none" /\ ~row[m].deleted
       /\ Become(t, NewTurn("setup", m, TRUE, panel))
  /\ UNCHANGED <<row, generation, stoppable, tab, gone>>

\* _run_generation registers the task.
Register(t) ==
  /\ At(t, {"setup"})
  /\ Become(t, [turn[t] EXCEPT !.pc = "begin"])
  /\ generation' = IF Here(t) THEN [generation EXCEPT ![turn[t].msg] = t] ELSE generation
  /\ UNCHANGED <<row, stoppable, tab, gone, events>>

\* Announcing the placeholder or choosing a title fails: only an error is sent.
SetupFails(t) ==
  /\ At(t, {"setup"})
  /\ Become(t, Over([turn[t] EXCEPT !.why = "setup"]))
  /\ UNCHANGED <<row, generation, stoppable, tab, gone, events>>

\* stream_ai_response has built its request.
Enter(t) ==
  /\ At(t, {"begin"})
  /\ Become(t, [turn[t] EXCEPT !.pc = IF turn[t].again \/ turn[t].panel THEN "open"
                                      ELSE "prepare",
                               !.again = FALSE])
  /\ stoppable' = IF Here(t) THEN stoppable \cup {turn[t].msg} ELSE stoppable
  /\ UNCHANGED <<row, generation, tab, gone, events>>

\* Fails without the except clause.
FailsSilently(t) ==
  /\ At(t, {"begin", "open", "prepare", "trace", "capped", "panel", "wrap"} \cup Streaming)
  /\ Ends(t, turn[t])
  /\ UNCHANGED row

\* stream_ai_response, except Exception: whatever fails outside the awaits that
\* handle it themselves, the placeholder gets an apology, which costs nothing.
Fails(t) ==
  /\ At(t, {"begin", "open", "prepare", "trace", "capped", "panel", "wrap"} \cup Streaming)
  /\ Leaves(t, turn[t], "apology", FALSE)

-----------------------------------------------------------------------------
\* The tool loop

\* clear_prior_tool_calls, or the set-up of a panel.
Open(t) ==
  /\ At(t, {"open"})
  /\ Become(t, [turn[t] EXCEPT !.pc = IF turn[t].panel THEN "panel" ELSE "prepare",
                               !.panel = FALSE])
  /\ UNCHANGED <<row, generation, stoppable, tab, gone, events>>

\* for stream_index in range(...): the rounds there may be, and one forced answer.
NextRound(t, new) ==
  IF new.round + 1 > MaxRounds + 1
  THEN Leaves(t, new, IF new.said THEN "answer" ELSE "fallback", new.usage)
  ELSE /\ Become(t, [new EXCEPT !.pc = "stream", !.round = new.round + 1])
       /\ UNCHANGED <<row, generation, stoppable, tab, gone, events>>

\* prepare_chat returns; a context trace is saved if there is one to save.
Prepared(t) ==
  /\ At(t, {"prepare"})
  /\ \/ NextRound(t, turn[t])
     \/ Goto(t, "trace")

Traced(t) == At(t, {"trace"}) /\ NextRound(t, turn[t])

\* CancelRequested, taking the stream's word for it.
NeverRequested(t) == FALSE

\* The HTTP stack may have absorbed a stop: the loop asks before it uses an event
\* or believes in the end of a stream.
CancelRequested(t) == turn[t].asked

\* text_accum after a round, with what its TEXT_DELTAs may have added.
Spoken(t) == {[turn[t] EXCEPT !.said = text] : text \in {turn[t].said, TRUE}}

\* USAGE: what the turn costs so far is held against the balance, unless the frame
\* is provisional.
UsageFrame(t) ==
  /\ At(t, {"stream"}) /\ ~CancelRequested(t)
  /\ \E pc \in {"stream", "gate"} : Become(t, [turn[t] EXCEPT !.pc = pc, !.usage = TRUE])
  /\ UNCHANGED <<row, generation, stoppable, tab, gone, events>>

\* An event of any kind or the end of the stream, after an absorbed stop.
StopSurfaces(t) ==
  /\ At(t, Streaming) /\ CancelRequested(t)
  /\ Leaves(t, turn[t], "stopped", TRUE)

\* check_streaming_credit_usage: what is left is taken when it does not do; a check
\* that fails interrupts the turn too.
GateOpens(t) == At(t, {"gate"}) /\ Goto(t, "rest")

\* GateCloses, the turn settled like any other.
GateClosesBilled(t) ==
  /\ At(t, {"gate"})
  /\ \E paid \in {<<>>, <<"part">>} : Leaves(t, [turn[t] EXCEPT !.paid = turn[t].paid \o paid], "cut", TRUE)

GateCloses(t) ==
  /\ At(t, {"gate"})
  /\ \E paid \in {<<>>, <<"part">>} : Leaves(t, [turn[t] EXCEPT !.paid = turn[t].paid \o paid], "short", TRUE)

\* The stream was idle for too long.
TimesOut(t) == At(t, Streaming) /\ Leaves(t, turn[t], "cut", turn[t].usage)

\* The stream ends without a tool call: the turn is done, or its first empty round
\* is tried again under the same number.
StreamEnds(t) ==
  /\ At(t, Streaming) /\ ~CancelRequested(t)
  /\ \E new \in Spoken(t) :
       IF new.said \/ new.retried
       THEN Leaves(t, new, IF new.said THEN "answer" ELSE "fallback", new.usage)
       ELSE /\ Become(t, [new EXCEPT !.pc = "stream", !.retried = TRUE])
            /\ UNCHANGED <<row, generation, stoppable, tab, gone, events>>

\* stop_reason pause_turn, which comes with a usage frame: the model carries on.
Pauses(t) ==
  /\ At(t, {"rest"}) /\ ~CancelRequested(t)
  /\ \E new \in Spoken(t) : NextRound(t, new)

\* Tool calls are pending.
CallsTools(t) ==
  /\ At(t, Streaming) /\ turn[t].open /\ ~CancelRequested(t)
  /\ \E new \in Spoken(t) : Become(t, [new EXCEPT !.pc = "tools"])
  /\ UNCHANGED <<row, generation, stoppable, tab, gone, events>>

\* execute_round, which turns failures into results.  The cap closes the tools.
ToolsDone(t) ==
  /\ At(t, {"tools"})
  /\ IF turn[t].round = MaxRounds
     THEN /\ Become(t, [turn[t] EXCEPT !.pc = "capped", !.open = FALSE])
          /\ UNCHANGED <<row, generation, stoppable, tab, gone, events>>
     ELSE NextRound(t, turn[t])

Capped(t) == At(t, {"capped"}) /\ NextRound(t, turn[t])

\* EnsembleTurnService.run: no credit gate; an answer only if the chairman is done.
PanelDone(t) == At(t, {"panel"}) /\ Goto(t, "wrap")

Wrapped(t) ==
  /\ At(t, {"wrap"})
  /\ \E result \in Answers, usage \in BOOLEAN : Leaves(t, turn[t], result, usage)

-----------------------------------------------------------------------------
\* After the loop

\* Sources, provider tool calls, sandbox files and the memory context of the answer.
Saved(t) == At(t, {"save"}) /\ Goto(t, "check")

\* Failing here, the answer becomes the apology and is not billed.
SavingFails(t) ==
  /\ At(t, {"save"})
  /\ Become(t, [turn[t] EXCEPT !.pc = "check", !.result = "apology", !.usage = FALSE])
  /\ UNCHANGED <<row, generation, stoppable, tab, gone, events>>

\* Check, with the is_deleted the turn began with.
CheckWithoutFlag(t) ==
  /\ At(t, {"check"})
  /\ IF gone THEN Ends(t, [turn[t] EXCEPT !.why = "gone"]) /\ UNCHANGED row
     ELSE Goto(t, "settle")

\* finalize_message: a conversation that is gone is left alone, and is_deleted read again.
Check(t) ==
  /\ At(t, {"check"})
  /\ IF gone THEN Ends(t, [turn[t] EXCEPT !.why = "gone"]) /\ UNCHANGED row
     ELSE /\ Become(t, [turn[t] EXCEPT !.pc = "settle", !.flag = row[turn[t].msg].deleted])
          /\ UNCHANGED <<row, generation, stoppable, tab, gone, events>>

\* finalize_ai_message: a transaction of its own for the debit of a turn that costs
\* something ...
Charged(t) == IF turn[t].usage THEN Append(turn[t].paid, "full") ELSE turn[t].paid

Settle(t) ==
  /\ At(t, {"settle"})
  /\ Become(t, [turn[t] EXCEPT !.pc = "keep", !.paid = Charged(t)])
  /\ UNCHANGED <<row, generation, stoppable, tab, gone, events>>

\* ... refused when the wallet does not cover it ...
Refused(t) ==
  /\ At(t, {"settle"}) /\ turn[t].usage
  /\ Ends(t, [turn[t] EXCEPT !.why = "refused"])
  /\ UNCHANGED row

\* ... and then the message with all its fields, is_deleted included.
Store(t) == [row EXCEPT ![turn[t].msg] = [text |-> turn[t].result, deleted |-> turn[t].flag]]

Keep(t) ==
  /\ At(t, {"keep"}) /\ ~gone
  /\ Ends(t, [turn[t] EXCEPT !.stored = TRUE])
  /\ row' = Store(t)

\* The database fails, or there is no conversation to belong to any more.
KeepFails(t) ==
  /\ At(t, {"keep"})
  /\ Ends(t, [turn[t] EXCEPT !.why = "refused"])
  /\ UNCHANGED row

Step(t) ==
  \/ Register(t) \/ SetupFails(t) \/ Enter(t) \/ Fails(t)
  \/ Open(t) \/ Prepared(t) \/ Traced(t)
  \/ UsageFrame(t) \/ StopSurfaces(t) \/ GateOpens(t) \/ GateCloses(t)
  \/ TimesOut(t) \/ StreamEnds(t) \/ Pauses(t) \/ CallsTools(t) \/ ToolsDone(t) \/ Capped(t)
  \/ PanelDone(t) \/ Wrapped(t)
  \/ Saved(t) \/ SavingFails(t) \/ Check(t) \/ Settle(t) \/ Refused(t) \/ Keep(t) \/ KeepFails(t)

-----------------------------------------------------------------------------
\* The user, and trouble

Happens == events > 0 /\ events' = events - 1

\* active_generation_ids: what the tab's coordinator is still streaming.
Active == {m \in stoppable : generation[m] # NoTurn}

\* The conversation has no coordinator, or a new one: turns of the one before run on.
Replaced(reach) ==
  /\ generation' = [m \in Messages |-> NoTurn]
  /\ stoppable' = {}
  /\ turn' = [t \in Turns |-> IF Running(t) /\ Here(t) THEN [turn[t] EXCEPT !.reach = reach]
                              ELSE turn[t]]

\* KeepsActive, whatever is still streaming.
KeepsNothing == Replaced("lost")

KeepsActive ==
  IF Active = {} THEN Replaced("lost") ELSE UNCHANGED <<generation, stoppable, turn>>

\* on_unsubscribe_conversation, on_subscribe_conversation: to another chat and back.
Leave ==
  /\ tab /\ Happens /\ tab' = FALSE
  /\ KeepsActive
  /\ UNCHANGED <<row, gone>>

Return ==
  /\ ~tab /\ ~gone /\ tab' = TRUE
  /\ KeepsActive
  /\ UNCHANGED <<row, gone, events>>

\* on_disconnect: the coordinator goes with the socket.
Disconnect ==
  /\ Happens /\ tab' = FALSE
  /\ Replaced("away")
  /\ UNCHANGED <<row, gone>>

\* A stop strikes the await the task is in.  new: the turn as the stop finds it.
Struck(t, new) ==
  \/ /\ At(t, Catching)
     /\ \E usage \in (CASE At(t, {"prepare"}) -> {FALSE}
                        [] At(t, {"tools"}) -> {new.usage}
                        [] At(t, {"panel"}) -> BOOLEAN
                        [] OTHER -> {TRUE}),
           \* the debit of the credit gate may be under way in its thread
           paid \in {new.paid} \cup {Append(p, "part") : p \in {q \in {new.paid} : At(t, {"gate"})}} :
          Become(t, [OutOfLoop(new) EXCEPT !.pc = "save", !.result = "stopped",
                                           !.usage = usage, !.paid = paid])
     /\ UNCHANGED <<row, generation>>
  \/ \* the HTTP stack absorbs it
     /\ At(t, Streaming)
     /\ Become(t, new)
     /\ UNCHANGED <<row, generation>>
  \/ \* nothing catches it: except Exception does not
     /\ ~At(t, Catching)
     /\ \/ /\ Become(t, Over([new EXCEPT !.why = IF At(t, Loop) THEN "halted" ELSE "struck"]))
           /\ UNCHANGED row
        \/ \* the thread that settles or stores finishes all the same
           /\ At(t, {"settle", "keep"}) /\ ~gone
           /\ Become(t, Over([new EXCEPT !.why = "struck", !.stored = TRUE,
                                         !.paid = IF At(t, {"settle"}) THEN Charged(t)
                                                 ELSE new.paid]))
           /\ row' = Store(t)
     /\ generation' = Unregistered(t)

\* on_stop_generation, cancel_generation: the task registered for the message, if the
\* message may be stopped.  Opening a turn awaits something only on a regeneration or
\* for a panel, which is when it has a pc of its own.
Stop(m) ==
  /\ tab /\ Happens
  /\ m \in stoppable /\ generation[m] # NoTurn
  /\ Struck(generation[m], [turn[generation[m]] EXCEPT !.asked = TRUE])
  /\ stoppable' = stoppable \ {m}
  /\ UNCHANGED <<tab, gone>>

\* soft_delete_message, by a request of its own.
SoftDelete(m) ==
  /\ Happens /\ ~gone
  /\ row[m].text # "none" /\ ~row[m].deleted
  /\ row' = [row EXCEPT ![m].deleted = TRUE]
  /\ turn' = [t \in Turns |-> IF turn[t].msg = m /\ At(t, {"settle", "keep"})
                              THEN [turn[t] EXCEPT !.missed = TRUE] ELSE turn[t]]
  /\ UNCHANGED <<generation, stoppable, tab, gone>>

\* The conversation is deleted with its messages.
Delete ==
  /\ Happens /\ ~gone /\ gone' = TRUE
  /\ row' = [m \in Messages |-> [text |-> "none", deleted |-> FALSE]]
  /\ UNCHANGED <<turn, generation, stoppable, tab>>

\* The process dies, with its tasks, sockets and coordinators.
Kill ==
  /\ Happens /\ tab' = FALSE
  /\ generation' = [m \in Messages |-> NoTurn]
  /\ stoppable' = {}
  /\ turn' = [t \in Turns |-> IF Running(t)
                THEN Over([turn[t] EXCEPT !.why = "killed"])
                ELSE turn[t]]
  /\ UNCHANGED <<row, gone>>

Next ==
  \/ \E t \in Turns : Send(t) \/ Regenerate(t) \/ Step(t)
  \/ \E m \in Messages : Stop(m) \/ SoftDelete(m)
  \/ Leave \/ Return \/ Disconnect \/ Delete \/ Kill

Spec == Init /\ [][Next]_vars

-----------------------------------------------------------------------------
\* Properties

Twins(t) == \E u \in Turns \ {t} : ~At(u, {"idle"}) /\ turn[u].msg = turn[t].msg

\* No turn ends and leaves its placeholder empty (message_coordinator: "Never leave the
\* placeholder as an empty, apparently streaming message"), however the stream, the tools,
\* a panel or a stop went, unless its setup failed, a stop struck an await that does not
\* catch it, its text could not be paid for or saved, or its process or conversation is gone.
PlaceholderFilled ==
  \A t \in Turns : At(t, {"over"}) /\ turn[t].why = "" => gone \/ row[turn[t].msg].text \in Texts

\* A turn is paid for at most once, though a turn out of credit has paid with what was
\* left before it ends, and a stop may come while that is debited; what is stored and
\* cost something is paid for, unless there was nothing left; an apology is free.
PaidOnce ==
  \A t \in Turns :
    /\ Len(turn[t].paid) <= 1 \/ (turn[t].asked /\ turn[t].paid = <<"part", "full">>)
    /\ At(t, {"keep"}) /\ turn[t].usage /\ turn[t].result # "short" => turn[t].paid # <<>>
    /\ turn[t].result = "apology" =>
         turn[t].paid = <<>> \/ (turn[t].asked /\ turn[t].paid = <<"part">>)

\* A stop that was acknowledged is a stop: the turn does not go on to an answer, although
\* the HTTP stack may swallow the cancellation, and it never strikes a turn that is past
\* its loop, whose text would be lost (one regenerated twice at once may be).
StopHeard ==
  \A t \in Turns :
    /\ turn[t].asked => turn[t].result \notin Answers
    /\ turn[t].why = "struck" => Twins(t)

\* A message deleted while it is written stays deleted when its text is stored, except by
\* a turn out of credit, which does not look, and when the deletion falls between the
\* look and the save.
DeletionKept ==
  [][\A m \in Messages :
       row[m].deleted /\ row'[m].text # "none" /\ ~row'[m].deleted =>
         \E t \in Turns : turn[t].msg = m /\ (turn[t].result = "short" \/ turn[t].missed)]_vars

\* A turn that can be stopped stays so as long as it is in its loop and the socket lives,
\* whichever chat the user looks at and comes back from (unless it is regenerated twice
\* at once).
Stoppable(t) == Here(t) /\ turn[t].msg \in stoppable /\ generation[turn[t].msg] = t

StopStaysPossible ==
  [][\A t \in Turns :
       Stoppable(t) /\ At(t, Loop) /\ ~Twins(t) =>
         Stoppable(t)' \/ turn'[t].asked \/ turn'[t].pc \notin Loop \/ turn'[t].reach = "away"]_vars

=============================================================================
