------------------------------- MODULE Wallets -------------------------------
(***************************************************************************)
(* The DARE wallets of users, the budgets of access-code groups, and all   *)
(* that moves money between them: usage debits of chat turns, workflow     *)
(* steps and background calls, the scheduled refill job, allocations,      *)
(* funding and admin credit (billing/ and core/services/billing_service).  *)
(*                                                                         *)
(* A database transaction is one action: Transaction.save() and the group  *)
(* wallet services hold row locks from their checks to their writes.  What *)
(* is read without a lock and used later (the refill job's preloaded       *)
(* wallets, the balances a chat socket caches on its user objects) is      *)
(* state of the process that read it, and every step in between            *)
(* interleaves.  Amounts are whole units; the columns' 15 digits are never *)
(* reached.                                                                *)
(***************************************************************************)
EXTENDS Integers

CONSTANTS
  Users, Groups,
  NoGroup,         \* a user without an access-code group
  NoOwner,         \* a group without an owner
  Unread,          \* user.wallet not accessed yet by this socket
  GroupOf,         \* user -> group or NoGroup
  OwnerOf,         \* group -> user or NoOwner
  Admins,          \* users who may fund and allocate as administrators
  Refills,         \* refill jobs that may run at the same time
  Calls,           \* LLM calls that may be in flight at the same time
  Costs,           \* what a call may turn out to cost
  Callers,         \* users who make LLM calls
  Kinds,           \* call -> the kinds of call it may be
  Unopened,        \* users who may have no wallet row yet
  Tiers,           \* users and groups whose refill policy may be set
  Gifts,           \* amounts funded, allocated and credited by hand
  Policies,        \* refill policies an owner or admin may set
  System,          \* the platform's own policy
  Estimate,        \* what a turn is estimated to cost before it starts
  Opening,         \* balance of a wallet opened lazily ($5.00)
  MaxDay, MaxBudget, MaxBalance     \* bounds of a model-checked instance

Unset == -1
Never == 0     \* last_refill_at is NULL

Policy == [amount : Int, cap : Int, period : Int]
Wallet == [open : BOOLEAN, balance : Int, last : Nat]
Kind == {"turn", "step", "background"}
CallPC == {"idle", "running", "streamed", "debit", "done"}
RefillPC == {"idle", "loop", "pay"}
Outcome == {"none", "refilled", "failed", "skipped"}
RefillJob == [pc : RefillPC, now : Nat, left : SUBSET Users, seen : [Users -> Wallet],
              user : Users \cup {NoOwner}, credit : Int, cap : Int, outcome : Outcome]
Call == [pc : CallPC, kind : Kind, user : Users \cup {NoOwner}, amount : Int,
         cut : BOOLEAN]

ASSUME WalletsAssumption ==
  /\ Groups \cap Users = {}
  /\ Unread \notin Int
  /\ GroupOf \in [Users -> Groups \cup {NoGroup}] /\ NoGroup \notin Groups
  /\ OwnerOf \in [Groups -> Users \cup {NoOwner}] /\ NoOwner \notin Users
  /\ Admins \subseteq Users
  /\ Costs \subseteq Nat \ {0} /\ Gifts \subseteq Nat \ {0}
  /\ Unopened \subseteq Users /\ Kinds \in [Calls -> SUBSET Kind]
  /\ Callers \subseteq Users /\ Tiers \subseteq Users \cup Groups
  /\ Policies \subseteq Policy
  /\ System \in Policy /\ System.amount >= 0 /\ System.period > 0
  /\ Estimate \in Nat /\ Opening \in Nat
  /\ MaxDay \in Nat /\ MaxBudget \in Nat /\ MaxBalance \in Nat

VARIABLES
  wallet,    \* user -> Wallet row; open = FALSE: there is no row
  book,      \* user -> opening balance and all wallet-affecting rows, summed
  budget,    \* group -> GroupWallet.budget_balance
  active,    \* group -> GroupWallet.is_active
  policy,    \* user -> override, group -> group policy
  day,       \* the clock, in days
  refill,    \* job -> the refill task's local state
  call,      \* call -> the call's local state
  view       \* user -> balances cached by the open chat socket

vars == <<wallet, book, budget, active, policy, day, refill, call, view>>

Void == [open |-> FALSE, balance |-> 0, last |-> Never]
IdleRefill == [pc |-> "idle", now |-> 0, left |-> {}, seen |-> [u \in Users |-> Void],
               user |-> NoOwner, credit |-> 0, cap |-> 0, outcome |-> "none"]
Unpriced(pc, kind, user) ==
  [pc |-> pc, kind |-> kind, user |-> user, amount |-> 0, cut |-> FALSE]
IdleCall == Unpriced("idle", "turn", NoOwner)
Disconnected == [gate |-> Unread, final |-> Unread]

Init ==
  /\ \E none \in SUBSET Unopened :
       wallet = [u \in Users |-> [open |-> u \notin none, balance |-> 0, last |-> Never]]
  /\ book = [u \in Users |-> 0]
  /\ budget = [g \in Groups |-> 0]
  /\ active = [g \in Groups |-> TRUE]
  /\ policy = [t \in Users \cup Groups |-> [amount |-> Unset, cap |-> Unset, period |-> Unset]]
  /\ day = 1
  /\ refill = [r \in Refills |-> IdleRefill]
  /\ call = [c \in Calls |-> IdleCall]
  /\ view = [u \in Users |-> Disconnected]

-----------------------------------------------------------------------------
(* Transaction.save: the wallet is locked, opened if missing, changed by an *)
(* F() expression, and the row inserted, in one transaction.                *)

\* A wallet as the locked row: opened with 5.00 if there was none.
Locked(u) == IF wallet[u].open THEN wallet[u]
             ELSE [open |-> TRUE, balance |-> Opening, last |-> Never]

\* What opening the wallet of u adds to its books.
OpeningOf(u) == IF wallet[u].open THEN 0 ELSE Opening

\* The rows of one transaction: wallets of touched are locked, u moves by d.
Book(touched, u, d, last) ==
  /\ wallet' = [w \in Users |->
       IF w = u THEN [open |-> TRUE, balance |-> Locked(w).balance + d, last |-> last]
       ELSE IF w \in touched THEN Locked(w) ELSE wallet[w]]
  /\ book' = [w \in Users |->
       IF w = u THEN book[w] + OpeningOf(w) + d
       ELSE IF w \in touched THEN book[w] + OpeningOf(w) ELSE book[w]]

\* mutant: a debit is let through while anything is left
CoversAny(u, amount) == amount = 0 \/ Locked(u).balance > 0

\* A debit without overdraft is refused under the lock when the balance is short,
\* and a debit of 0 is no exception.
Covers(u, amount) == Locked(u).balance >= amount

\* The check of a group's budget under the group wallet's lock.
BudgetCovers(g, amount) == budget[g] >= amount

-----------------------------------------------------------------------------
(* Refill policy: user override, else group, else system, field by field.   *)

Resolve(u, field) ==
  IF policy[u][field] # Unset THEN policy[u][field]
  ELSE IF GroupOf[u] # NoGroup /\ policy[GroupOf[u]][field] # Unset
       THEN policy[GroupOf[u]][field]
       ELSE System[field]

CapOf(u) == IF Resolve(u, "cap") = Unset THEN Resolve(u, "amount") ELSE Resolve(u, "cap")

\* mutant: a wallet below its cap gets the full amount
RefillInFull(amount, cap, balance) == IF balance < cap THEN amount ELSE 0

\* caps.refill_credit
RefillCredit(amount, cap, balance) ==
  LET room == cap - balance
      add == IF amount < room THEN amount ELSE room
  IN IF add < 0 THEN 0 ELSE add

\* The due check reads the wallet the job preloaded.
Due(w, now, period) == w.last = Never \/ now - w.last >= period

-----------------------------------------------------------------------------
(* The refill job: all users and wallets are loaded once, then user by user *)
(* a decision on what was loaded and a transaction.                         *)

\* A job between two users.
Looping(now, left, seen, outcome) ==
  [pc |-> "loop", now |-> now, left |-> left, seen |-> seen,
   user |-> NoOwner, credit |-> 0, cap |-> 0, outcome |-> outcome]

StartRefill(r) ==
  /\ refill[r].pc = "idle"
  /\ refill' = [refill EXCEPT ![r] = Looping(day, Users, wallet, "none")]
  /\ UNCHANGED <<wallet, book, budget, active, policy, day, call, view>>

\* The user is left for the next one; the reasons for skipping are counted apart.
Skip(r, u, outcome) ==
  refill' = [refill EXCEPT ![r] = Looping(
    refill[r].now, refill[r].left \ {u}, [refill[r].seen EXCEPT ![u] = Void], outcome)]

\* _topup_single_user up to the payment.
Judge(r, u) ==
  LET w == refill[r].seen[u]
      credit == RefillCredit(Resolve(u, "amount"), CapOf(u), w.balance)
      paused == GroupOf[u] # NoGroup /\ ~active[GroupOf[u]]
      due == w.open /\ Due(w, refill[r].now, Resolve(u, "period")) /\ Resolve(u, "amount") > 0
  IN /\ refill[r].pc = "loop" /\ u \in refill[r].left
     /\ \/ /\ ~due \/ paused
           /\ Skip(r, u, "skipped")
           /\ UNCHANGED wallet
        \/ /\ due /\ ~paused /\ credit = 0     \* at the cap: the period is served
           /\ wallet' = [wallet EXCEPT ![u].last = refill[r].now]
           /\ Skip(r, u, "skipped")
        \/ /\ due /\ ~paused /\ credit > 0
           /\ refill' = [refill EXCEPT ![r].pc = "pay", ![r].user = u,
                                        ![r].credit = credit, ![r].cap = CapOf(u)]
           /\ UNCHANGED wallet
     /\ UNCHANGED <<book, budget, active, policy, day, call, view>>

\* _refill_from_group_budget: budget, the owner's row of 0, the member's credit and
\* last_refill_at in one transaction under the group wallet's lock.
PayFromGroup(r) ==
  LET u == refill[r].user
      g == GroupOf[u]
      credit == refill[r].credit
      owners == {OwnerOf[g]} \cap Users
  IN /\ refill[r].pc = "pay" /\ g # NoGroup
     /\ \/ /\ ~BudgetCovers(g, credit)
           /\ Skip(r, u, "skipped")
           /\ UNCHANGED <<wallet, book, budget>>
        \/ /\ BudgetCovers(g, credit)
           /\ \A o \in owners : Covers(o, 0)
           /\ budget' = [budget EXCEPT ![g] = @ - credit]
           /\ Book(owners, u, credit, refill[r].now)
           /\ Skip(r, u, "refilled")
        \/ /\ BudgetCovers(g, credit)      \* the owner's row raises: all is rolled back
           /\ \E o \in owners : ~Covers(o, 0)
           /\ Skip(r, u, "failed")
           /\ UNCHANGED <<wallet, book, budget>>
     /\ UNCHANGED <<active, policy, day, call, view>>

\* _refill_from_system
PayFromSystem(r) ==
  LET u == refill[r].user
  IN /\ refill[r].pc = "pay" /\ GroupOf[u] = NoGroup
     /\ Book({}, u, refill[r].credit, refill[r].now)
     /\ Skip(r, u, "refilled")
     /\ UNCHANGED <<budget, active, policy, day, call, view>>

\* The job returns, or its worker dies between two transactions.
EndRefill(r) ==
  /\ refill[r].pc # "idle"
  /\ refill' = [refill EXCEPT ![r] = IdleRefill]
  /\ UNCHANGED <<wallet, book, budget, active, policy, day, call, view>>

-----------------------------------------------------------------------------
(* What owners and administrators do.                                       *)

\* mutant: the audit row carries the amount
FundWithAmount(g, actor, amount) ==
  /\ actor \in Admins
  /\ budget[g] + amount <= MaxBudget
  /\ budget' = [budget EXCEPT ![g] = @ + amount]
  /\ Book({}, actor, amount, Locked(actor).last)
  /\ UNCHANGED <<active, policy, day, refill, call, view>>

\* fund_group_budget: the actor gets an informational credit of 0.
Fund(g, actor, amount) ==
  /\ actor \in Admins
  /\ budget[g] + amount <= MaxBudget
  /\ budget' = [budget EXCEPT ![g] = @ + amount]
  /\ Book({}, actor, 0, Locked(actor).last)
  /\ UNCHANGED <<active, policy, day, refill, call, view>>

\* allocate_to_member: budget and membership are checked under the lock, the actor
\* gets an informational debit of 0 first.
Allocate(g, actor, u, amount) ==
  /\ actor = OwnerOf[g] \/ actor \in Admins
  /\ actor \in Users /\ active[g] /\ BudgetCovers(g, amount) /\ GroupOf[u] = g
  /\ Covers(actor, 0)
  /\ Locked(u).balance + amount <= MaxBalance
  /\ budget' = [budget EXCEPT ![g] = @ - amount]
  /\ Book({actor}, u, amount, Locked(u).last)
  /\ UNCHANGED <<active, policy, day, refill, call, view>>

\* add_topup: registration leaves last_refill_at alone, credit by an admin counts as
\* a scheduled refill.
Topup(u, amount) ==
  /\ Locked(u).balance + amount <= MaxBalance
  /\ \E last \in {Locked(u).last, day} : Book({}, u, amount, last)
  /\ UNCHANGED <<budget, active, policy, day, refill, call, view>>

\* update_group_policy, upsert_user_override and remove_user_override
SetPolicy(t, p) ==
  /\ policy' = [policy EXCEPT ![t] = p]
  /\ UNCHANGED <<wallet, book, budget, active, day, refill, call, view>>

SetActive(g, on) ==
  /\ active[g] # on
  /\ active' = [active EXCEPT ![g] = on]
  /\ UNCHANGED <<wallet, book, budget, policy, day, refill, call, view>>

-----------------------------------------------------------------------------
(* LLM calls.  A chat socket keeps two user objects, each with the wallet   *)
(* as first read: the gate's (self.user) and the finalizer's                *)
(* (conversation.user).                                                     *)

\* The balance of a cached wallet, read from the database at first access.
Seen(u, which) == IF view[u][which] = Unread THEN Locked(u).balance ELSE view[u][which]

Goto(c, pc) == call' = [call EXCEPT ![c].pc = pc]

\* The call is over: paid, cut short or refused.
Done(c) == call' = [call EXCEPT ![c] = Unpriced("done", "turn", NoOwner)]

\* check_sufficient_credits (which opens a missing wallet) for a turn, a positive
\* balance for a background call, nothing for a workflow step.
Dispatch(c, u, kind) ==
  LET short == \/ kind = "turn" /\ Seen(u, "gate") < Estimate
               \/ kind = "background" /\ ~(wallet[u].open /\ wallet[u].balance > 0)
  IN /\ call[c].pc = "idle"
     /\ IF short THEN Done(c)
        ELSE call' = [call EXCEPT ![c] = Unpriced("running", kind, u)]
     /\ IF kind = "turn"
        THEN /\ view' = [view EXCEPT ![u].gate = Seen(u, "gate")]
             /\ Book({}, u, 0, Locked(u).last)
        ELSE UNCHANGED <<view, wallet, book>>
     /\ UNCHANGED <<budget, active, policy, day, refill>>

\* check_streaming_credit_usage: a turn that costs more than the cached balance is
\* interrupted, and what was left is charged.
Gate(c, cost) ==
  LET left == Seen(call[c].user, "gate")
  IN /\ call[c].pc = "running" /\ call[c].kind = "turn"
     /\ \/ /\ cost <= left
           /\ call' = [call EXCEPT ![c].pc = "streamed", ![c].amount = cost]
        \/ /\ cost > left /\ left > 0
           /\ call' = [call EXCEPT ![c].pc = "debit", ![c].amount = left, ![c].cut = TRUE]
        \/ cost > left /\ left <= 0 /\ Done(c)
     /\ view' = [view EXCEPT ![call[c].user].gate = left]
     /\ UNCHANGED <<wallet, book, budget, active, policy, day, refill>>

\* finalize_ai_message compares the cached balance before its transaction.
Finalize(c) ==
  LET u == call[c].user
      left == Seen(u, "final")
  IN /\ call[c].pc = "streamed"
     /\ IF left < call[c].amount THEN Done(c) ELSE Goto(c, "debit")
     /\ view' = [view EXCEPT ![u].final = left]
     /\ UNCHANGED <<wallet, book, budget, active, policy, day, refill>>

\* A workflow step or background call has run and its cost is known.
Price(c, cost) ==
  /\ call[c].pc = "running" /\ call[c].kind # "turn"
  /\ IF call[c].kind = "step" /\ ~wallet[call[c].user].open
     THEN Done(c)
     ELSE call' = [call EXCEPT ![c].amount = cost, ![c].pc = "debit"]
  /\ UNCHANGED <<wallet, book, budget, active, policy, day, refill, view>>

\* mutant: the balance is written back from the cached wallet
DebitCached(c) ==
  LET u == call[c].user
      amount == call[c].amount
  IN /\ call[c].pc = "debit"
     /\ call[c].kind = "background" \/ Covers(u, amount)
     /\ wallet' = [wallet EXCEPT ![u].balance = Seen(u, "final") - amount]
     /\ book' = [book EXCEPT ![u] = @ - amount]
     /\ Done(c)
     /\ UNCHANGED <<budget, active, policy, day, refill, view>>

\* The debit; a background call settles in full, overdraft or not.  Afterwards the
\* socket's cached wallet is refreshed.
Debit(c) ==
  LET u == call[c].user
      amount == call[c].amount
      left == Locked(u).balance - amount
  IN /\ call[c].pc = "debit"
     /\ call[c].kind = "background" \/ Covers(u, amount)
     /\ Book({}, u, 0 - amount, Locked(u).last)
     /\ Done(c)
     /\ view' = IF call[c].kind # "turn" THEN view
                ELSE IF call[c].cut THEN [view EXCEPT ![u].gate = left]
                ELSE [view EXCEPT ![u].final = left]
     /\ UNCHANGED <<budget, active, policy, day, refill>>

\* The debit raises: the balance is short under the lock, two first calls opened the
\* wallet at once, or the database failed.  Nothing is charged.
DebitRaises(c) ==
  /\ call[c].pc = "debit"
  /\ Done(c)
  /\ UNCHANGED <<wallet, book, budget, active, policy, day, refill, view>>

\* The socket closes; the next one reads its wallets anew.
Reconnect(u) ==
  /\ view[u] # Disconnected
  /\ view' = [view EXCEPT ![u] = Disconnected]
  /\ UNCHANGED <<wallet, book, budget, active, policy, day, refill, call>>

Tick ==
  /\ day < MaxDay
  /\ day' = day + 1
  /\ UNCHANGED <<wallet, book, budget, active, policy, refill, call, view>>

-----------------------------------------------------------------------------
RefillStep(r) ==
  \/ StartRefill(r) \/ PayFromGroup(r) \/ PayFromSystem(r) \/ EndRefill(r)
  \/ \E u \in Users : Judge(r, u)

OwnerStep ==
  \/ \E g \in Groups, a \in Users, amount \in Gifts :
       Fund(g, a, amount) \/ \E u \in Users : Allocate(g, a, u, amount)
  \/ \E u \in Users, amount \in Gifts : Topup(u, amount)
  \/ \E t \in Tiers, p \in Policies : SetPolicy(t, p)
  \/ \E g \in Groups, on \in BOOLEAN : SetActive(g, on)

CallStep(c) ==
  \/ \E u \in Callers, kind \in Kinds[c] : Dispatch(c, u, kind)
  \/ \E cost \in Costs : Gate(c, cost) \/ Price(c, cost)
  \/ Finalize(c) \/ Debit(c) \/ DebitRaises(c)

Next ==
  \/ \E r \in Refills : RefillStep(r)
  \/ OwnerStep
  \/ \E c \in Calls : CallStep(c)
  \/ \E u \in Users : Reconnect(u)
  \/ Tick

Spec == Init /\ [][Next]_vars
-----------------------------------------------------------------------------
(* Properties.                                                              *)

\* Every variable keeps its type.
TypeOK ==
  /\ wallet \in [Users -> Wallet]
  /\ book \in [Users -> Int]
  /\ budget \in [Groups -> Int]
  /\ active \in [Groups -> BOOLEAN]
  /\ policy \in [Users \cup Groups -> Policy]
  /\ day \in Nat
  /\ refill \in [Refills -> RefillJob]
  /\ call \in [Calls -> Call]
  /\ view \in [Users -> [gate : Int \cup {Unread}, final : Int \cup {Unread}]]

\* A job that pays and a call under way know whom and how much they charge.
PayersKnown ==
  /\ \A r \in Refills :
       refill[r].pc = "pay" => refill[r].user \in Users /\ refill[r].credit > 0
  /\ \A c \in Calls :
       /\ call[c].pc \in {"running", "streamed", "debit"} => call[c].user \in Users
       /\ call[c].pc \in {"streamed", "debit"} => call[c].amount > 0

\* A user without a wallet row has no money and no rows.
UnopenedEmpty == \A u \in Users : ~wallet[u].open => wallet[u].balance = 0

\* A wallet holds its opening balance and its transaction rows, whatever
\* debits, refills and allocations overlap (the F() update under the row lock).
BalanceIsBooked == \A u \in Users : wallet[u].balance = book[u]

\* A group's budget is never overspent by overlapping refills and allocations.
BudgetNeverNegative == \A g \in Groups : budget[g] >= 0

\* Only the settlement of a background call takes a wallet below zero: concurrent
\* turns and workflow steps, judged by stale balances, cannot.
OnlySettlementOverdraws ==
  [][\A u \in Users : wallet'[u].balance < 0 /\ wallet'[u].balance < wallet[u].balance
       => \E c \in Calls : call[c].user = u /\ call[c].kind = "background"
                          /\ call[c].pc = "debit" /\ call'[c].pc = "done"]_vars

\* The job r credits u in this step.
Refilled(r, u) ==
  refill[r].pc = "pay" /\ refill[r].user = u /\ refill'[r].pc = "loop"
  /\ refill'[r].outcome = "refilled"

\* A refill lifts a wallet past its cap only if something else credited it after the
\* job loaded it.
CapHeldUnlessCredited ==
  [][\A r \in Refills, u \in Users : Refilled(r, u) =>
       wallet'[u].balance <= refill[r].cap \/ wallet[u].balance > refill[r].seen[u].balance]_vars

\* billing/tasks.py:127: the owner's row is informational, so a funded group's refill
\* does not depend on the owner's own wallet.
FundedRefillsSucceed == \A r \in Refills : refill[r].outcome # "failed"

Money == INSTANCE Treasury WITH
  Purses <- Users, Pools <- Groups, PoolOf <- GroupOf,
  opened <- {u \in Users : wallet[u].open},
  purse <- [u \in Users |-> wallet[u].balance],
  pool <- budget

\* Every step moves money as Treasury allows, or moves none.
ImplementsTreasury == Money!Spec
=============================================================================
