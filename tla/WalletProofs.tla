---------------------------- MODULE WalletProofs ----------------------------
(***************************************************************************)
(* Theorems about Wallets.  The inductive invariant IInv adds to the books *)
(* and the budgets that whoever is about to pay knows the payer and a      *)
(* positive amount.                                                        *)
(***************************************************************************)
EXTENDS Wallets, TLAPS

IInv == TypeOK /\ PayersKnown /\ UnopenedEmpty /\ BalanceIsBooked /\ BudgetNeverNegative

LEMMA LockedType ==
  ASSUME TypeOK, NEW u \in Users
  PROVE  Locked(u) \in Wallet /\ OpeningOf(u) \in Int
BY WalletsAssumption DEF TypeOK, Locked, OpeningOf, Wallet, Never

\* Booking a row keeps the type of the wallets and the books balanced.
LEMMA BookKeeps ==
  ASSUME TypeOK, BalanceIsBooked, UnopenedEmpty,
         NEW touched \in SUBSET Users, NEW u \in Users, NEW d \in Int, NEW last \in Nat,
         Book(touched, u, d, last)
  PROVE  /\ wallet' \in [Users -> Wallet] /\ book' \in [Users -> Int]
         /\ BalanceIsBooked' /\ UnopenedEmpty'
<1>1. wallet' \in [Users -> Wallet]
  BY LockedType, WalletsAssumption DEF TypeOK, Book, Wallet
<1>2. book' \in [Users -> Int]
  BY LockedType DEF TypeOK, Book
<1>3. UnopenedEmpty'
  BY WalletsAssumption DEF TypeOK, UnopenedEmpty, Book, Locked, Wallet
<1>4. BalanceIsBooked'
  <2> SUFFICES ASSUME NEW w \in Users PROVE wallet'[w].balance = book'[w]
    BY DEF BalanceIsBooked
  <2>1. wallet[w] \in Wallet /\ book[w] \in Int /\ wallet[w].balance = book[w]
    BY DEF TypeOK, BalanceIsBooked
  <2>2. Locked(w).balance = book[w] + OpeningOf(w)
    BY <2>1, WalletsAssumption DEF UnopenedEmpty, Locked, OpeningOf, Wallet
  <2>3. QED
    BY <2>1, <2>2, LockedType DEF Book, Wallet
<1>5. QED
  BY <1>1, <1>2, <1>3, <1>4

-----------------------------------------------------------------------------
\* A row that opens no other wallet.
LEMMA BookAlone ==
  ASSUME TypeOK, BalanceIsBooked, UnopenedEmpty,
         NEW u \in Users, NEW d \in Int, NEW last \in Nat, Book({}, u, d, last)
  PROVE  /\ wallet' \in [Users -> Wallet] /\ book' \in [Users -> Int]
         /\ BalanceIsBooked' /\ UnopenedEmpty'
<1>1. {} \in SUBSET Users
  OBVIOUS
<1>2. QED
  BY <1>1, BookKeeps

\* The policy in force is made of numbers.
LEMMA ResolveType ==
  ASSUME TypeOK, NEW u \in Users
  PROVE  /\ Resolve(u, "amount") \in Int /\ Resolve(u, "period") \in Int
         /\ CapOf(u) \in Int
BY WalletsAssumption DEF TypeOK, Resolve, CapOf, Policy

\* A credit fills the room below the cap at most.
LEMMA CreditType ==
  ASSUME NEW amount \in Int, NEW cap \in Int, NEW balance \in Int
  PROVE  /\ RefillCredit(amount, cap, balance) \in Nat
         /\ RefillCredit(amount, cap, balance) > 0
              => balance + RefillCredit(amount, cap, balance) <= cap
BY DEF RefillCredit

\* A cached balance is a number.
LEMMA SeenType ==
  ASSUME TypeOK, NEW u \in Users
  PROVE  Seen(u, "gate") \in Int /\ Seen(u, "final") \in Int
BY LockedType DEF TypeOK, Seen, Wallet

\* Taking the next user keeps a job's type, and nobody is about to be paid.
LEMMA SkipKeeps ==
  ASSUME TypeOK, PayersKnown, NEW r \in Refills, NEW u \in Users, NEW o \in Outcome,
         Skip(r, u, o), UNCHANGED call
  PROVE  refill' \in [Refills -> RefillJob] /\ PayersKnown'
<1>1. refill[r] \in RefillJob
  BY DEF TypeOK
<1>2. [refill[r].seen EXCEPT ![u] = Void] \in [Users -> Wallet]
  BY <1>1 DEF RefillJob, Void, Wallet, Never
<1>4. refill' \in [Refills -> RefillJob]
  BY <1>1, <1>2 DEF TypeOK, Skip, Looping, RefillJob, RefillPC
<1>5. PayersKnown'
  BY DEF TypeOK, PayersKnown, Skip, Looping
<1>6. QED
  BY <1>4, <1>5

-----------------------------------------------------------------------------
LEMMA Initially == Init => IInv
<1> SUFFICES ASSUME Init PROVE IInv
  OBVIOUS
<1>1. wallet \in [Users -> Wallet] /\ UnopenedEmpty /\ BalanceIsBooked
  BY DEF Init, Void, Wallet, Never, UnopenedEmpty, BalanceIsBooked
<1>2. budget \in [Groups -> Int] /\ BudgetNeverNegative
  BY DEF Init, BudgetNeverNegative
<1>3. policy \in [Users \cup Groups -> Policy]
  BY DEF Init, Policy, Unset
<1>4. refill \in [Refills -> RefillJob]
  BY DEF Init, IdleRefill, RefillJob, RefillPC, Outcome, Void, Wallet, Never
<1>5. call \in [Calls -> Call]
  BY DEF Init, IdleCall, Unpriced, Call, CallPC, Kind
<1>6. PayersKnown
  BY DEF Init, PayersKnown, IdleRefill, IdleCall, Unpriced
<1>7. QED
  BY <1>1, <1>2, <1>3, <1>4, <1>5, <1>6 DEF IInv, TypeOK, Init, Disconnected

\* The refill job's own steps.
LEMMA RefillKeeps ==
  ASSUME IInv, NEW r \in Refills, RefillStep(r)
  PROVE  IInv'
<1> USE DEF IInv
<1>1. CASE StartRefill(r)
  <2>1. refill' \in [Refills -> RefillJob]
    BY <1>1 DEF StartRefill, TypeOK, Looping, RefillJob, RefillPC, Outcome
  <2>2. PayersKnown'
    BY <1>1 DEF StartRefill, TypeOK, PayersKnown, Looping
  <2>3. QED
    BY <1>1, <2>1, <2>2 DEF StartRefill, TypeOK, UnopenedEmpty, BalanceIsBooked,
                            BudgetNeverNegative
<1>2. CASE EndRefill(r)
  <2>1. refill' \in [Refills -> RefillJob]
    BY <1>2 DEF EndRefill, TypeOK, IdleRefill, RefillJob, RefillPC, Outcome, Void, Wallet, Never
  <2>2. PayersKnown'
    BY <1>2 DEF EndRefill, TypeOK, PayersKnown, IdleRefill
  <2>3. QED
    BY <1>2, <2>1, <2>2 DEF EndRefill, TypeOK, UnopenedEmpty, BalanceIsBooked,
                            BudgetNeverNegative
<1>3. ASSUME NEW u \in Users, Judge(r, u)
      PROVE  IInv'
  <2> DEFINE credit == RefillCredit(Resolve(u, "amount"), CapOf(u), refill[r].seen[u].balance)
  <2>1. refill[r] \in RefillJob /\ refill[r].seen[u] \in Wallet /\ refill[r].now \in Nat
    BY DEF TypeOK, RefillJob
  <2>2. credit \in Nat
    BY <2>1, ResolveType, CreditType DEF Wallet
  <2>3. UNCHANGED <<book, budget, active, policy, day, call, view>>
    BY <1>3 DEF Judge
  <2>4. wallet' \in [Users -> Wallet] /\ \A w \in Users : wallet'[w].open = wallet[w].open
                                           /\ wallet'[w].balance = wallet[w].balance
    <3>1. \A w \in Users : wallet[w] \in Wallet
      BY DEF TypeOK
    <3>2. \/ UNCHANGED wallet
          \/ wallet' = [wallet EXCEPT ![u].last = refill[r].now]
      BY <1>3 DEF Judge
    <3>3. CASE UNCHANGED wallet
      BY <3>3 DEF TypeOK
    <3>4. CASE wallet' = [wallet EXCEPT ![u].last = refill[r].now]
      <4>1. [wallet[u] EXCEPT !.last = refill[r].now] \in Wallet
        BY <2>1, <3>1 DEF Wallet
      <4>2. QED
        BY <2>1, <3>1, <3>4, <4>1 DEF TypeOK, Wallet
    <3>5. QED
      BY <3>2, <3>3, <3>4
  <2>5. refill' \in [Refills -> RefillJob] /\ PayersKnown'
    <3>1. CASE \E o \in Outcome : Skip(r, u, o)
      BY <3>1, <2>3, SkipKeeps
    <3>2. CASE /\ credit > 0
               /\ refill' = [refill EXCEPT ![r].pc = "pay", ![r].user = u,
                                            ![r].credit = credit, ![r].cap = CapOf(u)]
      <4> HIDE DEF credit
      <4>1. refill' \in [Refills -> RefillJob]
        <5> SUFFICES ASSUME NEW i \in Refills PROVE refill'[i] \in RefillJob
          BY <3>2 DEF TypeOK
        <5>1. refill[i] \in RefillJob /\ credit \in Int /\ CapOf(u) \in Int
          BY <2>2, ResolveType DEF TypeOK
        <5>2. QED
          BY <3>2, <5>1 DEF TypeOK, RefillJob, RefillPC
      <4>2. PayersKnown'
        BY <3>2, <2>3 DEF TypeOK, PayersKnown
      <4>3. QED
        BY <4>1, <4>2
    <3>3. QED
      BY <1>3, <3>1, <3>2 DEF Judge, Outcome
  <2>6. QED
    BY <2>3, <2>4, <2>5 DEF TypeOK, UnopenedEmpty, BalanceIsBooked, BudgetNeverNegative
<1>4. CASE PayFromGroup(r)
  <2> DEFINE u == refill[r].user
             g == GroupOf[u]
             credit == refill[r].credit
             owners == {OwnerOf[g]} \cap Users
  <2>1. u \in Users /\ credit \in Int /\ refill[r].now \in Nat /\ g \in Groups
    BY <1>4, WalletsAssumption DEF PayFromGroup, TypeOK, PayersKnown, RefillJob
  <2>2. UNCHANGED <<active, policy, day, call, view>>
    BY <1>4 DEF PayFromGroup
  <2>3. \E o \in Outcome : Skip(r, u, o)
    BY <1>4 DEF PayFromGroup, Outcome
  <2>4. refill' \in [Refills -> RefillJob] /\ PayersKnown'
    BY <2>1, <2>2, <2>3, SkipKeeps
  <2>5. CASE UNCHANGED <<wallet, book, budget>>
    BY <2>2, <2>4, <2>5 DEF TypeOK, UnopenedEmpty, BalanceIsBooked, BudgetNeverNegative
  <2>6. CASE /\ budget[g] >= credit
             /\ budget' = [budget EXCEPT ![g] = @ - credit]
             /\ Book(owners, u, credit, refill[r].now)
    <3>1. budget' \in [Groups -> Int] /\ BudgetNeverNegative'
      BY <2>1, <2>6 DEF TypeOK, BudgetNeverNegative
    <3>2. /\ wallet' \in [Users -> Wallet] /\ book' \in [Users -> Int]
          /\ BalanceIsBooked' /\ UnopenedEmpty'
      <4> HIDE DEF u, credit, owners
      <4>1. owners \in SUBSET Users
        BY DEF owners
      <4>2. QED
        BY <2>1, <2>6, <4>1, BookKeeps
    <3>3. QED
      BY <2>2, <2>4, <3>1, <3>2 DEF TypeOK
  <2>7. QED
    BY <1>4, <2>5, <2>6 DEF PayFromGroup, BudgetCovers
<1>5. CASE PayFromSystem(r)
  <2>1. refill[r].user \in Users /\ refill[r].credit \in Int /\ refill[r].now \in Nat
    BY <1>5 DEF PayFromSystem, TypeOK, PayersKnown, RefillJob
  <2>2. /\ wallet' \in [Users -> Wallet] /\ book' \in [Users -> Int]
        /\ BalanceIsBooked' /\ UnopenedEmpty'
    BY <1>5, <2>1, BookAlone DEF PayFromSystem
  <2>3. refill' \in [Refills -> RefillJob] /\ PayersKnown'
    BY <1>5, <2>1, SkipKeeps DEF PayFromSystem, Outcome
  <2>4. QED
    BY <1>5, <2>2, <2>3 DEF PayFromSystem, TypeOK, BudgetNeverNegative
<1>6. QED
  BY <1>1, <1>2, <1>3, <1>4, <1>5 DEF RefillStep

LEMMA OwnerKeeps ==
  ASSUME IInv, OwnerStep
  PROVE  IInv'
<1> USE DEF IInv
<1>1. ASSUME NEW g \in Groups, NEW a \in Users, NEW amount \in Gifts, Fund(g, a, amount)
      PROVE  IInv'
  <2>1. amount \in Nat /\ Locked(a).last \in Nat
    BY LockedType, WalletsAssumption DEF Wallet
  <2>2. /\ wallet' \in [Users -> Wallet] /\ book' \in [Users -> Int]
        /\ BalanceIsBooked' /\ UnopenedEmpty'
    <3>1. 0 \in Int /\ Book({}, a, 0, Locked(a).last)
      BY <1>1 DEF Fund
    <3>2. QED
      BY <2>1, <3>1, BookAlone
  <2>3. budget' \in [Groups -> Int] /\ BudgetNeverNegative'
    BY <1>1, <2>1 DEF Fund, TypeOK, BudgetNeverNegative
  <2>4. QED
    BY <1>1, <2>2, <2>3 DEF Fund, TypeOK, PayersKnown
<1>2. ASSUME NEW g \in Groups, NEW a \in Users, NEW amount \in Gifts, NEW u \in Users,
             Allocate(g, a, u, amount)
      PROVE  IInv'
  <2>1. amount \in Int /\ Locked(u).last \in Nat
    BY LockedType, WalletsAssumption DEF Wallet
  <2>2. /\ wallet' \in [Users -> Wallet] /\ book' \in [Users -> Int]
        /\ BalanceIsBooked' /\ UnopenedEmpty'
    BY <1>2, <2>1, BookKeeps DEF Allocate
  <2>3. budget' \in [Groups -> Int] /\ BudgetNeverNegative'
    BY <1>2, <2>1 DEF Allocate, TypeOK, BudgetNeverNegative, BudgetCovers
  <2>4. QED
    BY <1>2, <2>2, <2>3 DEF Allocate, TypeOK, PayersKnown
<1>3. ASSUME NEW u \in Users, NEW amount \in Gifts, Topup(u, amount)
      PROVE  IInv'
  <2>1. amount \in Int
    BY WalletsAssumption
  <2>2. PICK last \in {Locked(u).last, day} : Book({}, u, amount, last)
    BY <1>3 DEF Topup
  <2>3. last \in Nat
    BY LockedType DEF TypeOK, Wallet
  <2>4. /\ wallet' \in [Users -> Wallet] /\ book' \in [Users -> Int]
        /\ BalanceIsBooked' /\ UnopenedEmpty'
    BY <2>1, <2>2, <2>3, BookAlone
  <2>5. QED
    BY <1>3, <2>4 DEF Topup, TypeOK, PayersKnown, BudgetNeverNegative
<1>4. ASSUME NEW t \in Tiers, NEW p \in Policies, SetPolicy(t, p)
      PROVE  IInv'
  BY <1>4, WalletsAssumption DEF SetPolicy, TypeOK, PayersKnown, BudgetNeverNegative,
                                 UnopenedEmpty, BalanceIsBooked
<1>5. ASSUME NEW g \in Groups, NEW on \in BOOLEAN, SetActive(g, on)
      PROVE  IInv'
  BY <1>5 DEF SetActive, TypeOK, PayersKnown, BudgetNeverNegative, UnopenedEmpty,
              BalanceIsBooked
<1>6. QED
  BY <1>1, <1>2, <1>3, <1>4, <1>5 DEF OwnerStep

\* A call that is over charges nobody.
LEMMA DoneKeeps ==
  ASSUME TypeOK, PayersKnown, NEW c \in Calls, Done(c), UNCHANGED refill
  PROVE  call' \in [Calls -> Call] /\ PayersKnown'
<1>1. call' = [call EXCEPT ![c] = [pc |-> "done", kind |-> "turn", user |-> NoOwner,
                                   amount |-> 0, cut |-> FALSE]]
  BY DEF Done, Unpriced
<1>2. call' \in [Calls -> Call]
  BY <1>1 DEF TypeOK, Call, CallPC, Kind
<1>3. PayersKnown'
  BY <1>1 DEF TypeOK, PayersKnown
<1>4. QED
  BY <1>2, <1>3

\* A step that books nothing keeps what the caller shows typed.
LEMMA QuietCall ==
  ASSUME IInv, UNCHANGED <<wallet, book, budget, active, policy, day, refill>>,
         call' \in [Calls -> Call], PayersKnown',
         view' \in [Users -> [gate : Int \cup {Unread}, final : Int \cup {Unread}]]
  PROVE  IInv'
BY DEF IInv, TypeOK, UnopenedEmpty, BalanceIsBooked, BudgetNeverNegative

LEMMA CallKeeps ==
  ASSUME IInv, NEW c \in Calls, CallStep(c)
  PROVE  IInv'
<1> USE DEF IInv
<1>0. /\ call[c] \in Call
      /\ call[c].pc \in {"running", "streamed", "debit"} => call[c].user \in Users
  BY DEF TypeOK, PayersKnown
<1>1. ASSUME NEW u \in Callers, NEW kind \in Kinds[c], Dispatch(c, u, kind)
      PROVE  IInv'
  <2>1. u \in Users /\ kind \in Kind /\ Locked(u).last \in Nat
    BY LockedType, WalletsAssumption DEF Wallet
  <2>2. call' \in [Calls -> Call] /\ PayersKnown'
    <3>1. UNCHANGED refill
      BY <1>1 DEF Dispatch
    <3>2. CASE Done(c)
      BY <3>1, <3>2, DoneKeeps
    <3>3. CASE call' = [call EXCEPT ![c] = [pc |-> "running", kind |-> kind, user |-> u,
                                            amount |-> 0, cut |-> FALSE]]
      <4>1. call' \in [Calls -> Call]
        BY <2>1, <3>3 DEF TypeOK, Call, CallPC
      <4>2. PayersKnown'
        BY <2>1, <3>1, <3>3 DEF TypeOK, PayersKnown
      <4>3. QED
        BY <4>1, <4>2
    <3>4. QED
      BY <1>1, <3>2, <3>3 DEF Dispatch, Unpriced
  <2>3. view' \in [Users -> [gate : Int \cup {Unread}, final : Int \cup {Unread}]]
    BY <1>1, <2>1, SeenType DEF Dispatch, TypeOK
  <2>4. /\ wallet' \in [Users -> Wallet] /\ book' \in [Users -> Int]
        /\ BalanceIsBooked' /\ UnopenedEmpty'
    <3>1. CASE Book({}, u, 0, Locked(u).last)
      <4>1. 0 \in Int
        OBVIOUS
      <4>2. QED
        BY <2>1, <3>1, <4>1, BookAlone
    <3>2. CASE UNCHANGED <<wallet, book>>
      BY <3>2 DEF TypeOK, BalanceIsBooked, UnopenedEmpty
    <3>3. QED
      BY <1>1, <3>1, <3>2 DEF Dispatch
  <2>5. QED
    BY <1>1, <2>2, <2>3, <2>4 DEF Dispatch, TypeOK, BudgetNeverNegative
<1>2. ASSUME NEW cost \in Costs, Gate(c, cost)
      PROVE  IInv'
  <2>1. call[c].user \in Users /\ cost \in Nat \ {0}
    BY <1>0, <1>2, WalletsAssumption DEF Gate
  <2>2. Seen(call[c].user, "gate") \in Int
    BY <2>1, SeenType
  <2>3. UNCHANGED refill
    BY <1>2 DEF Gate
  <2>4. call' \in [Calls -> Call] /\ PayersKnown'
    <3>1. CASE Done(c)
      BY <2>3, <3>1, DoneKeeps
    <3>2. CASE call' = [call EXCEPT ![c].pc = "streamed", ![c].amount = cost]
      <4>2. call' \in [Calls -> Call]
        <5> SUFFICES ASSUME NEW i \in Calls PROVE call'[i] \in Call
          BY <3>2 DEF TypeOK
        <5>1. call[i] \in Call /\ cost \in Int
          BY <2>1 DEF TypeOK
        <5>2. QED
          BY <3>2, <5>1 DEF TypeOK, Call, CallPC
      <4>3. PayersKnown'
        BY <1>0, <2>1, <2>3, <3>2 DEF TypeOK, PayersKnown, Call
      <4>4. QED
        BY <4>2, <4>3
    <3>3. CASE /\ Seen(call[c].user, "gate") > 0
               /\ call' = [call EXCEPT ![c].pc = "debit",
                             ![c].amount = Seen(call[c].user, "gate"), ![c].cut = TRUE]
      BY <1>0, <2>1, <2>2, <2>3, <3>3 DEF TypeOK, PayersKnown, Call, CallPC
    <3>4. QED
      BY <1>2, <3>1, <3>2, <3>3 DEF Gate
  <2>5. view' \in [Users -> [gate : Int \cup {Unread}, final : Int \cup {Unread}]]
    BY <1>2, <2>1, <2>2 DEF Gate, TypeOK
  <2>6. QED
    BY <1>2, <2>4, <2>5, QuietCall DEF Gate
<1>3. ASSUME NEW cost \in Costs, Price(c, cost)
      PROVE  IInv'
  <2>1. call[c].user \in Users /\ cost \in Nat \ {0}
    BY <1>0, <1>3, WalletsAssumption DEF Price
  <2>2. call' \in [Calls -> Call] /\ PayersKnown'
    <3>1. CASE Done(c)
      BY <1>3, <3>1, DoneKeeps DEF Price
    <3>2. CASE call' = [call EXCEPT ![c].amount = cost, ![c].pc = "debit"]
      BY <1>0, <1>3, <2>1, <3>2 DEF Price, TypeOK, PayersKnown, Call, CallPC
    <3>3. QED
      BY <1>3, <3>1, <3>2 DEF Price
  <2>3. QED
    BY <1>3, <2>2, QuietCall DEF Price, TypeOK
<1>4. CASE Finalize(c)
  <2>1. call[c].user \in Users /\ Seen(call[c].user, "final") \in Int
    BY <1>0, <1>4, SeenType DEF Finalize
  <2>2. call' \in [Calls -> Call] /\ PayersKnown'
    <3>1. CASE Done(c)
      BY <1>4, <3>1, DoneKeeps DEF Finalize
    <3>2. CASE Goto(c, "debit")
      BY <1>0, <1>4, <3>2 DEF Finalize, Goto, TypeOK, PayersKnown, Call, CallPC
    <3>3. QED
      BY <1>4, <3>1, <3>2 DEF Finalize
  <2>3. view' \in [Users -> [gate : Int \cup {Unread}, final : Int \cup {Unread}]]
    BY <1>4, <2>1 DEF Finalize, TypeOK
  <2>4. QED
    BY <1>4, <2>2, <2>3, QuietCall DEF Finalize
<1>5. CASE Debit(c)
  <2>1. /\ call[c].user \in Users /\ call[c].amount \in Int
        /\ Locked(call[c].user).last \in Nat /\ Locked(call[c].user).balance \in Int
    BY <1>0, <1>5, LockedType DEF Debit, Call, Wallet
  <2>2. call' \in [Calls -> Call] /\ PayersKnown'
    BY <1>5, DoneKeeps DEF Debit
  <2>3. /\ wallet' \in [Users -> Wallet] /\ book' \in [Users -> Int]
        /\ BalanceIsBooked' /\ UnopenedEmpty'
    <3>1. /\ 0 - call[c].amount \in Int
          /\ Book({}, call[c].user, 0 - call[c].amount, Locked(call[c].user).last)
      BY <1>5, <2>1 DEF Debit
    <3>2. QED
      BY <2>1, <3>1, BookAlone
  <2>4. view' \in [Users -> [gate : Int \cup {Unread}, final : Int \cup {Unread}]]
    BY <1>5, <2>1 DEF Debit, TypeOK
  <2>5. QED
    BY <1>5, <2>2, <2>3, <2>4 DEF Debit, TypeOK, BudgetNeverNegative
<1>6. CASE DebitRaises(c)
  <2>1. call' \in [Calls -> Call] /\ PayersKnown'
    BY <1>6, DoneKeeps DEF DebitRaises
  <2>2. QED
    BY <1>6, <2>1, QuietCall DEF DebitRaises, TypeOK
<1>7. QED
  BY <1>1, <1>2, <1>3, <1>4, <1>5, <1>6 DEF CallStep

LEMMA Inductive == IInv /\ [Next]_vars => IInv'
<1> SUFFICES ASSUME IInv, [Next]_vars PROVE IInv'
  OBVIOUS
<1>1. ASSUME NEW u \in Users, Reconnect(u) PROVE IInv'
  BY <1>1, QuietCall DEF Reconnect, Disconnected, IInv, TypeOK, PayersKnown
<1>2. CASE Tick
  BY <1>2 DEF Tick, IInv, TypeOK, PayersKnown, UnopenedEmpty, BalanceIsBooked,
              BudgetNeverNegative
<1>3. CASE UNCHANGED vars
  BY <1>3 DEF vars, IInv, TypeOK, PayersKnown, UnopenedEmpty, BalanceIsBooked,
              BudgetNeverNegative
<1>4. QED
  BY <1>1, <1>2, <1>3, RefillKeeps, OwnerKeeps, CallKeeps DEF Next

LEMMA Always == Spec => []IInv
BY Initially, Inductive, PTL DEF Spec

-----------------------------------------------------------------------------
\* Every variable keeps its type, in any instance.
THEOREM TypeCorrect == Spec => []TypeOK
BY Always, PTL DEF IInv

\* However debits, refills, allocations and credits of any number of processes
\* interleave, a wallet's balance is its opening balance plus its transaction rows
\* (billing/models.py Transaction.save).
THEOREM BooksBalance == Spec => []BalanceIsBooked
BY Always, PTL DEF IInv

\* No interleaving of refill jobs, allocations and funding overspends a group's
\* budget (billing/tasks.py, billing/group_wallet_service.py).
THEOREM BudgetsHold == Spec => []BudgetNeverNegative
BY Always, PTL DEF IInv

-----------------------------------------------------------------------------
(* What a step may take from a wallet.                                      *)

\* A row moves the wallet it is for; the others at most receive their opening.
LEMMA BookMoves ==
  ASSUME TypeOK, UnopenedEmpty, NEW touched, NEW u \in Users, NEW d \in Int, NEW last,
         Book(touched, u, d, last), NEW w \in Users
  PROVE  /\ wallet[w].open => wallet'[w].open
         /\ w # u => wallet'[w].balance >= wallet[w].balance
         /\ w = u => wallet'[w].balance = Locked(w).balance + d
         /\ Locked(w).balance >= wallet[w].balance
         /\ wallet[w].open => Locked(w) = wallet[w]
<1>1. wallet[w] \in Wallet
  BY DEF TypeOK
<1>2. /\ wallet[w].open => Locked(w) = wallet[w]
      /\ ~wallet[w].open => Locked(w).balance = Opening /\ wallet[w].balance = 0
      /\ Locked(w).open
  BY DEF Locked, UnopenedEmpty
<1>3. Locked(w).balance >= wallet[w].balance
  BY <1>1, <1>2, WalletsAssumption DEF Wallet
<1>4. wallet'[w] = IF w = u THEN [open |-> TRUE, balance |-> Locked(w).balance + d, last |-> last]
                   ELSE IF w \in touched THEN Locked(w) ELSE wallet[w]
  BY DEF Book
<1>5. QED
  BY <1>1, <1>2, <1>3, <1>4 DEF Wallet

\* No step but a debit takes anything from a wallet, and none closes one.
Drains(c) == call[c].pc = "debit" /\ call'[c].pc = "done" /\ Debit(c)
Gentle == \A w \in Users : wallet'[w].balance >= wallet[w].balance
Opens == \A w \in Users : wallet[w].open => wallet'[w].open

LEMMA StepIsGentle ==
  ASSUME IInv, [Next]_vars
  PROVE  Opens /\ (Gentle \/ \E c \in Calls : Drains(c))
<1> USE DEF IInv
<1>1. ASSUME NEW touched, NEW u \in Users, NEW d \in Nat, NEW last, Book(touched, u, d, last)
      PROVE  Opens /\ Gentle
  <2>1. \A w \in Users : wallet[w] \in Wallet /\ Locked(w) \in Wallet
    BY LockedType DEF TypeOK
  <2>2. QED
    <3>1. ASSUME NEW w \in Users
          PROVE  /\ wallet[w].open => wallet'[w].open
                 /\ wallet'[w].balance >= wallet[w].balance
      <4>1. d \in Int /\ d >= 0
        OBVIOUS
      <4>2. /\ wallet[w].open => wallet'[w].open
            /\ w # u => wallet'[w].balance >= wallet[w].balance
            /\ w = u => wallet'[w].balance = Locked(w).balance + d
            /\ Locked(w).balance >= wallet[w].balance
        BY <1>1, <4>1, BookMoves
      <4>3. QED
        BY <2>1, <4>1, <4>2 DEF Wallet
    <3>2. QED
      BY <3>1 DEF Opens, Gentle
<1>2. ASSUME UNCHANGED wallet
      PROVE  Opens /\ Gentle
  BY <1>2 DEF Opens, Gentle, TypeOK, Wallet
<1>3. ASSUME NEW r \in Refills, RefillStep(r)
      PROVE  Opens /\ Gentle
  <2>1. CASE StartRefill(r) \/ EndRefill(r)
    BY <1>2, <2>1 DEF StartRefill, EndRefill
  <2>2. ASSUME NEW u \in Users, Judge(r, u) PROVE Opens /\ Gentle
    <3>1. UNCHANGED wallet \/ wallet' = [wallet EXCEPT ![u].last = refill[r].now]
      BY <2>2 DEF Judge
    <3>2. \A w \in Users : wallet[w] \in Wallet
      BY DEF TypeOK
    <3>3. QED
      <4>1. CASE UNCHANGED wallet
        BY <1>2, <4>1
      <4>2. CASE wallet' = [wallet EXCEPT ![u].last = refill[r].now]
        <5>1. ASSUME NEW w \in Users
              PROVE  wallet'[w].open = wallet[w].open /\ wallet'[w].balance = wallet[w].balance
          BY <3>2, <4>2 DEF TypeOK, Wallet
        <5>2. QED
          BY <3>2, <5>1 DEF Opens, Gentle, Wallet
      <4>3. QED
        BY <3>1, <4>1, <4>2
  <2>3. CASE PayFromGroup(r) \/ PayFromSystem(r)
    <3>1. refill[r].user \in Users /\ refill[r].credit \in Nat
      BY <2>3 DEF PayFromGroup, PayFromSystem, PayersKnown, TypeOK, RefillJob
    <3>2. QED
      BY <1>1, <1>2, <2>3, <3>1 DEF PayFromGroup, PayFromSystem
  <2>4. QED
    BY <1>3, <2>1, <2>2, <2>3 DEF RefillStep
<1>4. CASE OwnerStep
  <2>1. Gifts \subseteq Nat /\ 0 \in Nat
    BY WalletsAssumption
  <2>2. QED
    BY <1>1, <1>2, <1>4, <2>1 DEF OwnerStep, Fund, Allocate, Topup, SetPolicy, SetActive
<1>5. ASSUME NEW c \in Calls, CallStep(c)
      PROVE  Opens /\ (Gentle \/ Drains(c))
  <2>1. ASSUME NEW u \in Callers, NEW kind \in Kinds[c], Dispatch(c, u, kind)
        PROVE  Opens /\ Gentle
    <3>1. u \in Users /\ 0 \in Nat
      BY WalletsAssumption
    <3>2. QED
      BY <1>1, <1>2, <2>1, <3>1 DEF Dispatch
  <2>2. CASE Debit(c)
    <3>1. call'[c].pc = "done" /\ call[c].pc = "debit"
      BY <2>2 DEF Debit, Done, Unpriced, TypeOK
    <3>2. call[c].user \in Users /\ 0 - call[c].amount \in Int
      BY <2>2 DEF Debit, PayersKnown, TypeOK, Call
    <3>3. Opens
      BY <2>2, <3>2, BookMoves DEF Debit, Opens
    <3>4. QED
      BY <2>2, <3>1, <3>3 DEF Drains
  <2>3. CASE \/ \E cost \in Costs : Gate(c, cost) \/ Price(c, cost)
             \/ Finalize(c) \/ DebitRaises(c)
    BY <1>2, <2>3 DEF Gate, Price, Finalize, DebitRaises
  <2>4. QED
    BY <1>5, <2>1, <2>2, <2>3 DEF CallStep
<1>6. CASE Tick \/ (\E u \in Users : Reconnect(u)) \/ UNCHANGED vars
  BY <1>2, <1>6 DEF Tick, Reconnect, vars
<1>7. QED
  BY <1>3, <1>4, <1>5, <1>6 DEF Next

\* Turns and workflow steps never overdraw a wallet, whatever balance they were judged
\* by: only the settlement of a background call does.
THEOREM OverdraftsAreSettlements == Spec => OnlySettlementOverdraws
<1>1. ASSUME IInv, [Next]_vars, NEW u \in Users,
             wallet'[u].balance < 0, wallet'[u].balance < wallet[u].balance
      PROVE  \E c \in Calls : call[c].user = u /\ call[c].kind = "background"
                             /\ call[c].pc = "debit" /\ call'[c].pc = "done"
  <2> USE DEF IInv
  <2>1. wallet[u] \in Wallet /\ Locked(u) \in Wallet
    BY <1>1, LockedType DEF TypeOK
  <2>2. PICK c \in Calls : Drains(c)
    <3>1. wallet' \in [Users -> Wallet]
      BY <1>1, Inductive DEF TypeOK
    <3>2. ~Gentle
      BY <1>1, <2>1, <3>1 DEF Gentle, Wallet
    <3>3. QED
      BY <1>1, <3>2, StepIsGentle
  <2>3. call[c].user \in Users /\ call[c].amount \in Int /\ 0 - call[c].amount \in Int
    BY <1>1, <2>2 DEF Drains, PayersKnown, TypeOK, Call
  <2>4. Book({}, call[c].user, 0 - call[c].amount, Locked(call[c].user).last)
    BY <2>2 DEF Drains, Debit
  <2>5. \/ u # call[c].user /\ wallet'[u].balance >= wallet[u].balance
        \/ u = call[c].user /\ wallet'[u].balance = Locked(u).balance + (0 - call[c].amount)
    BY <1>1, <2>3, <2>4, BookMoves
  <2>6. wallet' \in [Users -> Wallet]
    BY <1>1, Inductive DEF TypeOK
  <2>7. u = call[c].user /\ Locked(u).balance < call[c].amount
    BY <1>1, <2>1, <2>3, <2>5, <2>6 DEF Wallet
  <2>8. call[c].kind = "background" \/ Locked(u).balance >= call[c].amount
    BY <2>2, <2>7 DEF Drains, Debit, Covers
  <2>9. call[c].kind = "background"
    BY <2>1, <2>3, <2>7, <2>8 DEF Wallet
  <2>10. QED
    BY <2>2, <2>7, <2>9 DEF Drains
<1>2. IInv /\ [Next]_vars =>
        [\A u \in Users : wallet'[u].balance < 0 /\ wallet'[u].balance < wallet[u].balance
           => \E c \in Calls : call[c].user = u /\ call[c].kind = "background"
                              /\ call[c].pc = "debit" /\ call'[c].pc = "done"]_vars
  BY <1>1
<1>3. QED
  BY <1>2, Always, PTL DEF Spec, OnlySettlementOverdraws

-----------------------------------------------------------------------------
(* The refill job.                                                          *)

\* A wallet the job loaded open is open still, and the credit it is about to pay fits
\* the wallet as the job loaded it.
PendingFits ==
  \A r \in Refills :
    /\ \A u \in Users : refill[r].seen[u].open => wallet[u].open
    /\ refill[r].pc = "pay" =>
         /\ refill[r].seen[refill[r].user].open
         /\ refill[r].seen[refill[r].user].balance + refill[r].credit <= refill[r].cap

LEMMA PendingStep ==
  ASSUME IInv, PendingFits, [Next]_vars
  PROVE  PendingFits'
<1> USE DEF IInv
<1>1. Opens
  BY StepIsGentle
<1>2. ASSUME NEW i \in Refills, refill'[i] = refill[i]
      PROVE  /\ \A u \in Users : refill'[i].seen[u].open => wallet'[u].open
             /\ refill'[i].pc = "pay" =>
                  /\ refill'[i].seen[refill'[i].user].open
                  /\ refill'[i].seen[refill'[i].user].balance + refill'[i].credit
                       <= refill'[i].cap
  BY <1>1, <1>2 DEF PendingFits, Opens
<1>3. CASE UNCHANGED refill
  BY <1>2, <1>3 DEF PendingFits
<1>4. ASSUME NEW r \in Refills, RefillStep(r)
      PROVE  PendingFits'
  <2>1. ASSUME NEW u \in Users, NEW o, Skip(r, u, o)
        PROVE  PendingFits'
    <3>1. refill[r].seen \in [Users -> Wallet]
      BY DEF TypeOK, RefillJob
    <3>2. /\ refill'[r].pc = "loop"
          /\ refill'[r].seen = [refill[r].seen EXCEPT ![u] = Void]
          /\ \A i \in Refills \ {r} : refill'[i] = refill[i]
      BY <2>1 DEF Skip, Looping, TypeOK
    <3>3. \A w \in Users : refill'[r].seen[w].open => wallet'[w].open
      BY <1>1, <3>1, <3>2 DEF PendingFits, Opens, Void
    <3>4. QED
      BY <1>2, <3>2, <3>3 DEF PendingFits
  <2>2. CASE StartRefill(r)
    <3>1. /\ refill'[r].pc = "loop" /\ refill'[r].seen = wallet /\ wallet' = wallet
          /\ \A i \in Refills \ {r} : refill'[i] = refill[i]
      BY <2>2 DEF StartRefill, Looping, TypeOK
    <3>2. QED
      BY <1>2, <3>1 DEF PendingFits
  <2>3. CASE EndRefill(r)
    <3>1. /\ refill'[r].pc = "idle" /\ \A u \in Users : ~refill'[r].seen[u].open
          /\ \A i \in Refills \ {r} : refill'[i] = refill[i]
      BY <2>3 DEF EndRefill, IdleRefill, TypeOK, Void
    <3>2. QED
      BY <1>2, <3>1 DEF PendingFits
  <2>4. ASSUME NEW u \in Users, Judge(r, u)
        PROVE  PendingFits'
    <3> DEFINE w == refill[r].seen[u]
               credit == RefillCredit(Resolve(u, "amount"), CapOf(u), w.balance)
    <3>1. CASE \E o \in Outcome : Skip(r, u, o)
      BY <2>1, <3>1
    <3>2. CASE /\ w.open /\ credit > 0
               /\ refill' = [refill EXCEPT ![r].pc = "pay", ![r].user = u,
                                            ![r].credit = credit, ![r].cap = CapOf(u)]
      <4>1. w \in Wallet /\ Resolve(u, "amount") \in Int /\ CapOf(u) \in Int
        BY ResolveType DEF TypeOK, RefillJob
      <4>2. w.balance + credit <= CapOf(u)
        BY <3>2, <4>1, CreditType DEF Wallet
      <4> HIDE DEF credit
      <4>3. /\ refill'[r].pc = "pay" /\ refill'[r].user = u /\ refill'[r].credit = credit
            /\ refill'[r].cap = CapOf(u) /\ refill'[r].seen = refill[r].seen
            /\ \A i \in Refills \ {r} : refill'[i] = refill[i]
        BY <3>2 DEF TypeOK, RefillJob
      <4>4. \A v \in Users : refill'[r].seen[v].open => wallet'[v].open
        BY <1>1, <4>3 DEF PendingFits, Opens
      <4>5. QED
        BY <1>2, <3>2, <4>2, <4>3, <4>4 DEF PendingFits
    <3>3. QED
      BY <2>4, <3>1, <3>2 DEF Judge, Outcome
  <2>5. CASE PayFromGroup(r) \/ PayFromSystem(r)
    <3>1. refill[r].user \in Users
      BY <2>5 DEF PayFromGroup, PayFromSystem, PayersKnown
    <3>2. \E o : Skip(r, refill[r].user, o)
      BY <2>5 DEF PayFromGroup, PayFromSystem
    <3>3. QED
      BY <2>1, <3>1, <3>2
  <2>6. QED
    BY <1>4, <2>2, <2>3, <2>4, <2>5 DEF RefillStep
<1>5. QED
  BY <1>3, <1>4 DEF Next, OwnerStep, Fund, Allocate, Topup, SetPolicy, SetActive, CallStep,
     Dispatch, Gate, Price, Finalize, Debit, DebitRaises, Reconnect, Tick, vars

\* A refill lifts a wallet past its cap only if the wallet was credited after the job
\* loaded it (billing/tasks.py judges the preloaded balance).
THEOREM RefillsFit == Spec => CapHeldUnlessCredited
<1>1. Init => PendingFits
  BY DEF Init, PendingFits, IdleRefill, Void
<1>2. IInv /\ PendingFits /\ [Next]_vars => PendingFits'
  BY PendingStep
<1>3. ASSUME IInv, PendingFits, [Next]_vars, NEW r \in Refills, NEW u \in Users,
             Refilled(r, u)
      PROVE  \/ wallet'[u].balance <= refill[r].cap
             \/ wallet[u].balance > refill[r].seen[u].balance
  <2> USE DEF IInv
  <2>1. refill'[r] # refill[r]
    BY <1>3 DEF Refilled
  <2>2. ASSUME NEW i \in Refills, RefillStep(i) PROVE i = r
    <3> SUFFICES ASSUME i # r PROVE refill'[r] = refill[r]
      BY <1>3, <2>1
    <3>1. ASSUME NEW v \in Users, Judge(i, v) PROVE refill'[r] = refill[r]
      BY <1>3, <3>1 DEF TypeOK, Judge, Skip
    <3>2. CASE StartRefill(i) \/ PayFromGroup(i) \/ PayFromSystem(i) \/ EndRefill(i)
      BY <1>3, <3>2 DEF TypeOK, StartRefill, PayFromGroup, PayFromSystem, EndRefill, Skip
    <3>3. QED
      BY <2>2, <3>1, <3>2 DEF RefillStep
  <2>3. RefillStep(r)
    BY <1>3, <2>1, <2>2 DEF Next, OwnerStep, Fund, Allocate, Topup, SetPolicy, SetActive,
       CallStep, Dispatch, Gate, Price, Finalize, Debit, DebitRaises, Reconnect, Tick, vars
  <2>4. refill[r].credit \in Int /\ refill[r].cap \in Int /\ wallet[u] \in Wallet
        /\ refill[r].seen[u] \in Wallet
    <3>1. refill[r] \in RefillJob
      BY <1>3 DEF TypeOK
    <3>2. QED
      BY <1>3, <3>1 DEF TypeOK, RefillJob
  <2>5. \E touched : Book(touched, u, refill[r].credit, refill[r].now)
    <3>1. CASE StartRefill(r)
      BY <1>3, <3>1 DEF Refilled, StartRefill
    <3>2. CASE EndRefill(r)
      BY <1>3, <3>2 DEF Refilled, EndRefill, IdleRefill, TypeOK
    <3>3. ASSUME NEW v \in Users, Judge(r, v) PROVE FALSE
      BY <1>3, <3>3 DEF Refilled, Judge
    <3>4. CASE PayFromSystem(r)
      BY <1>3, <3>4 DEF Refilled, PayFromSystem
    <3>5. CASE PayFromGroup(r)
      <4>1. ASSUME Skip(r, u, "skipped") \/ Skip(r, u, "failed") PROVE FALSE
        BY <1>3, <4>1 DEF Refilled, Skip, Looping, TypeOK
      <4>2. QED
        BY <1>3, <3>5, <4>1 DEF Refilled, PayFromGroup
    <3>6. QED
      BY <2>3, <3>1, <3>2, <3>3, <3>4, <3>5 DEF RefillStep
  <2>6. wallet'[u].balance = Locked(u).balance + refill[r].credit
    <3>1. PICK touched : Book(touched, u, refill[r].credit, refill[r].now)
      BY <2>5
    <3>2. QED
      BY <1>3, <2>4, <3>1, BookMoves
  <2>7. /\ wallet[u].open
        /\ refill[r].seen[u].balance + refill[r].credit <= refill[r].cap
    BY <1>3 DEF Refilled, PendingFits
  <2>8. QED
    BY <2>4, <2>6, <2>7 DEF Locked, Wallet
<1>4. IInv /\ PendingFits /\ [Next]_vars =>
        [\A r \in Refills, u \in Users : Refilled(r, u) =>
           wallet'[u].balance <= refill[r].cap
             \/ wallet[u].balance > refill[r].seen[u].balance]_vars
  BY <1>3
<1>5. QED
  BY <1>1, <1>2, <1>4, Always, PTL DEF Spec, CapHeldUnlessCredited

-----------------------------------------------------------------------------
(* Wallets implements Treasury.                                             *)

\* One transaction's rows are one purse earning or spending.
LEMMA BookIsOnlyFor ==
  ASSUME IInv, NEW touched \in SUBSET Users, NEW u \in Users, NEW d \in Int,
         NEW last \in Nat, Book(touched, u, d, last)
  PROVE  Money!OnlyFor(u) /\ Money!Earned(u) = d
<1> USE DEF IInv
<1>1. wallet' \in [Users -> Wallet]
  BY BookKeeps
<1>2. \A w \in Users : wallet[w] \in Wallet /\ Opening \in Int
  BY WalletsAssumption DEF TypeOK
<1>3. ASSUME NEW w \in Users
      PROVE  /\ wallet[w].open => wallet'[w].open
             /\ Money!Earned(w) = IF w = u THEN d ELSE 0
             /\ w = u => wallet'[w].open
  <2>1. wallet'[w] = IF w = u THEN [open |-> TRUE, balance |-> Locked(w).balance + d,
                                    last |-> last]
                     ELSE IF w \in touched THEN Locked(w) ELSE wallet[w]
    BY DEF Book
  <2>2. wallet[w].open => Locked(w) = wallet[w]
    BY DEF Locked
  <2>3. ~wallet[w].open => /\ wallet[w].balance = 0
                           /\ Locked(w) = [open |-> TRUE, balance |-> Opening, last |-> Never]
    BY DEF Locked, UnopenedEmpty
  <2>4. Money!Earned(w) = wallet'[w].balance - wallet[w].balance
                            - (IF wallet'[w].open /\ ~wallet[w].open THEN Opening ELSE 0)
    BY DEF Money!Earned
  <2>5. wallet[w] \in Wallet /\ wallet'[w] \in Wallet
    BY <1>1, <1>2
  <2>6. CASE wallet[w].open
    BY <1>2, <2>1, <2>2, <2>4, <2>5, <2>6 DEF Wallet
  <2>7. CASE ~wallet[w].open
    BY <1>2, <2>1, <2>3, <2>4, <2>5, <2>7 DEF Wallet
  <2>8. QED
    BY <2>6, <2>7
<1>4. [w \in Users |-> wallet'[w].balance] \in [Users -> Int]
  BY <1>1 DEF Wallet
<1>5. QED
  BY <1>3, <1>4 DEF Money!OnlyFor

\* A transaction that leaves the budgets alone.
LEMMA BookIsCreditOrSpend ==
  ASSUME IInv, NEW u \in Users, NEW d \in Int, NEW last \in Nat,
         Book({}, u, d, last), UNCHANGED budget
  PROVE  Money!Next
<1>1. {} \in SUBSET Users
  OBVIOUS
<1>2. Money!OnlyFor(u)
  BY <1>1, BookIsOnlyFor
<1>3. QED
  BY <1>2 DEF Money!Next, Money!CreditOrSpend

\* A step that moves neither balance nor budget.
LEMMA QuietMoney ==
  ASSUME UNCHANGED budget,
         \A u \in Users : wallet'[u].open = wallet[u].open
                        /\ wallet'[u].balance = wallet[u].balance
  PROVE  UNCHANGED Money!vars
BY DEF Money!vars

\* A payment from a group's budget to one of its members.
LEMMA GroupPays ==
  ASSUME IInv, NEW g \in Groups, NEW u \in Users, GroupOf[u] = g, NEW amount \in Nat \ {0},
         budget[g] >= amount, budget' = [budget EXCEPT ![g] = @ - amount],
         NEW touched \in SUBSET Users, NEW last \in Nat, Book(touched, u, amount, last)
  PROVE  Money!Next
<1>1. budget' \in [Groups -> Nat]
  BY DEF IInv, TypeOK, BudgetNeverNegative
<1>2. /\ budget'[g] < budget[g] /\ amount = budget[g] - budget'[g]
      /\ \A h \in Groups \ {g} : budget'[h] = budget[h]
  BY DEF IInv, TypeOK
<1>3. Money!OnlyFor(u) /\ Money!Earned(u) = amount
  BY BookIsOnlyFor
<1>4. Money!Grant(g, u)
  BY <1>1, <1>2, <1>3 DEF Money!Grant, Money!OnlyFrom
<1>5. QED
  BY <1>4 DEF Money!Next

\* Every step of Wallets is a step of Treasury or leaves its variables alone.
LEMMA StepRefines ==
  ASSUME IInv, [Next]_vars
  PROVE  [Money!Next]_(Money!vars)
<1> USE DEF IInv
<1>1. ASSUME UNCHANGED <<wallet, budget>>
      PROVE  UNCHANGED Money!vars
  BY <1>1, QuietMoney
<1>2. ASSUME NEW r \in Refills, RefillStep(r)
      PROVE  Money!Next \/ UNCHANGED Money!vars
  <2>1. CASE StartRefill(r) \/ EndRefill(r)
    BY <1>1, <2>1 DEF StartRefill, EndRefill
  <2>2. ASSUME NEW u \in Users, Judge(r, u) PROVE UNCHANGED Money!vars
    <3>1. /\ UNCHANGED budget
          /\ UNCHANGED wallet \/ wallet' = [wallet EXCEPT ![u].last = refill[r].now]
      BY <2>2 DEF Judge
    <3>2. CASE wallet' = [wallet EXCEPT ![u].last = refill[r].now]
      <4>1. \A w \in Users : wallet'[w].open = wallet[w].open
                             /\ wallet'[w].balance = wallet[w].balance
        BY <3>2 DEF TypeOK, Wallet
      <4>2. QED
        BY <3>1, <4>1, QuietMoney
    <3>3. QED
      BY <1>1, <3>1, <3>2
  <2>3. CASE PayFromGroup(r)
    <3> DEFINE u == refill[r].user
               owners == {OwnerOf[GroupOf[u]]} \cap Users
    <3>1. /\ u \in Users /\ refill[r].credit \in Nat \ {0} /\ refill[r].now \in Nat
          /\ GroupOf[u] \in Groups /\ owners \in SUBSET Users
      BY <2>3, WalletsAssumption DEF PayFromGroup, TypeOK, PayersKnown, RefillJob
    <3>2. \/ UNCHANGED <<wallet, budget>>
          \/ /\ budget[GroupOf[u]] >= refill[r].credit
             /\ budget' = [budget EXCEPT ![GroupOf[u]] = @ - refill[r].credit]
             /\ Book(owners, u, refill[r].credit, refill[r].now)
      BY <2>3 DEF PayFromGroup, BudgetCovers
    <3> HIDE DEF u, owners
    <3>3. QED
      BY <1>1, <3>1, <3>2, GroupPays
  <2>4. CASE PayFromSystem(r)
    <3>1. refill[r].user \in Users /\ refill[r].credit \in Int /\ refill[r].now \in Nat
      BY <2>4 DEF PayFromSystem, TypeOK, PayersKnown, RefillJob
    <3>2. QED
      BY <2>4, <3>1, BookIsCreditOrSpend DEF PayFromSystem
  <2>5. QED
    BY <1>2, <2>1, <2>2, <2>3, <2>4 DEF RefillStep
<1>3. ASSUME NEW g \in Groups, NEW a \in Users, NEW amount \in Gifts, Fund(g, a, amount)
      PROVE  Money!Next
  <2>1. amount \in Nat \ {0} /\ 0 \in Int /\ Locked(a).last \in Nat /\ {} \in SUBSET Users
    BY LockedType, WalletsAssumption DEF Wallet
  <2>2. Money!OnlyFor(a) /\ Money!Earned(a) = 0
    BY <1>3, <2>1, BookIsOnlyFor DEF Fund
  <2>3. /\ budget' \in [Groups -> Nat] /\ budget'[g] > budget[g]
        /\ \A h \in Groups \ {g} : budget'[h] = budget[h]
    BY <1>3, <2>1 DEF Fund, TypeOK, BudgetNeverNegative
  <2>4. QED
    BY <2>2, <2>3 DEF Money!Next, Money!Fund, Money!OnlyFrom
<1>4. ASSUME NEW g \in Groups, NEW a \in Users, NEW amount \in Gifts, NEW u \in Users,
             Allocate(g, a, u, amount)
      PROVE  Money!Next
  <2>1. amount \in Nat \ {0} /\ {a} \in SUBSET Users /\ Locked(u).last \in Nat
    BY LockedType, WalletsAssumption DEF Wallet
  <2>2. QED
    BY <1>4, <2>1, GroupPays DEF Allocate, BudgetCovers
<1>5. ASSUME NEW u \in Users, NEW amount \in Gifts, Topup(u, amount)
      PROVE  Money!Next
  <2>1. PICK last \in {Locked(u).last, day} : Book({}, u, amount, last)
    BY <1>5 DEF Topup
  <2>2. last \in Nat /\ amount \in Int /\ UNCHANGED budget
    BY <1>5, LockedType, WalletsAssumption DEF Topup, TypeOK, Wallet
  <2>3. QED
    BY <2>1, <2>2, BookIsCreditOrSpend
<1>6. CASE OwnerStep
  BY <1>1, <1>3, <1>4, <1>5, <1>6 DEF OwnerStep, SetPolicy, SetActive
<1>7. ASSUME NEW c \in Calls, CallStep(c)
      PROVE  Money!Next \/ UNCHANGED Money!vars
  <2>1. ASSUME NEW u \in Callers, NEW kind \in Kinds[c], Dispatch(c, u, kind)
        PROVE  Money!Next \/ UNCHANGED Money!vars
    <3>1. u \in Users /\ 0 \in Int /\ Locked(u).last \in Nat /\ UNCHANGED budget
      BY <2>1, LockedType, WalletsAssumption DEF Dispatch, Wallet
    <3>2. UNCHANGED wallet \/ Book({}, u, 0, Locked(u).last)
      BY <2>1 DEF Dispatch
    <3>3. QED
      BY <1>1, <3>1, <3>2, BookIsCreditOrSpend
  <2>2. CASE Debit(c)
    <3>1. /\ call[c].user \in Users /\ 0 - call[c].amount \in Int
          /\ Book({}, call[c].user, 0 - call[c].amount, Locked(call[c].user).last)
          /\ UNCHANGED budget
      BY <2>2 DEF Debit, PayersKnown, TypeOK, Call
    <3>2. Locked(call[c].user).last \in Nat
      BY <3>1, LockedType DEF Wallet
    <3>3. QED
      BY <3>1, <3>2, BookIsCreditOrSpend
  <2>3. CASE \/ \E cost \in Costs : Gate(c, cost) \/ Price(c, cost)
             \/ Finalize(c) \/ DebitRaises(c)
    BY <1>1, <2>3 DEF Gate, Price, Finalize, DebitRaises
  <2>4. QED
    BY <1>7, <2>1, <2>2, <2>3 DEF CallStep
<1>8. CASE Tick \/ (\E u \in Users : Reconnect(u)) \/ UNCHANGED vars
  BY <1>1, <1>8 DEF Tick, Reconnect, vars
<1>9. QED
  BY <1>2, <1>6, <1>7, <1>8 DEF Next

\* Billing keeps Treasury's promise: money enters and leaves as Treasury says, and what
\* leaves a group's budget is in a member's wallet after the same step.
THEOREM RefinesTreasury == Spec => ImplementsTreasury
<1>1. Init => Money!Init
  <2> SUFFICES ASSUME Init PROVE Money!Init
    OBVIOUS
  <2>1. {u \in Users : wallet[u].open} \in SUBSET Users
    OBVIOUS
  <2>2. [u \in Users |-> wallet[u].balance] = [u \in Users |-> 0]
    BY DEF Init
  <2>3. QED
    BY <2>1, <2>2 DEF Init, Money!Init
<1>2. IInv /\ [Next]_vars => [Money!Next]_(Money!vars)
  BY StepRefines
<1>3. QED
  BY <1>1, <1>2, Always, PTL DEF Spec, ImplementsTreasury, Money!Spec
=============================================================================
