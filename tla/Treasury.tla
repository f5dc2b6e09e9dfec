------------------------------ MODULE Treasury ------------------------------
(***************************************************************************)
(* What billing promises about money: it enters as funding of a pool, as   *)
(* credit to one purse or with a new purse, it leaves one purse as         *)
(* spending, and what is taken from a group's pool arrives, in the same    *)
(* step, in the purse of one of its members.                               *)
(***************************************************************************)
EXTENDS Integers

CONSTANTS Purses, Pools, PoolOf, Opening

VARIABLES opened, purse, pool

vars == <<opened, purse, pool>>

Init ==
  /\ opened \in SUBSET Purses
  /\ purse = [u \in Purses |-> 0]
  /\ pool = [g \in Pools |-> 0]

\* What a step adds to the purse of p beyond the balance it was opened with.
Earned(p) == purse'[p] - purse[p] - (IF p \in opened' \ opened THEN Opening ELSE 0)

\* Only the purse of u earns or spends; others may be opened alongside.
OnlyFor(u) ==
  /\ opened \subseteq opened'
  /\ purse' \in [Purses -> Int]
  /\ u \in opened'
  /\ \A p \in Purses \ {u} : Earned(p) = 0

\* Only the pool g moves.
OnlyFrom(g) ==
  /\ pool' \in [Pools -> Nat]
  /\ \A h \in Pools \ {g} : pool'[h] = pool[h]

Fund(g, u) == OnlyFrom(g) /\ OnlyFor(u) /\ pool'[g] > pool[g] /\ Earned(u) = 0

Grant(g, u) ==
  /\ OnlyFrom(g) /\ OnlyFor(u)
  /\ PoolOf[u] = g /\ pool'[g] < pool[g]
  /\ Earned(u) = pool[g] - pool'[g]

CreditOrSpend(u) == OnlyFor(u) /\ UNCHANGED pool

Next ==
  \E u \in Purses :
    \/ \E g \in Pools : Fund(g, u) \/ Grant(g, u)
    \/ CreditOrSpend(u)

Spec == Init /\ [][Next]_vars
=============================================================================
