----------------------------- MODULE MCWallets -----------------------------
(* A group with an owner outside it and one member, for Wallets.           *)
EXTENDS Wallets

CONSTANTS owner, member, group, c1, c2

MCUsers == {owner, member}
MCGroupOf == [u \in MCUsers |-> IF u = member THEN group ELSE NoGroup]
MCOwnerOf == [g \in {group} |-> owner]
MCSystem == [amount |-> 2, cap |-> Unset, period |-> 2]
MCPolicies == {[amount |-> 2, cap |-> 2, period |-> 1]}
MCKinds == [c \in {c1, c2} |-> IF c = c1 THEN {"turn", "step"} ELSE {"background"}]
=============================================================================
