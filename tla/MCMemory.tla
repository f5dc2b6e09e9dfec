------------------------------ MODULE MCMemory ------------------------------
(* Two builds over an old turn, an orphan and a live turn, for Memory.     *)
EXTENDS Memory

MCSays == [t \in Turns |-> IF t < 3 THEN {"active"} ELSE {"active", "held"}]
MCKeyed == [t \in Turns |-> {t < 3}]
=============================================================================
