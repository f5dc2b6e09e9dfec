--------------------------- MODULE VersionedIndex ---------------------------
(***************************************************************************)
(* What document ingestion promises of one document's search index.  Search*)
(* reads the index under one key.  A replacement is built aside, under a   *)
(* key of its own, and becomes the one searched in a single step, once it  *)
(* is whole.  What is searched is never taken apart while the document     *)
(* exists, and a key that was given up or replaced is never searched again.*)
(***************************************************************************)
CONSTANT Keys

VARIABLES
    exists,     \* the document has not been deleted
    served,     \* the key that search reads
    whole,      \* the keys with a complete index in the vector database
    spare       \* the keys that may still become the one searched

indexVars == <<exists, served, whole, spare>>

IndexInit ==
    /\ exists = TRUE
    /\ served \in Keys
    /\ whole \in {{}, {served}}
    /\ spare = Keys \ {served}

\* A replacement is complete.
Complete(k) ==
    /\ k \in spare /\ k # served
    /\ whole' = whole \cup {k}
    /\ UNCHANGED <<exists, served, spare>>

\* A complete replacement becomes the index searched.
Swap(k) ==
    /\ exists
    /\ k \in spare \cap whole
    /\ served' = k
    /\ spare' = spare \ {k}
    /\ UNCHANGED <<exists, whole>>

\* A replacement is given up.
GiveUp(k) ==
    /\ k \in spare
    /\ spare' = spare \ {k}
    /\ UNCHANGED <<exists, served, whole>>

\* An index that nobody searches is taken apart.
Drop(k) ==
    /\ exists => k # served
    /\ whole' = whole \ {k}
    /\ UNCHANGED <<exists, served, spare>>

Remove ==
    /\ exists
    /\ exists' = FALSE
    /\ UNCHANGED <<served, whole, spare>>

IndexNext ==
    \/ \E k \in Keys : Complete(k) \/ Swap(k) \/ GiveUp(k) \/ Drop(k)
    \/ Remove

IndexSpec == IndexInit /\ [][IndexNext]_indexVars

=============================================================================
