----------------------------- MODULE MCWorkflows -----------------------------
\* Graphs for model checking Workflows: a human gate beside a step, both before a
\* step that the gate lets in; a router of its own before a step; a single step;
\* and a deliberation of two models with a chairman.
EXTENDS Workflows

Arc(from, to, by) == [from |-> from, to |-> to, route |-> by]
Gate == [nodes |-> {1, 2, 3}, router |-> {2}, human |-> {2},
         edge |-> {Arc(1, 3, Plain), Arc(2, 3, "yes")}]
Choice == [nodes |-> {1, 2}, router |-> {1}, human |-> {}, edge |-> {Arc(1, 2, "yes")}]
Solo == [nodes |-> {1}, router |-> {}, human |-> {}, edge |-> {}]
Council == [nodes |-> {1, 2, 3}, router |-> {}, human |-> {},
            edge |-> {Arc(1, 3, Plain), Arc(2, 3, Plain)}]
MCDrawn == {Gate, Choice, Solo}
MCFiles == [g \in MCDrawn |-> IF g = Solo THEN 2 ELSE 1]
MCEnsembles == {Council}
=============================================================================
