------------------------------ MODULE MCResearch ------------------------------
\* Two Scouts with one event of any kind, one Scout with two, and none with three.
EXTENDS Research

MCLaunches == {{}, {"s1"}, {"s1", "s2"}}
MCMaxEvents == [launched \in MCLaunches |-> 3 - Cardinality(launched)]
=============================================================================
