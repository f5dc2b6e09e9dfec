---------------------------- MODULE MCIngestion ----------------------------
EXTENDS Ingestion, TLC

Symmetry == Permutations(Jobs)

=============================================================================
