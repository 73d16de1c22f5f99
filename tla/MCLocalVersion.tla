--------------------------- MODULE MCLocalVersion ---------------------------
EXTENDS LocalVersion, TLC

\* Replicas, fields and all values but the initial one are interchangeable.
Symmetry == Permutations(Replica) \cup Permutations(Field)
                \cup Permutations(Value \ {Initial})
=============================================================================
