------------------------------ MODULE MCMeshTasks ------------------------------
\* Model-checking constants for MeshTasks.
EXTENDS MeshTasks, TLC

\* Peers and calls are interchangeable.
Symmetry == Permutations(Peers) \cup Permutations(Calls)

===============================================================================
