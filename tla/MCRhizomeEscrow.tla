-------------------------- MODULE MCRhizomeEscrow --------------------------
(* Small instances of RhizomeEscrow.                                       *)
EXTENDS RhizomeEscrow, TLC

\* Accounts are interchangeable, and so are session ids.
Symmetry == Permutations(Accounts) \cup Permutations(SessionIDs)
=============================================================================
