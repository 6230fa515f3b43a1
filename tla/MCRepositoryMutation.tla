------------------------ MODULE MCRepositoryMutation ------------------------
(* Small instances of RepositoryMutation for TLC; every value is in the .cfg. *)
EXTENDS RepositoryMutation, TLC

Symmetry == Permutations(Texts)
=============================================================================
