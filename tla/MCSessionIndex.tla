--------------------------- MODULE MCSessionIndex ---------------------------
(***************************************************************************)
(* Small instances of SessionIndex for TLC.                                *)
(***************************************************************************)
EXTENDS SessionIndex, TLC

Perms == Permutations(Keys) \cup Permutations(Entries) \cup Permutations(Deleters)

=============================================================================
