-------------------------- MODULE MCAdminAccounts --------------------------
(***************************************************************************)
(* Constants for model-checking AdminAccounts.                             *)
(***************************************************************************)
EXTENDS AdminAccounts, TLC

CONSTANTS u1, u2, u3, c1, c2

Interchangeable == Permutations({u1, u2, u3}) \cup Permutations({c1, c2})

MCRoleSets == {{"SUPER_ADMIN"}, {"ADMIN"}}
=============================================================================
