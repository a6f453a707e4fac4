-------------------------- MODULE MCAdminSessions --------------------------
(***************************************************************************)
(* Constants for model-checking AdminSessions.                             *)
(***************************************************************************)
EXTENDS AdminSessions, TLC

CONSTANTS u1, t1, t2, r1, r2, a1, full, less

Interchangeable == Permutations({t1, t2}) \cup Permutations({full, less})
=============================================================================
