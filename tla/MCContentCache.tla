--------------------------- MODULE MCContentCache ---------------------------
(* Every view of the API, two readers and two writers. *)
EXTENDS ContentCache

MCViews == AllViews
MCAdminViews == AdminViews
=============================================================================
