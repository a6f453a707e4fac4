--------------------------- MODULE MCMediaLibrary ---------------------------
(* Three uploads and two deletions. *)
EXTENDS MediaLibrary
=============================================================================
