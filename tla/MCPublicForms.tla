--------------------------- MODULE MCPublicForms ---------------------------
(***************************************************************************)
(* Constants for model-checking PublicForms: the newsletter form posted    *)
(* twice for one address, or a course registration with its two emails.    *)
(***************************************************************************)
EXTENDS PublicForms, TLC

CONSTANTS n1, n2, c1, visitor, inbox

\* The two posts are interchangeable: one order of them is enough.
MCBatches == {<<n1, n2>>, <<c1>>}

MCKind == n1 :> "newsletter" @@ n2 :> "newsletter" @@ c1 :> "course"
MCEmail == [f \in {n1, n2, c1} |-> visitor]
=============================================================================
