----------------------------- MODULE MCJobQueue -----------------------------
(* Two guest threads with a descriptor each, one queue, two tags, two      *)
(* workers.  Raw tag 2 aliases tag 0; bit 2 of a mask is of no tag.        *)
EXTENDS JobQueue, TLC

CONSTANTS g1, g2, d1, d2

MCOwner  == d1 :> g1 @@ d2 :> g2
=============================================================================
