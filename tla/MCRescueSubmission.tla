------------------------- MODULE MCRescueSubmission -------------------------
(* RescueSubmission for TLC.                                               *)
EXTENDS RescueSubmission, TLC

CONSTANTS b1, b2, m1, m2

\* One borrower who has signed again, or two borrowers with a mandate each.
SameOwner == (m1 :> b1) @@ (m2 :> b1)
TwoOwners == (m1 :> b1) @@ (m2 :> b2)
=============================================================================
