--------------------------- MODULE MCApprovalQueue ---------------------------
(* ApprovalQueue for TLC.                                                  *)
EXTENDS ApprovalQueue, TLC

Symmetry == Permutations(Requests) \cup Permutations(Crews)
              \cup Permutations(Proposals) \cup Permutations(Mandates)
=============================================================================
