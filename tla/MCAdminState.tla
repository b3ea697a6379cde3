---------------------------- MODULE MCAdminState ----------------------------
(* Small instances of AdminState for TLC. *)
EXTENDS AdminState, TLC

CONSTANTS r1, r2, l1, l2, h1

\* The POSTs are interchangeable (only where no liveness is checked).
RequestSymmetry == Permutations(Requests)
=============================================================================
