----------------------- MODULE MCSubscriptionRequest -----------------------
(* A small instance of SubscriptionRequest for TLC. *)
EXTENDS SubscriptionRequest, TLC

CONSTANTS r1, r2

\* The devices are interchangeable (only where no liveness is checked).
RequestSymmetry == Permutations(Requests)
=============================================================================
