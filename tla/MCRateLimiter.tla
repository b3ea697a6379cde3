--------------------------- MODULE MCRateLimiter ---------------------------
(* Small instances of RateLimiter for TLC. *)
EXTENDS RateLimiter, TLC

\* Clients and callers are interchangeable (only where no liveness is checked).
Symmetry == Permutations(Clients) \union Permutations(Callers)
=============================================================================
