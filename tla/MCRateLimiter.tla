--------------------------- MODULE MCRateLimiter ---------------------------
(* Instances of RateLimiter for TLC. *)
EXTENDS RateLimiter, TLC

\* Subjects and request slots are interchangeable.
MCSymmetry == Permutations(Subjects) \cup Permutations(Requests)

=============================================================================
