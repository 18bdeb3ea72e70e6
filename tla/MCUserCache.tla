---------------------------- MODULE MCUserCache ----------------------------
(* Instances of UserCache for TLC. *)
EXTENDS UserCache, TLC

\* Subjects, ids of users and requests are interchangeable.
MCSymmetry ==
  Permutations(Subjects) \cup Permutations(Users) \cup Permutations(Requests)

=============================================================================
