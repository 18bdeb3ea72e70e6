---------------------------- MODULE MCAuthFlow ----------------------------
(* Instances of AuthFlow for TLC. *)
EXTENDS AuthFlow, TLC

\* Browsers, states, ids of users and slots are interchangeable.
MCSymmetry ==
  UNION {Permutations(S) : S \in {Browsers, Logins, Subjects, UserIds, Requests}}

=============================================================================
