---------------------------- MODULE MCOAuthSignup ----------------------------
(* OAuthSignup for TLC: the members of a set are interchangeable.          *)
EXTENDS OAuthSignup

Symmetry ==
  Permutations(Requests) \cup Permutations(Identities) \cup Permutations(Emails)
    \cup Permutations(Roles)

=============================================================================
