--------------------------- MODULE MCSocialGroups ---------------------------
(* Instances of SocialGroups for TLC. *)
EXTENDS SocialGroups, TLC

CONSTANTS a, b, c, i1, i2, m1

\* Users and identifiers of invitations are only compared with each other.
Symmetric == Permutations(Users) \cup Permutations(Invites)
=============================================================================
