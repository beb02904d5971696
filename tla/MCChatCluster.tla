---------------------------- MODULE MCChatCluster ----------------------------
(* ChatCluster on two servers, two users and three connections: two on one  *)
(* server and one on the other.                                             *)
EXTENDS ChatCluster, TLC

CONSTANTS s1, s2, u1, u2, c1, c2, c3

MCHome == (c1 :> s1) @@ (c2 :> s1) @@ (c3 :> s2)
MCGroup == {u1, u2}
Symmetry == Permutations({u1, u2})

=============================================================================
