---------------------------- MODULE MCSocialPosts ----------------------------
(* A small instance of SocialPosts: two servers, the job on one of them, the *)
(* merchant's requests on the other, two accounts that may need to be       *)
(* connected again.                                                        *)
EXTENDS SocialPosts, TLC

CONSTANTS s1, s2, a1, a2
EitherAccount == Permutations(Accounts)
=============================================================================
