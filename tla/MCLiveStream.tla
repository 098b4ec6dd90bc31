---------------------------- MODULE MCLiveStream ----------------------------
(* Two pods and the viewers of one conversation.                            *)
EXTENDS LiveStream

CONSTANTS p1, p2, v1, v2
=============================================================================
