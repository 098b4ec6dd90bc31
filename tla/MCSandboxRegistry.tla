------------------------- MODULE MCSandboxRegistry -------------------------
(* Two pods: on the first a person's requests and its sweeps, on the second *)
(* another person's requests.                                               *)
EXTENDS SandboxRegistry, TLC

CONSTANTS p1, p2, u1, u2, r1

OnPods == u1 :> p1 @@ r1 :> p1 @@ u2 :> p2

Duties ==
  u1 :> {"turn", "file", "mirror"} @@
  r1 :> {"reap", "shutdown", "close"} @@
  u2 :> {"turn", "file"}
=============================================================================
