---------------------------- MODULE MCSupervisor ----------------------------
(***************************************************************************)
(* Two instances.  Both are configured for path a, the first one also for  *)
(* path b.                                                                 *)
(***************************************************************************)
EXTENDS Supervisor, TLC

CONSTANTS p1, p2, a, b, n1, n2

MCConfig == (p1 :> (n1 :> a @@ n2 :> b)) @@ (p2 :> (n1 :> a))

(* Both instances on the one path only *)
MCOnePath == (p1 :> (n1 :> a)) @@ (p2 :> (n1 :> a))
=============================================================================
