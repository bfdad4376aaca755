--------------------------- MODULE MCTokenProvider ---------------------------
(* Two sessions, the first with two calls in flight, on one cache directory. *)
EXTENDS TokenProvider, TLC

CONSTANTS p1, p2, t1, t2, t3

MCProcs  == {p1, p2}
MCTasks  == {t1, t2, t3}
MCProcOf == t1 :> p1 @@ t2 :> p1 @@ t3 :> p2

(* A helper's token is fresh for one step of the clock. *)
MCLifetimes == {2}
=============================================================================
