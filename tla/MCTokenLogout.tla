---------------------------- MODULE MCTokenLogout ----------------------------
(* A session with two calls in flight, one with a third, and a logout. *)
EXTENDS TokenLogout, TLC

CONSTANTS p1, p2, t1, t2, t3

MCProcs  == {p1, p2}
MCTasks  == {t1, t2, t3}
MCProcOf == t1 :> p1 @@ t2 :> p1 @@ t3 :> p2

(* The clock stands still: a helper mints a token that is fresh, or one    *)
(* that is stale from the start.                                           *)
MCLifetimes == {1, 2}
=============================================================================
