---------------------------- MODULE MCRefreshSweep ----------------------------
(* Two servers and a --refresh, two or three cached specs. *)
EXTENDS RefreshSweep

CONSTANTS s1, s2, forced

MCProcs  == {s1, s2, forced}
MCForced == {forced}

(* The server s1 still runs with a configuration in which the canonical    *)
(* env of the last spec is missing; all have the right one; or all have    *)
(* one in which the first spec's is missing.                               *)
MCBroken      == [p \in MCProcs |-> IF p = s1 THEN {3} ELSE {}]
MCNoneBroken  == [p \in MCProcs |-> {}]
MCFirstBroken == [p \in MCProcs |-> {1}]

(* Two servers only. *)
MCServers == {s1, s2}
=============================================================================
