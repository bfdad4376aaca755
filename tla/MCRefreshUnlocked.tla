-------------------------- MODULE MCRefreshUnlocked --------------------------
(* Two servers on a filesystem without locks and two cached specs, the     *)
(* second of which one server cannot form the URL of.                      *)
EXTENDS RefreshUnlocked

CONSTANTS s1, s2

MCProcs  == {s1, s2}
MCBroken == [p \in MCProcs |-> IF p = s1 THEN {2} ELSE {}]
=============================================================================
