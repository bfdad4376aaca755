------------------------------ MODULE SweepRecord ------------------------------
(***************************************************************************)
(* What the background refresh promises the deployments, with no lease,    *)
(* lock, thread or clock: one process at a time sweeps, and the record     *)
(* has attempts of a spec an interval apart, later ones after earlier.     *)
(***************************************************************************)
EXTENDS Integers

CONSTANTS Procs, Forced, Specs, Interval, Never

VARIABLES
    sweepers,       \* the processes that sweep
    last            \* last[s]: the time recorded of the last attempt of s

vars == <<sweepers, last>>

Blank == [s \in Specs |-> Never]

Init ==
    /\ sweepers = {}
    /\ last = Blank

Take(p) ==
    /\ sweepers = {}
    /\ sweepers' = {p}
    /\ UNCHANGED last

(* The sweeper has attempted a spec, and goes on or is done. *)
Attempt(p, s) ==
    /\ sweepers = {p}
    /\ sweepers' \in {{p}, {}}
    /\ last' = [last EXCEPT ![s] = last'[s]]
    /\ last[s] <= last'[s]
    /\ p \in Forced \/ last[s] = Never \/ last[s] + Interval <= last'[s]

(* The sweeper ends, fails or dies. *)
Leave ==
    /\ sweepers' = {}
    /\ UNCHANGED last

(* A writer dies, and the record with it. *)
Lose ==
    /\ sweepers' = {}
    /\ last' = Blank

Next == \/ \E p \in Procs : Take(p) \/ \E s \in Specs : Attempt(p, s)
        \/ Leave \/ Lose

Spec == Init /\ [][Next]_vars
=============================================================================
