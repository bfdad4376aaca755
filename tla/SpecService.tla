------------------------------ MODULE SpecService ------------------------------
(***************************************************************************)
(* What the spec cache promises those who list, describe and call          *)
(* operations, with no downloads, locks, sweeps or threads: a file that    *)
(* goes from one working document to another, and servers that each offer  *)
(* the operations of exactly one document, or none.                        *)
(***************************************************************************)
EXTENDS Integers

CONSTANTS Procs, Ops, OpsOf, MaxVersion, Missing

Versions == 1..MaxVersion

VARIABLES
    published,      \* the newest version the deployment has published
    file,           \* the version in the cache
    serving,        \* serving[p]: the version server p works with
    offered         \* offered[p]: the operations it lists and calls

vars == <<published, file, serving, offered>>

Init ==
    /\ published = 1
    /\ file \in Versions \cup {Missing}
    /\ serving = [p \in Procs |-> Missing]
    /\ offered = [p \in Procs |-> {}]

Publish ==
    /\ published' = published + 1
    /\ UNCHANGED <<file, serving, offered>>

(* The cache is never emptied, and never holds what was not published. *)
Install ==
    /\ file' \in 1..published
    /\ UNCHANGED <<published, serving, offered>>

(* A server with no document takes one whole, old or new. *)
Serve(p) ==
    /\ serving[p] = Missing
    /\ \E v \in (1..published) \cup ({file} \ {Missing}) :
          /\ serving' = [serving EXCEPT ![p] = v]
          /\ offered' = [offered EXCEPT ![p] = OpsOf[v]]
    /\ UNCHANGED <<published, file>>

Drop(p) ==
    /\ serving' = [serving EXCEPT ![p] = Missing]
    /\ offered' = [offered EXCEPT ![p] = {}]
    /\ UNCHANGED <<published, file>>

Next == Publish \/ Install \/ \E p \in Procs : Serve(p) \/ Drop(p)

Spec == Init /\ [][Next]_vars
=============================================================================
