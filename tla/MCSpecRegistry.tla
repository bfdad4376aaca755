---------------------------- MODULE MCSpecRegistry ----------------------------
(* Three versions of a document: one drops an operation, one adds one. *)
EXTENDS SpecRegistry

CONSTANTS p1, p2, list, add, report

TwoProcs == {p1, p2}
MCOps    == {list, add, report}
MCOpsOf  == <<{list, add}, {list}, {list, report}>>
=============================================================================
