---------------------------- MODULE MCNestedWork ----------------------------
(***************************************************************************)
(* An instance of NestedWork for TLC: two threads each make a call inside  *)
(* another.                                                                *)
(***************************************************************************)
EXTENDS NestedWork, TLC

CONSTANTS outer1, inner1, outer2, inner2, a1, a2, w1, good, err

MCParent == (outer1 :> NoCall) @@ (outer2 :> NoCall)
                @@ (inner1 :> outer1) @@ (inner2 :> outer2)

MCRank == (<<a1, w1>> :> 1) @@ (<<a2, w1>> :> 2)

Accepting == {[v \in {good} |-> "accept"]}
=============================================================================
