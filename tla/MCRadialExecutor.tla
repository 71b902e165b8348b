-------------------------- MODULE MCRadialExecutor --------------------------
(***************************************************************************)
(* Instances of RadialExecutor for TLC.  One value is digestible and one   *)
(* is not; the verifiers accept everything, reject the digestible value or *)
(* raise on it.                                                            *)
(***************************************************************************)
EXTENDS RadialExecutor, TLC

CONSTANTS good, odd, err

MCValues == {good, odd}

Accepting == [v \in MCValues |-> "accept"]
Rejecting == [v \in MCValues |-> IF v = good THEN "reject" ELSE "accept"]
Breaking  == [v \in MCValues |-> IF v = good THEN err ELSE "accept"]

AllVerifiers == {Accepting, Rejecting, Breaking}
TwoVerifiers == {Accepting, Rejecting}
NoVerifier   == {Accepting}

Symmetry == Permutations(Calls) \cup Permutations(Authorities)
                \cup Permutations(Works)
=============================================================================
