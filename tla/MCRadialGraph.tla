--------------------------- MODULE MCRadialGraph ---------------------------
(***************************************************************************)
(* Instances of RadialGraph for TLC: pipelines that share a prefix and     *)
(* diverge, diverge and come back to one value, differ in their initial    *)
(* value or in their authority.                                            *)
(***************************************************************************)
EXTENDS RadialGraph, SequencesExt

CONSTANTS root, left, right, bad, odd, void, x0, x1, a1, a2

MCCalls  == Pipelines \X (1 .. MaxStages)
MCValues == Pipelines \X (0 .. MaxStages)
MCKeys   == {root, left, right, bad, odd, void}

\* left and right come to one value; root builds a new one.
PureTransform == (root :> "new") @@ (left :> "constant") @@ (right :> "constant")
                     @@ (bad :> "new") @@ (odd :> "formless")
                     @@ (void :> "new")

\* left and right both change the value they are given.
InPlaceTransform ==
    (root :> "new") @@ (left :> "inPlace") @@ (right :> "inPlace")
                     @@ (bad :> "new") @@ (odd :> "formless")
                     @@ (void :> "new")

\* The verifier of bad rejects what the stage makes.
MCVerdict == [k \in MCKeys |-> IF k = bad THEN "reject" ELSE "accept"]

Job(a, x, s, t) == [authority |-> a, initial |-> x, stages |-> s, timeout |-> t]

PureJobList == <<Job(a1, x0, <<left, root>>, "none"),
                 Job(a1, x0, <<right, root>>, "none"),
                 Job(a1, x1, <<root>>, "none"),
                 Job(a2, x0, <<left>>, "none"),
                 Job(a1, x0, <<left, bad>>, "bounded"),
                 Job(a1, x0, <<odd>>, "none"),
                 Job(a1, x0, <<left, void>>, "none"),
                 Job(a1, void, <<>>, "none"),
                 Job(a1, x0, <<left>>, "negative"),
                 Job(a1, x0, <<>>, "none")>>

PureJobs == Range(PureJobList)

\* Three pipelines at once, whatever their jobs; their order does not matter.
PureWorkloads ==
    {[p \in Pipelines |-> PureJobList[i[p]]] :
        i \in {j \in [Pipelines -> DOMAIN PureJobList] :
                 \A p, q \in Pipelines : p < q => j[p] <= j[q]}}

InPlaceJobs == {Job(a1, x0, <<root, left>>, "none"),
                Job(a1, x0, <<root, right>>, "none")}

InPlaceWorkloads == [Pipelines -> InPlaceJobs]
=============================================================================
