----------------------------- MODULE MCReceipt -----------------------------
(***************************************************************************)
(* An instance of Receipt for TLC: one required source whose envelope may  *)
(* be tampered with, and a producer's signal of small risk, so that the    *)
(* assurance of a report is 0, 1 or in between.                            *)
(***************************************************************************)
EXTENDS Receipt, TLC

CONSTANTS a, f, key1, key2

MCEnvelopes ==
    {[source |-> a, scope |-> "preflight", disposition |-> "VERIFIED",
      verified_at |-> 0, intact |-> intact, bindings |-> f :> 1] : intact \in BOOLEAN}

MCProducible ==
    {[name |-> <<"condition">>, severity |-> 30, confidence |-> 100,
      status |-> "UNRESOLVED", depth |-> 0, reversible |-> TRUE]}

MCPolicies ==
    {[required_sources |-> {a}, required_fields |-> {f}, preflight_sources |-> {},
      require_preflight |-> FALSE, max_age |-> 0, max_envelopes |-> 1]}

\* Nothing tells one key from the other.
KeySymmetry == Permutations({key1, key2})

MCThresholds == {[human_required_at |-> 80, conditional_at |-> 50, bounded_at |-> 20]}
=============================================================================
