----------------------------- MODULE MCAdapters -----------------------------
(***************************************************************************)
(* An instance of Adapters for TLC: two dimensions, findings with and      *)
(* without a disposition of their own, at the limit and one beyond it.     *)
(***************************************************************************)
EXTENDS Adapters

Finding(code, disposition) == [code |-> code, disposition |-> disposition]

MCFindings == {
    <<>>,
    <<Finding("crowd", "inherited")>>,
    <<Finding("crowd", "BLOCK"), Finding("speed", "BLOCK"), Finding("speed", "other")>>}
=============================================================================
