--------------------------- MODULE MCEffectBroker ---------------------------
(***************************************************************************)
(* Two calls in two lives of the process over two requests: one whose      *)
(* policy asks for an approval, with a lease, or another plan, or asked at *)
(* another time, and one that is allowed or denied, on the network or not. *)
(***************************************************************************)
EXTENDS EffectBroker, TLC

CONSTANTS d1, d2, p1, p2, r1

Ask == [digest |-> d1, plan |-> p1, occurred |-> 0, network |-> FALSE,
        egress |-> "none", leases |-> <<>>, child |-> TRUE]

Short == [ref |-> r1, digest |-> d1, expires |-> 1, fits |-> TRUE]

MCEffects ==
    {[Ask EXCEPT !.leases = <<Short>>],
     [Ask EXCEPT !.leases = <<[Short EXCEPT !.digest = d2]>>],
     [Ask EXCEPT !.plan = p2],
     [Ask EXCEPT !.occurred = 1],
     [Ask EXCEPT !.digest = d2, !.network = TRUE, !.egress = "allowed"],
     [Ask EXCEPT !.digest = d2, !.network = TRUE, !.egress = "denied"],
     [Ask EXCEPT !.digest = d2, !.child = FALSE]}

MCGrants ==
    {[id |-> "g1", digest |-> d1, once |-> TRUE, expires |-> 2],
     [id |-> "g2", digest |-> d1, once |-> FALSE, expires |-> 1]}

MCPolicies == {(d1 :> "require_approval") @@ (d2 :> said) : said \in {"allow", "deny"}}
=============================================================================
