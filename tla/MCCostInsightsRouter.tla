------------------------ MODULE MCCostInsightsRouter ------------------------
(* Small instances of CostInsightsRouter for TLC. *)
EXTENDS CostInsightsRouter

CONSTANTS a, b, r1, r2, entity, org, invalid, health

TwoCallers == {a, b}
TwoRequests == {r1, r2}

Entity == {entity}
Org == {org}
Invalid == {invalid}
Health == {health}
NoUrls == {}

=============================================================================
