---------------------------- MODULE MCCostFigures ----------------------------
(* CostFigures on a calendar of eight days. *)
EXTENDS CostFigures, TLC

\* The middle month has no third day.
MCMonths == <<3, 2, 3>>
MCRows ==
  {[service |-> "EC2", region |-> "us", meets |-> {"account", "app"}],
   [service |-> "S3", region |-> "us", meets |-> {"account", "app", "team"}],
   [service |-> "S3", region |-> "eu", meets |-> {"app", "team"}]}

\* Rows that cost the same every day, some days nothing, and fractions of a cent.
MCBills ==
  {[r \in MCRows |-> [d \in 0..7 |-> 20]],
   [r \in MCRows |-> [d \in 0..7 |-> IF r.service = "S3" THEN 7 * (d % 3) ELSE 4]],
   [r \in MCRows |-> [d \in 0..7 |-> IF r.region = "us" /\ d > 3 THEN 13 ELSE 0]]}
Service == [name |-> "service", key |-> "service"]
Region == [name |-> "region", key |-> "region"]
MCGroupings == {<<>>, <<Service, Region>>, <<Region, [name |-> "service", key |-> "region"], Service>>}
MCEntities ==
  {[found |-> FALSE, annotations |-> {}, pairs |-> {}, account |-> "none"],
   [found |-> TRUE, annotations |-> {"tags", "category"}, pairs |-> {}, account |-> "none"],
   [found |-> TRUE, annotations |-> {"tags"}, pairs |-> {"app"}, account |-> "valid"],
   [found |-> TRUE, annotations |-> {"tags"}, pairs |-> {"app", "team"}, account |-> "none"],
   [found |-> TRUE, annotations |-> {"category"}, pairs |-> {"team"}, account |-> "invalid"]}
=============================================================================
