----------------------------- MODULE MCIndices ------------------------------
(* Instances of Indices: a data stream and its failure store, a rollover   *)
(* alias, an index of its own, a stream that Elasticsearch manages.        *)
EXTENDS Indices

logs     == "logs"
failures == "failures"
orders   == "orders"
products == "products"
MCSeries == {logs, failures, orders, products}
MCKind == [s \in MCSeries |-> CASE s = logs -> "stream" [] s = failures -> "failure"
                               [] s = orders -> "alias" [] OTHER -> "alone"]
MCOwner == [s \in MCSeries |-> "user"]
MCPrimaries == [s \in MCSeries |-> IF s = orders THEN 4 ELSE 1]
MCRollover == [s \in MCSeries |-> IF s = logs THEN {"age"} ELSE {"large", "many docs"}]
MCTrait == {"messy", "throttling", "search_crit"}
=============================================================================
