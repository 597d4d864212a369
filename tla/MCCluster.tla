----------------------------- MODULE MCCluster ------------------------------
(* Worlds for Cluster: who votes, zones, tiers and placement.              *)
EXTENDS Cluster

N(roles, zone) == [roles |-> roles, zone |-> zone]
I(tiers, r) == [tiers |-> tiers, replicas |-> r, partial |-> FALSE, stream |-> FALSE,
                auto |-> FALSE, later |-> FALSE]
World(nodes, inds) == [nodes |-> nodes, indices |-> inds, yml |-> None, awareness |-> FALSE]

both == {"master", "data"}
votes == {"master", "voting_only"}

Electing ==
    {World([a |-> N({"master"}, None), b |-> N({"master"}, None), v |-> N(votes, None),
            x |-> N({"data"}, None)], <<>>),
     World([a |-> N({"master"}, None), v |-> N(votes, None), w |-> N(votes, None),
            x |-> N({"data"}, None)], <<>>)}

Zoned ==
    {World([a |-> N(both, "east"), b |-> N(both, "east"), c |-> N(both, "west"),
            d |-> N(both, "west"), e |-> N(both, "north")], <<>>)}

Placing ==
    LET logs == [I(<<"data_warm", "data_hot">>, 1) EXCEPT !.stream = TRUE]
        three == [a |-> N(both, None), b |-> N(both, None), c |-> N({"master", "data_hot"}, None)]
        two   == [a |-> N(both, None), b |-> N({"data"}, None)]
    IN  {World(three, [logs |-> logs]), World(three, [shop |-> I(<<>>, 1)]),
         World(two, [logs |-> logs, shop |-> I(<<>>, 0)])}

Tiered ==
    {[World([h |-> N({"master", "data_hot"}, None), k |-> N({"master", "data_hot"}, None),
             f |-> N({"master", "data_frozen"}, None)],
            [logs |-> [I(<<"data_warm", "data_hot">>, 1) EXCEPT !.auto = TRUE],
             past |-> [I(<<"data_frozen">>, 0) EXCEPT !.partial = TRUE],
             next |-> [I(<<"data_hot">>, 1) EXCEPT !.later = TRUE]])
        EXCEPT !.yml = "all", !.awareness = TRUE]}

MCWorlds == Electing \cup Zoned \cup Placing \cup Tiered
=============================================================================
