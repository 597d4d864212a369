------------------------------ MODULE MCDisks -------------------------------
(* Instances of Disks: two hot nodes and a frozen one. *)
EXTENDS Disks

h1 == "h1"
h2 == "h2"
f1 == "f1"
MCNode == {h1, h2, f1}
MCTier == [n \in MCNode |-> IF n = f1 THEN "frozen" ELSE "hot"]

Path(total, avail) == [total |-> total, avail |-> avail]

(* One path or two, of one size or of two sizes, with little room left.    *)
MCLayouts ==
    {[n \in MCNode |-> CASE n = h1 -> l[1] [] n = h2 -> l[2] [] n = f1 -> <<Path(4, 1)>>] :
        l \in {<< <<Path(4, 2)>>, <<Path(8, 2)>> >>,
               << <<Path(4, 1), Path(4, 3)>>, <<Path(4, 1)>> >>,
               << <<Path(6, 2), Path(3, 2)>>, <<Path(8, 2)>> >>}}

Marks(percent, low, high, flood, frozen) ==
    [k \in Kind |-> [percent |-> percent,
                     value |-> CASE k = "low" -> low [] k = "high" -> high
                                 [] k = "flood_stage" -> flood [] OTHER -> frozen]]

Heads(place, low, high, flood, frozen) ==
    [k \in Kind |-> [p \in {"cluster", "yml", "defaults"} |->
        IF p # place THEN NotSet
        ELSE CASE k = "low" -> low [] k = "high" -> high
               [] k = "flood_stage" -> flood [] OTHER -> frozen]]

Setting(mark, explicit, head, old) ==
    [mark |-> mark, explicit |-> [k \in Kind |-> explicit], head |-> head, old |-> old]

(* Percentages with the default headroom, an older version that has none,  *)
(* percentages set explicitly, headrooms set in the cluster or the yml,    *)
(* and bytes.                                                              *)
Percent == Marks(TRUE, 50, 70, 85, 95)
MCSettings ==
    {Setting(Percent, FALSE, Heads("defaults", 2, 1, 1, 1), FALSE),
     Setting(Percent, FALSE, Heads("defaults", 2, 1, 1, 1), TRUE),
     Setting(Percent, TRUE, Heads("defaults", 2, 1, 1, 1), FALSE),
     Setting(Percent, TRUE, Heads("yml", 2, 1, 1, 1), FALSE),
     Setting(Percent, TRUE, Heads("cluster", -1, -1, -1, -1), FALSE),
     Setting(Marks(FALSE, 3, 2, 1, 1), TRUE, Heads("defaults", 2, 1, 1, 1), FALSE)}

MCSilent == {{}, {h1}}
=============================================================================
