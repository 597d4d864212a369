------------------------------- MODULE MCMasker -------------------------------
(* An instance of Masker: names that overlap, one that is short, one that   *)
(* looks like an alias, one with a space, and addresses: one of the bundle, *)
(* one that only texts hold and loopback.  A summary is a cell, two cells   *)
(* or a cell before what is not masked, in which words stand that may be    *)
(* names, short or not, part of a name, or hold one.                        *)
EXTENDS Masker

CONSTANTS node, host, wa, wb, wc, wab, dn, i1, i2, lo

Pieces == {wa, wb, wc, wab, dn, i1, i2, lo}
MCKind == {node, host, ip}
MCValue == {<<wa, wb>>, <<wb, wc>>, <<wb>>, <<node, 1>>, <<dn>>, <<i1>>, <<i2>>, <<lo>>}
MCCollected ==
    {<<node, <<wa, wb>>>>, <<host, <<wa, wb>>>>, <<node, <<wb, wc>>>>, <<host, <<wb>>>>,
     <<host, <<node, 1>>>>, <<host, <<dn>>>>, <<ip, <<i1>>>>, <<ip, <<lo>>>>}
MCKept == [k \in MCKind |-> IF k = ip THEN {<<lo>>} ELSE {}]
MCShort == {<<wb, wc>>}
MCPiece == Pieces \cup {node, 1}
MCInside == [p \in Pieces \cup MCKind \cup 1 .. 9 |-> IF p = wab THEN {<<wa, wb>>} ELSE {}]
Cells(T) == {[cell |-> TRUE, text |-> t] : t \in T}
Triples == {<<x, y, z>> : x, y, z \in Pieces \ {lo, i1}} \cup {<<node, 1, x>> : x \in Pieces}
Pairs == {<<x, y>> : x \in {wa, wb, i1, lo}, y \in {wb, i2}}
Plain == {[cell |-> FALSE, text |-> t] : t \in {<<wa>>, <<wb, wc>>, <<wb>>, <<wab, lo>>, <<i2>>}}
MCDrafts ==
    {<<c>> : c \in Cells(Triples)}
        \cup {<<c, u>> : c \in Cells(Pairs), u \in Plain}
        \cup {<<c, d>> : c \in Cells(Pairs), d \in Cells({<<i1, i2>>, <<wb, i2>>})}
===============================================================================
