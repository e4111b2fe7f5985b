--------------------------- MODULE MCRateBuckets ---------------------------
(* Small instances of RateBuckets: our own node and another one.            *)
EXTENDS RateBuckets

CONSTANTS a, me

TwoNodes == {a, me}
OneType  == {"nodeinfo"}

From(node, type, hop) == [node |-> node, type |-> type, hop |-> hop]

Traffic == {From(a, "nodeinfo", 7), From(a, "other", 3),
            From(me, "nodeinfo", 7), From(me, "myinfo", 0)}

(* Settings for the one counted type and for the hop mode.                  *)
Conf(countOn, countWindow, hopOn, hopWindow) ==
  [enabled |-> [m \in Metrics |-> IF m = "hop" THEN hopOn ELSE countOn],
   window  |-> [m \in Metrics |-> IF m = "hop" THEN hopWindow ELSE countWindow],
   limit   |-> [m \in Metrics |-> IF m = "hop" THEN 5 ELSE 1]]

(* Counts over two ticks, which keeps the hop samples as well; hops over    *)
(* two ticks, which keeps the counts; everything over one tick.             *)
Count == Conf(TRUE, 1, FALSE, 0)
Hop   == Conf(TRUE, 0, TRUE, 1)
Short == Conf(TRUE, 0, TRUE, 0)

CountAndHop  == {Count, Hop}
ShortOrCount == {Short, Count}

JustNodeInfo == {From(a, "nodeinfo", 7)}
=============================================================================
