--------------------------- MODULE NodeTable_proofs ---------------------------
(* What holds of the node table for any nodes and packets.                  *)
EXTENDS NodeTable, FiniteSetTheorems, WellFoundedInduction, NaturalsInduction, TLAPS

MemFields  == {"my", "local", "nodes", "links", "pairs", "classes", "byType", "dx",
               "traceroutes", "events", "log"}
NodeFields == RowFields \cup {"byType", "hops"}

(* u differs from m in the fields F at most.                                *)
Kept(m, u, F) == DOMAIN u = MemFields /\ \A x \in MemFields \ F : u[x] = m[x]

(* Events as the read loop builds them, and what is known of them.          *)
Events == {Over([at |-> s[1]], s[2]) : s \in Nat \X Packets}

EventFact(e) ==
  /\ e.at \in Nat
  /\ e.type \in Types
  /\ e.from \in Nodes \cup {None} /\ e.to \in Nodes \cup {Broadcast}
  /\ e.start \in Nat /\ e.limit \in Nat
  /\ IsLocal(e) => e.from = None
  /\ e.type = "METADATA" /\ "hw_model" \in DOMAIN e.body => e.body.hw_model \in DeviceModels
  /\ e.type \in {"MODULE_NEIGHBOR", "CONFIG_LORA", "MY_INFO"} => "hw_model" \notin DOMAIN e.body
  /\ e.type = "MY_INFO" => e.from = Self
  /\ e.type = "TRACEROUTE" => e.from # None
  /\ e.type = "NEIGHBOR_INFO" => e.body.reporter \in Nodes

LEMMA PutIs ==
  ASSUME NEW f, NEW k, NEW v
  PROVE  /\ DOMAIN Put(f, k, v) = DOMAIN f \cup {k}
         /\ Put(f, k, v)[k] = v
         /\ \A x \in DOMAIN f : x # k => Put(f, k, v)[x] = f[x]
BY DEF Put

LEMMA AtPut ==
  ASSUME NEW f, NEW k, NEW v, NEW d
  PROVE  /\ At(Put(f, k, v), k, d) = v
         /\ \A x : x # k => At(Put(f, k, v), x, d) = At(f, x, d)
BY DEF Put, At

LEMMA OverIs ==
  ASSUME NEW f, NEW g
  PROVE  /\ DOMAIN Over(f, g) = DOMAIN f \cup DOMAIN g
         /\ \A x \in DOMAIN f : Over(f, g)[x] = f[x]
         /\ \A x \in DOMAIN g : x \notin DOMAIN f => Over(f, g)[x] = g[x]
BY DEF Over

LEMMA EventIs == \A e \in Events : EventFact(e)
<1> TAKE e \in Events
<1>1. PICK t \in Nat, p \in Packets : e = Over([at |-> t], p)
  BY DEF Events
<1>2. PICK f : f = [at |-> t]
  OBVIOUS
<1>3. DOMAIN f = {"at"} /\ f.at = t
  BY <1>2
<1>4. e.at = t
  BY <1>1, <1>2, <1>3, OverIs
<1>5. /\ DOMAIN p = {"type", "from", "to", "rssi", "snr", "start", "limit", "body"}
  BY PacketAssumption
<1>b. \A x \in DOMAIN p : x \notin DOMAIN f
  BY <1>3, <1>5
<1>c. e = Over(f, p)
  BY <1>1, <1>2
<1>a. \A x \in DOMAIN p : e[x] = p[x]
  BY <1>b, <1>c DEF Over
<1>6. /\ e.type = p.type /\ e.from = p.from /\ e.to = p.to /\ e.rssi = p.rssi /\ e.snr = p.snr
      /\ e.start = p.start /\ e.limit = p.limit /\ e.body = p.body
  BY <1>5, <1>a
<1>7. e.type = "METADATA" /\ "hw_model" \in DOMAIN e.body => e.body.hw_model \in DeviceModels
  BY <1>6 DEF DeviceModels
<1>8. EventFact(e)
  BY <1>4, <1>6, <1>7, PacketAssumption DEF EventFact, IsLocal
<1> QED BY <1>8
----------------------------------------------------------------------------
(* What each part of Add touches.                                           *)
LEMMA KeptClassify ==
  ASSUME NEW m, NEW e, DOMAIN m = MemFields PROVE Kept(m, classify(m, e), {"classes"})
BY DEF Kept, classify, MemFields

LEMMA KeptRing ==
  ASSUME NEW m, NEW e, DOMAIN m = MemFields
  PROVE  Kept(m, Ring(m, e), {"events", "log", "byType"}) /\ Ring(m, e).log = Append(m.log, e)
         /\ Ring(m, e).events = LastN(Append(m.events, e), RingSize)
BY DEF Kept, Ring, MemFields

LEMMA KeptPair ==
  ASSUME NEW m, NEW e, DOMAIN m = MemFields PROVE Kept(m, trackPair(m, e), {"pairs"})
BY DEF Kept, trackPair, MemFields

LEMMA KeptDX ==
  ASSUME NEW m, NEW e, DOMAIN m = MemFields PROVE Kept(m, trackDX(m, e), {"dx"})
BY DEF Kept, trackDX, MemFields

LEMMA KeptLink ==
  ASSUME NEW m, NEW e, DOMAIN m = MemFields PROVE Kept(m, trackLink(m, e), {"links"})
BY DEF Kept, trackLink, MemFields

LEMMA KeptCount ==
  ASSUME NEW m, NEW e, DOMAIN m = MemFields PROVE Kept(m, countNode(m, e), {"nodes"})
BY DEF Kept, countNode, MemFields

LEMMA KeptHeard ==
  ASSUME NEW m, NEW e, DOMAIN m = MemFields PROVE Kept(m, Heard(m, e), {"nodes"})
BY DEF Kept, Heard, MemFields

LEMMA KeptLocal ==
  ASSUME NEW m, NEW e, DOMAIN m = MemFields
  PROVE  Kept(m, LocalConfig(m, e), {"local"}) /\ LocalConfig(m, e).local = Over(e.body, m.local)
BY DEF Kept, LocalConfig, MemFields

LEMMA KeptAttributes ==
  ASSUME NEW m, NEW e, DOMAIN m = MemFields PROVE Kept(m, Attributes(m, e), {"nodes"})
BY DEF Kept, Attributes, MemFields

LEMMA KeptNodeInfo ==
  ASSUME NEW m, NEW e, DOMAIN m = MemFields PROVE Kept(m, NodeInfo(m, e), {"nodes", "local"})
BY DEF Kept, NodeInfo, Attributes, Mirror, MemFields

LEMMA KeptTraceroute ==
  ASSUME NEW m, NEW e, DOMAIN m = MemFields
  PROVE  /\ Kept(m, Traceroute(m, e), {"traceroutes"})
         /\ Traceroute(m, e).traceroutes = LastN(Append(m.traceroutes, e.at), MaxTraceroutes)
BY DEF Kept, Traceroute, MemFields

LEMMA KeptMyInfo ==
  ASSUME NEW m, NEW e, DOMAIN m = MemFields
  PROVE  /\ Kept(m, MyInfo(m, e), {"my", "nodes", "local"})
         /\ MyInfo(m, e).my = e.from
BY DEF Kept, MyInfo, MemFields

LEMMA KeptNeighborInfo ==
  ASSUME NEW m, NEW e, DOMAIN m = MemFields
  PROVE  Kept(m, NeighborInfo(m, e), {"nodes", "links"})
BY DEF Kept, NeighborInfo, MemFields
----------------------------------------------------------------------------
(* What a message makes of one node.  Nothing the table stores changes      *)
(* without a date that changes, and no attribute is lost.                   *)
Node(m, n) == At(m.nodes, n, NewNode)

AgedRow(b, a, e, n) ==
  /\ DOMAIN a = NodeFields
  /\ DOMAIN b.attrs \subseteq DOMAIN a.attrs
  /\ a.heard = b.heard \/ a.heard = e.at
  /\ \/ a.neighbors = b.neighbors /\ a.neighborsAt = b.neighborsAt
     \/ /\ e.type = "NEIGHBOR_INFO" /\ n = e.body.reporter
        /\ a.neighbors = e.body.neighbors /\ a.neighborsAt = e.at
  /\ \/ \A f \in RowFields : a[f] = b[f]
     \/ a.heard = e.at
     \/ a.neighborsAt = e.at

Aged(b, a, e, n) == AgedRow(b, a, e, n) /\ a.byType = b.byType

NodesAged(m, u, e) == \A n : Aged(Node(m, n), Node(u, n), e, n)

Shaped(m) == DOMAIN m = MemFields /\ \A n \in DOMAIN m.nodes : DOMAIN m.nodes[n] = NodeFields

LEMMA NewNodeIs == DOMAIN NewNode = NodeFields
BY DEF NewNode, NodeFields, RowFields

LEMMA NodeIs ==
  ASSUME NEW m, Shaped(m) PROVE \A n : DOMAIN Node(m, n) = NodeFields
BY NewNodeIs DEF Shaped, Node, At

LEMMA AgedNot ==
  ASSUME NEW b, NEW e, NEW n, DOMAIN b = NodeFields PROVE Aged(b, b, e, n)
BY DEF Aged, AgedRow

LEMMA AgedTwice ==
  ASSUME NEW b, NEW c, NEW a, NEW e, NEW n, Aged(b, c, e, n), Aged(c, a, e, n)
  PROVE  Aged(b, a, e, n)
<1>1. \/ \A f \in RowFields : a[f] = b[f]
      \/ a.heard = e.at
      \/ a.neighborsAt = e.at
  BY DEF Aged, AgedRow
<1>2. \/ a.neighbors = b.neighbors /\ a.neighborsAt = b.neighborsAt
      \/ /\ e.type = "NEIGHBOR_INFO" /\ n = e.body.reporter
         /\ a.neighbors = e.body.neighbors /\ a.neighborsAt = e.at
  BY DEF Aged, AgedRow
<1> QED BY <1>1, <1>2 DEF Aged, AgedRow

(* One node is replaced.                                                    *)
LEMMA AgedPut ==
  ASSUME NEW m, NEW u, NEW e, NEW k, NEW o, Shaped(m), u.nodes = Put(m.nodes, k, o),
         Aged(Node(m, k), o, e, k)
  PROVE  NodesAged(m, u, e)
<1>1. Node(u, k) = o
  BY AtPut DEF Node
<1>2. ASSUME NEW x, x # k PROVE Node(u, x) = Node(m, x)
  BY <1>2 DEF Node, Put, At
<1>3. \A x : DOMAIN Node(m, x) = NodeFields
  BY NodeIs
<1> QED BY <1>1, <1>2, <1>3, AgedNot DEF NodesAged

LEMMA AgedHeard ==
  ASSUME NEW m, NEW e, Shaped(m)
  PROVE  /\ DOMAIN Heard(m, e).nodes = DOMAIN m.nodes \cup {e.from}
         /\ Heard(m, e).nodes[e.from].heard = e.at
         /\ NodesAged(m, Heard(m, e), e)
<1>1. DOMAIN m = MemFields
  BY DEF Shaped
<1>2. PICK n : n = Node(m, e.from)
  OBVIOUS
<1>3. DOMAIN n = NodeFields
  BY <1>2, NodeIs
<1>4. PICK o : o = [n EXCEPT !.heard = e.at, !.rssi = Or(e.rssi, @), !.snr = Or(e.snr, @),
                             !.limit = Or(e.limit, @)]
  OBVIOUS
<1>5. /\ DOMAIN o = NodeFields /\ o.heard = e.at
      /\ \A f \in NodeFields \ {"heard", "rssi", "snr", "limit"} : o[f] = n[f]
  BY <1>3, <1>4 DEF NodeFields, RowFields
<1>6. Heard(m, e).nodes = Put(m.nodes, e.from, o)
  BY <1>1, <1>2, <1>4 DEF Heard, Node, MemFields
<1>7. Aged(n, o, e, e.from)
  BY <1>5 DEF Aged, AgedRow, NodeFields, RowFields
<1>8. NodesAged(m, Heard(m, e), e)
  BY <1>2, <1>6, <1>7, AgedPut
<1>9. /\ DOMAIN Heard(m, e).nodes = DOMAIN m.nodes \cup {e.from}
      /\ Heard(m, e).nodes[e.from] = o
  BY <1>6 DEF Put
<1> QED BY <1>5, <1>8, <1>9
LEMMA AgedAttrs ==
  ASSUME NEW m, NEW u, NEW e, NEW k, NEW attrs, Shaped(m), k \in DOMAIN m.nodes,
         u.nodes = [m.nodes EXCEPT ![k].attrs = attrs],
         m.nodes[k].heard = e.at, DOMAIN m.nodes[k].attrs \subseteq DOMAIN attrs
  PROVE  DOMAIN u.nodes = DOMAIN m.nodes /\ NodesAged(m, u, e)
<1>1. DOMAIN u.nodes = DOMAIN m.nodes
  OBVIOUS
<1>2. PICK o : o = [m.nodes[k] EXCEPT !.attrs = attrs]
  OBVIOUS
<1>3. Node(u, k) = o /\ Node(m, k) = m.nodes[k]
  BY <1>1, <1>2 DEF Node, At
<1>4. ASSUME NEW x, x # k PROVE Node(u, x) = Node(m, x)
  BY <1>1, <1>4 DEF Node, At
<1>5. DOMAIN m.nodes[k] = NodeFields
  BY DEF Shaped
<1>6. /\ DOMAIN o = NodeFields /\ o.attrs = attrs
      /\ \A f \in NodeFields \ {"attrs"} : o[f] = m.nodes[k][f]
  BY <1>2, <1>5 DEF NodeFields, RowFields
<1>7. Aged(Node(m, k), Node(u, k), e, k)
  BY <1>3, <1>6 DEF Aged, AgedRow, NodeFields, RowFields
<1>8. ASSUME NEW x, x # k PROVE Aged(Node(m, x), Node(u, x), e, x)
  BY <1>4, <1>8, NodeIs, AgedNot
<1> QED BY <1>1, <1>7, <1>8 DEF NodesAged

LEMMA AgedAttributes ==
  ASSUME NEW m, NEW e, Shaped(m), e.from \in DOMAIN m.nodes, m.nodes[e.from].heard = e.at
  PROVE  /\ DOMAIN Attributes(m, e).nodes = DOMAIN m.nodes
         /\ NodesAged(m, Attributes(m, e), e)
<1>1. PICK a : a = Over(e.body, m.nodes[e.from].attrs)
  OBVIOUS
<1>2. DOMAIN m.nodes[e.from].attrs \subseteq DOMAIN a
  BY <1>1 DEF Over
<1>3. Attributes(m, e).nodes = [m.nodes EXCEPT ![e.from].attrs = a]
  BY <1>1 DEF Attributes, Shaped, MemFields
<1> QED BY <1>2, <1>3, AgedAttrs

LEMMA AgedMyInfo ==
  ASSUME NEW m, NEW e, Shaped(m), e.from \in DOMAIN m.nodes, m.nodes[e.from].heard = e.at
  PROVE  /\ DOMAIN MyInfo(m, e).nodes = DOMAIN m.nodes
         /\ NodesAged(m, MyInfo(m, e), e)
<1>1. PICK a : a = Over([id |-> e.from], m.nodes[e.from].attrs)
  OBVIOUS
<1>2. DOMAIN m.nodes[e.from].attrs \subseteq DOMAIN a
  BY <1>1 DEF Over
<1>3. MyInfo(m, e).nodes = [m.nodes EXCEPT ![e.from].attrs = a]
  BY <1>1 DEF MyInfo, Shaped, MemFields
<1> QED BY <1>2, <1>3, AgedAttrs

LEMMA AgedNodeInfo ==
  ASSUME NEW m, NEW e, Shaped(m), e.from \in DOMAIN m.nodes, m.nodes[e.from].heard = e.at
  PROVE  /\ DOMAIN NodeInfo(m, e).nodes = DOMAIN m.nodes
         /\ NodesAged(m, NodeInfo(m, e), e)
<1>1. PICK h : h = Attributes(m, e)
  OBVIOUS
<1>2. DOMAIN h = MemFields
  BY <1>1, KeptAttributes DEF Shaped, Kept
<1>3. Mirror(h, e).nodes = h.nodes
  BY <1>2 DEF Mirror, MemFields
<1>4. NodeInfo(m, e).nodes = h.nodes
  BY <1>1, <1>3 DEF NodeInfo
<1>5. DOMAIN h.nodes = DOMAIN m.nodes /\ NodesAged(m, h, e)
  BY <1>1, AgedAttributes
<1> QED BY <1>4, <1>5 DEF NodesAged, Node

LEMMA AgedNeighborInfo ==
  ASSUME NEW m, NEW e, Shaped(m), e.type = "NEIGHBOR_INFO"
  PROVE  /\ DOMAIN NeighborInfo(m, e).nodes = DOMAIN m.nodes \cup {e.body.reporter}
         /\ NodesAged(m, NeighborInfo(m, e), e)
<1>1. PICK n : n = Node(m, e.body.reporter)
  OBVIOUS
<1>2. DOMAIN n = NodeFields
  BY <1>1, NodeIs
<1>3. PICK o : o = [n EXCEPT !.neighbors = e.body.neighbors, !.neighborsAt = e.at]
  OBVIOUS
<1>4. /\ DOMAIN o = NodeFields /\ o.neighbors = e.body.neighbors /\ o.neighborsAt = e.at
      /\ \A f \in NodeFields \ {"neighbors", "neighborsAt"} : o[f] = n[f]
  BY <1>2, <1>3 DEF NodeFields, RowFields
<1>5. NeighborInfo(m, e).nodes = Put(m.nodes, e.body.reporter, o)
  BY <1>1, <1>3 DEF NeighborInfo, Node, Shaped, MemFields
<1>6. Aged(n, o, e, e.body.reporter)
  BY <1>4 DEF Aged, AgedRow, NodeFields, RowFields
<1>7. NodesAged(m, NeighborInfo(m, e), e)
  BY <1>1, <1>5, <1>6, AgedPut
<1> QED BY <1>5, <1>7 DEF Put

----------------------------------------------------------------------------
(* Links: kept as they were, or as the event has it.                        *)
LinkFields == {"rssi", "snr", "count", "at", "neighbor"}

LinksShaped(m) == \A k \in DOMAIN m.links : DOMAIN m.links[k] = LinkFields

Told(k, link) == [ends |-> k, snr |-> link.snr, at |-> link.at]

Linked(m, u, e) ==
  \A k \in DOMAIN u.links :
    /\ DOMAIN u.links[k] = LinkFields
    /\ \/ k \in DOMAIN m.links /\ u.links[k] = m.links[k]
       \/ Told(k, u.links[k]) \in Evidence(e)

LEMMA LinkedAt ==
  ASSUME NEW m, LinksShaped(m) PROVE \A k : DOMAIN At(m.links, k, NewLink) = LinkFields
BY DEF LinksShaped, At, NewLink, LinkFields

LEMMA LinkedNeighborInfo ==
  ASSUME NEW m, NEW e, DOMAIN m = MemFields, LinksShaped(m), e.type = "NEIGHBOR_INFO"
  PROVE  Linked(m, NeighborInfo(m, e), e)
<1> DEFINE list == e.body.neighbors
           r == e.body.reporter
           met == {{r, p} : p \in DOMAIN list}
           far(k) == CHOOSE p \in DOMAIN list : k = {r, p}
           h == [m EXCEPT !.nodes = Put(@, r, [At(m.nodes, r, NewNode) EXCEPT
                    !.neighbors = list, !.neighborsAt = e.at])]
           new(k) == [At(m.links, k, NewLink) EXCEPT !.snr = list[far(k)], !.count = @ + 1,
                        !.at = e.at, !.neighbor = TRUE]
<1>1. NeighborInfo(m, e) = [h EXCEPT !.links = Over([k \in met |-> new(k)], h.links)]
  BY DEF NeighborInfo
<1>2. DOMAIN h = MemFields /\ h.links = m.links
  BY DEF MemFields
<1> HIDE DEF h
<1>3. NeighborInfo(m, e).links = Over([k \in met |-> new(k)], m.links)
  <2> HIDE DEF met, new
  <2> QED BY <1>1, <1>2 DEF MemFields
<1>4. ASSUME NEW k \in met PROVE far(k) \in DOMAIN list /\ k = {r, far(k)}
  <2>1. \E p \in DOMAIN list : k = {r, p}
    OBVIOUS
  <2> QED BY <2>1
<1>5. ASSUME NEW k \in met
      PROVE  DOMAIN new(k) = LinkFields /\ new(k).snr = list[far(k)] /\ new(k).at = e.at
  <2>1. PICK l : l = At(m.links, k, NewLink)
    OBVIOUS
  <2>2. PICK p : p = far(k)
    OBVIOUS
  <2>3. DOMAIN l = LinkFields
    BY <2>1, LinkedAt
  <2>4. new(k) = [l EXCEPT !.snr = list[p], !.count = @ + 1, !.at = e.at, !.neighbor = TRUE]
    BY <2>1, <2>2
  <2> QED BY <2>2, <2>3, <2>4 DEF LinkFields
<1>6. ASSUME NEW k \in met PROVE Told(k, new(k)) \in Evidence(e)
  <2>1. PICK p \in DOMAIN list : p = far(k) /\ k = {r, p}
    BY <1>4
  <2>2. Told(k, new(k)) = [ends |-> {r, p}, snr |-> list[p], at |-> e.at]
    BY <1>5, <2>1 DEF Told
  <2>3. [ends |-> {r, p}, snr |-> list[p], at |-> e.at] \in Evidence(e)
    BY DEF Evidence
  <2> HIDE DEF new, list, r
  <2> QED BY <2>2, <2>3
<1> HIDE DEF new, met, far, list, r
<1>7. PICK f : f = [k \in met |-> new(k)]
  OBVIOUS
<1>8. DOMAIN f = met /\ \A k \in met : f[k] = new(k)
  BY <1>7
<1>9. ASSUME NEW k \in DOMAIN NeighborInfo(m, e).links
      PROVE  IF k \in met THEN NeighborInfo(m, e).links[k] = new(k)
             ELSE k \in DOMAIN m.links /\ NeighborInfo(m, e).links[k] = m.links[k]
  BY <1>3, <1>7, <1>8 DEF Over
<1> QED BY <1>5, <1>6, <1>9 DEF Linked, LinksShaped

LEMMA LinkedTrack ==
  ASSUME NEW m, NEW e, DOMAIN m = MemFields, LinksShaped(m), m.my \in {None, Self}, EventFact(e)
  PROVE  Linked(m, trackLink(m, e), e)
<1> DEFINE to == Receiver(m, e)
           l == At(m.links, {e.from, to}, NewLink)
           o == [l EXCEPT !.rssi = e.rssi, !.snr = e.snr, !.count = @ + 1, !.at = e.at]
<1>2. CASE e.from # None /\ HasSignal(e) /\ SingleHop(e) /\ to \notin {None, e.from}
  <2>1. trackLink(m, e) = [m EXCEPT !.links = Put(m.links, {e.from, to}, o)]
    BY <1>2 DEF trackLink
  <2>2. DOMAIN l = LinkFields
    BY LinkedAt
  <2> HIDE DEF l
  <2>4. DOMAIN o = LinkFields /\ o.snr = e.snr /\ o.at = e.at
    BY <2>2 DEF LinkFields
  <2> HIDE DEF o
  <2>5. trackLink(m, e).links = Put(m.links, {e.from, to}, o)
    BY <2>1 DEF MemFields
  <2>6. to = IF e.to = Broadcast THEN Self ELSE e.to
    BY <1>2 DEF Receiver
  <2>7. e.start \in 1 .. e.limit
    BY <1>2 DEF SingleHop, EventFact
  <2>8. Told({e.from, to}, o) \in Evidence(e)
    BY <1>2, <2>4, <2>6, <2>7 DEF Told, Evidence
  <2> QED BY <2>4, <2>5, <2>8 DEF Linked, LinksShaped, Put
<1>3. CASE ~ (e.from # None /\ HasSignal(e) /\ SingleHop(e) /\ to \notin {None, e.from})
  BY <1>3 DEF trackLink, Linked, LinksShaped
<1> QED BY <1>2, <1>3

----------------------------------------------------------------------------
(* Our hardware model: once of the device's metadata, always of it.         *)
LEMMA DeviceLocal ==
  ASSUME NEW m, NEW e, DOMAIN m = MemFields, EventFact(e), IsLocal(e), OfDevice(m.local)
  PROVE  OfDevice(LocalConfig(m, e).local)
<1>1. LocalConfig(m, e).local = Over(e.body, m.local)
  BY KeptLocal
<1>2. CASE "hw_model" \in DOMAIN e.body
  <2>1. e.type = "METADATA"
    BY <1>2 DEF EventFact, IsLocal
  <2>2. e.body["hw_model"] \in DeviceModels
    BY <1>2, <2>1 DEF EventFact
  <2> QED BY <1>1, <1>2, <2>2 DEF OfDevice, Over
<1>3. CASE "hw_model" \notin DOMAIN e.body
  BY <1>1, <1>3 DEF OfDevice, Over
<1> QED BY <1>2, <1>3

LEMMA DeviceNodeInfo ==
  ASSUME NEW m, NEW e, DOMAIN m = MemFields, OfDevice(m.local)
  PROVE  OfDevice(NodeInfo(m, e).local)
<1>1. PICK h : h = Attributes(m, e)
  OBVIOUS
<1>2. DOMAIN h = MemFields /\ h.local = m.local
  BY <1>1, KeptAttributes DEF Kept, MemFields
<1> DEFINE names == Restrict(e.body, DOMAIN e.body \cap {"name"})
           other == Restrict(e.body, DOMAIN e.body \cap {"hw_model"})
<1>3. Mirror(h, e).local = Over(names, Over(m.local, other))
  BY <1>2 DEF Mirror, MemFields
<1>4. DOMAIN names \subseteq {"name"}
  BY DEF Restrict
<1> HIDE DEF names, other
<1>5. OfDevice(Mirror(h, e).local)
  BY <1>3, <1>4 DEF OfDevice, Over
<1> QED BY <1>1, <1>2, <1>5 DEF NodeInfo

LEMMA DeviceMyInfo ==
  ASSUME NEW m, NEW e, DOMAIN m = MemFields, EventFact(e), e.type = "MY_INFO", OfDevice(m.local)
  PROVE  OfDevice(MyInfo(m, e).local)
<1>1. MyInfo(m, e).local = Over(e.body, Over([id |-> e.from], m.local))
  BY DEF MyInfo, MemFields
<1>2. "hw_model" \notin DOMAIN e.body
  BY DEF EventFact
<1> QED BY <1>1, <1>2 DEF OfDevice, Over

----------------------------------------------------------------------------
(* What updateNode makes of a store.                                        *)
Updated(m, u, e) ==
  /\ Kept(m, u, {"my", "local", "nodes", "links", "traceroutes"})
  /\ u.my = m.my \/ u.my = Self
  /\ u.traceroutes = IF e.type = "TRACEROUTE"
                     THEN LastN(Append(m.traceroutes, e.at), MaxTraceroutes)
                     ELSE m.traceroutes
  /\ OfDevice(m.local) => OfDevice(u.local)
  /\ DOMAIN m.nodes \subseteq DOMAIN u.nodes
  /\ DOMAIN u.nodes \subseteq DOMAIN m.nodes \cup Nodes
  /\ e.from # None => e.from \in DOMAIN u.nodes /\ u.nodes[e.from].heard = e.at
  /\ NodesAged(m, u, e)
  /\ Linked(m, u, e)

LEMMA LinkedNot ==
  ASSUME NEW m, NEW u, NEW e, LinksShaped(m), u.links = m.links PROVE Linked(m, u, e)
BY DEF Linked, LinksShaped

LEMMA AgedSame ==
  ASSUME NEW m, NEW u, NEW e, Shaped(m), u.nodes = m.nodes PROVE NodesAged(m, u, e)
BY NodeIs, AgedNot DEF NodesAged, Node

LEMMA AgedThen ==
  ASSUME NEW m, NEW h, NEW u, NEW e, NodesAged(m, h, e), NodesAged(h, u, e)
  PROVE  NodesAged(m, u, e)
BY AgedTwice DEF NodesAged

LEMMA ShapedAged ==
  ASSUME NEW m, NEW u, NEW e, NodesAged(m, u, e), DOMAIN u = MemFields PROVE Shaped(u)
BY DEF Shaped, NodesAged, Aged, AgedRow, Node, At

LEMMA UpdatedIs ==
  ASSUME NEW m, NEW e, Shaped(m), LinksShaped(m), EventFact(e)
  PROVE  Updated(m, updateNode(m, e), e)
<1> DEFINE u == updateNode(m, e)
<1> SUFFICES Updated(m, u, e)
  OBVIOUS
<1>0. DOMAIN m = MemFields
  BY DEF Shaped
<1>1. CASE IsLocal(e)
  <2>1. u = LocalConfig(m, e) /\ e.from = None /\ e.type # "TRACEROUTE"
    BY <1>1 DEF updateNode, IsLocal, EventFact
  <2> HIDE DEF u
  <2>2. Kept(m, u, {"local"})
    BY <1>0, <2>1, KeptLocal
  <2>3. OfDevice(m.local) => OfDevice(u.local)
    BY <1>0, <1>1, <2>1, DeviceLocal
  <2>4. u.nodes = m.nodes /\ u.links = m.links /\ u.my = m.my /\ u.traceroutes = m.traceroutes
    BY <2>2 DEF Kept, MemFields
  <2> QED BY <2>1, <2>2, <2>3, <2>4, LinkedNot, AgedSame DEF Updated, Kept
<1>2. CASE ~ IsLocal(e) /\ e.from = None
  <2>1. u = m /\ e.type # "TRACEROUTE"
    BY <1>2 DEF updateNode, EventFact
  <2> HIDE DEF u
  <2> QED BY <1>0, <1>2, <2>1, LinkedNot, AgedSame DEF Updated, Kept
<1>3. CASE ~ IsLocal(e) /\ e.from # None
  <2>1. PICK h : h = Heard(m, e)
    OBVIOUS
  <2>2. Kept(m, h, {"nodes"})
    BY <1>0, <2>1, KeptHeard
  <2>3. /\ DOMAIN h.nodes = DOMAIN m.nodes \cup {e.from} /\ h.nodes[e.from].heard = e.at
        /\ NodesAged(m, h, e)
    BY <2>1, AgedHeard
  <2>4. DOMAIN h = MemFields /\ Shaped(h) /\ LinksShaped(h)
    BY <2>2, <2>3, ShapedAged DEF Kept, LinksShaped, MemFields
  <2>5. /\ h.links = m.links /\ h.my = m.my /\ h.traceroutes = m.traceroutes
        /\ h.local = m.local
    BY <2>2 DEF Kept, MemFields
  <2>6. e.from \in Nodes
    BY <1>3 DEF EventFact
  <2> DEFINE UpFrom(v) ==
        /\ Kept(h, v, {"my", "local", "nodes", "links", "traceroutes"})
        /\ v.my = h.my \/ v.my = Self
        /\ v.traceroutes = IF e.type = "TRACEROUTE"
                     THEN LastN(Append(h.traceroutes, e.at), MaxTraceroutes)
                     ELSE h.traceroutes
        /\ OfDevice(h.local) => OfDevice(v.local)
        /\ DOMAIN h.nodes \subseteq DOMAIN v.nodes
        /\ DOMAIN v.nodes \subseteq DOMAIN h.nodes \cup Nodes
        /\ NodesAged(h, v, e)
        /\ Linked(h, v, e)
  <2>7. UpFrom(u)
    <3>1. CASE e.type = "NODE_INFO"
      <4>1. u = NodeInfo(h, e)
        BY <1>3, <2>1, <3>1 DEF updateNode
      <4> HIDE DEF u
      <4>2. Kept(h, u, {"nodes", "local"})
        BY <2>4, <4>1, KeptNodeInfo
      <4>3. u.my = h.my /\ u.traceroutes = h.traceroutes /\ u.links = h.links
        BY <4>2 DEF Kept, MemFields
      <4>4. DOMAIN u.nodes = DOMAIN h.nodes /\ NodesAged(h, u, e)
        BY <2>3, <2>4, <4>1, AgedNodeInfo
      <4>5. OfDevice(h.local) => OfDevice(u.local)
        BY <2>4, <4>1, DeviceNodeInfo
      <4> QED BY <2>4, <3>1, <4>2, <4>3, <4>4, <4>5, LinkedNot DEF Kept
    <3>2. CASE e.type \in {"POSITION", "TELEMETRY"}
      <4>1. u = Attributes(h, e)
        BY <1>3, <2>1, <3>2 DEF updateNode
      <4> HIDE DEF u
      <4>2. Kept(h, u, {"nodes"})
        BY <2>4, <4>1, KeptAttributes
      <4>3. /\ u.my = h.my /\ u.traceroutes = h.traceroutes /\ u.links = h.links
            /\ u.local = h.local
        BY <4>2 DEF Kept, MemFields
      <4>4. DOMAIN u.nodes = DOMAIN h.nodes /\ NodesAged(h, u, e)
        BY <2>3, <2>4, <4>1, AgedAttributes
      <4> QED BY <2>4, <3>2, <4>2, <4>3, <4>4, LinkedNot DEF Kept
    <3>3. CASE e.type = "TRACEROUTE"
      <4>1. u = Traceroute(h, e)
        BY <1>3, <2>1, <3>3 DEF updateNode
      <4> HIDE DEF u
      <4>2. /\ Kept(h, u, {"traceroutes"})
            /\ u.traceroutes = LastN(Append(h.traceroutes, e.at), MaxTraceroutes)
        BY <2>4, <4>1, KeptTraceroute
      <4>3. u.my = h.my /\ u.nodes = h.nodes /\ u.links = h.links /\ u.local = h.local
        BY <4>2 DEF Kept, MemFields
      <4> QED BY <2>4, <3>3, <4>2, <4>3, LinkedNot, AgedSame DEF Kept
    <3>4. CASE e.type = "NEIGHBOR_INFO"
      <4>1. u = NeighborInfo(h, e)
        BY <1>3, <2>1, <3>4 DEF updateNode
      <4> HIDE DEF u
      <4>2. Kept(h, u, {"nodes", "links"})
        BY <2>4, <4>1, KeptNeighborInfo
      <4>3. u.my = h.my /\ u.traceroutes = h.traceroutes /\ u.local = h.local
        BY <4>2 DEF Kept, MemFields
      <4>4. DOMAIN u.nodes = DOMAIN h.nodes \cup {e.body.reporter} /\ NodesAged(h, u, e)
        BY <2>4, <3>4, <4>1, AgedNeighborInfo
      <4>5. e.body.reporter \in Nodes
        BY <3>4 DEF EventFact
      <4>6. Linked(h, u, e)
        BY <2>4, <3>4, <4>1, LinkedNeighborInfo
      <4> QED BY <3>4, <4>2, <4>3, <4>4, <4>5, <4>6 DEF Kept
    <3>5. CASE e.type = "MY_INFO"
      <4>1. u = MyInfo(h, e)
        BY <1>3, <2>1, <3>5 DEF updateNode
      <4> HIDE DEF u
      <4>2. Kept(h, u, {"my", "nodes", "local"}) /\ u.my = e.from
        BY <2>4, <4>1, KeptMyInfo
      <4>3. u.traceroutes = h.traceroutes /\ u.links = h.links /\ e.from = Self
        BY <3>5, <4>2 DEF Kept, MemFields, EventFact
      <4>4. DOMAIN u.nodes = DOMAIN h.nodes /\ NodesAged(h, u, e)
        BY <2>3, <2>4, <4>1, AgedMyInfo
      <4>5. OfDevice(h.local) => OfDevice(u.local)
        BY <2>4, <3>5, <4>1, DeviceMyInfo
      <4> QED BY <2>4, <3>5, <4>2, <4>3, <4>4, <4>5, LinkedNot DEF Kept
    <3>6. CASE e.type \notin {"NODE_INFO", "POSITION", "TELEMETRY", "TRACEROUTE",
                              "NEIGHBOR_INFO", "MY_INFO"}
      <4>1. u = h
        BY <1>3, <2>1, <3>6 DEF updateNode
      <4> HIDE DEF u
      <4> QED BY <2>4, <3>6, <4>1, LinkedNot, AgedSame DEF Kept
    <3> QED BY <3>1, <3>2, <3>3, <3>4, <3>5, <3>6
  <2> HIDE DEF u
  <2>8. Kept(m, u, {"my", "local", "nodes", "links", "traceroutes"})
    BY <2>2, <2>7 DEF Kept
  <2>9. Linked(m, u, e)
    BY <2>5, <2>7 DEF Linked
  <2>10. NodesAged(m, u, e)
    BY <2>3, <2>7, AgedThen
  <2>11. u.nodes[e.from].heard = e.at
    BY <2>3, <2>7 DEF NodesAged, Aged, AgedRow, Node, At
  <2> QED BY <2>3, <2>5, <2>6, <2>7, <2>8, <2>9, <2>10, <2>11 DEF Updated
<1> QED BY <1>1, <1>2, <1>3

----------------------------------------------------------------------------
(* How many events of a list a node sent of a type.                         *)
CountIn(s, n, t) == Cardinality({i \in DOMAIN s : s[i].from = n /\ s[i].type = t})

LEMMA CountNone == \A n, t : CountIn(<<>>, n, t) = 0
BY FS_EmptySet DEF CountIn

LEMMA CountNat ==
  ASSUME NEW s \in Seq(Events), NEW n, NEW t PROVE CountIn(s, n, t) \in Nat
<1>1. IsFiniteSet(1 .. Len(s))
  BY FS_Interval
<1>2. {i \in DOMAIN s : s[i].from = n /\ s[i].type = t} \subseteq 1 .. Len(s)
  OBVIOUS
<1> QED BY <1>1, <1>2, FS_Subset, FS_CardinalityType DEF CountIn

LEMMA CountAppend ==
  ASSUME NEW s \in Seq(Events), NEW e \in Events, NEW n, NEW t
  PROVE  CountIn(Append(s, e), n, t) =
           IF e.from = n /\ e.type = t THEN CountIn(s, n, t) + 1 ELSE CountIn(s, n, t)
<1> DEFINE from(q) == {i \in DOMAIN q : q[i].from = n /\ q[i].type = t}
<1>1. IsFiniteSet(from(s)) /\ Len(s) + 1 \notin from(s)
  <2>1. IsFiniteSet(1 .. Len(s))
    BY FS_Interval
  <2>2. from(s) \subseteq 1 .. Len(s)
    OBVIOUS
  <2> QED BY <2>1, <2>2, FS_Subset
<1>2. PICK q : q = Append(s, e)
  OBVIOUS
<1>3. /\ DOMAIN q = 1 .. Len(s) + 1 /\ DOMAIN s = 1 .. Len(s) /\ Len(s) \in Nat
      /\ \A i \in 1 .. Len(s) : q[i] = s[i]
      /\ q[Len(s) + 1] = e
  BY <1>2
<1>4. from(q) = IF e.from = n /\ e.type = t THEN from(s) \cup {Len(s) + 1} ELSE from(s)
  BY <1>3
<1> HIDE DEF from
<1>5. Cardinality(from(s) \cup {Len(s) + 1}) = Cardinality(from(s)) + 1
  BY <1>1, FS_AddElement
<1>6. Cardinality(from(q)) =
        IF e.from = n /\ e.type = t THEN Cardinality(from(s)) + 1 ELSE Cardinality(from(s))
  BY <1>4, <1>5
<1> QED BY <1>2, <1>6 DEF CountIn, from

(* How many of a list are not among its newest n.                           *)
Skip(s, n) == IF Len(s) > n THEN Len(s) - n ELSE 0

LEMMA LastNIs ==
  ASSUME NEW S, NEW s \in Seq(S), NEW n \in Nat \ {0}
  PROVE  /\ LastN(s, n) \in Seq(S)
         /\ Skip(s, n) \in 0 .. Len(s) /\ (s # <<>> => Skip(s, n) < Len(s))
         /\ Len(LastN(s, n)) = Len(s) - Skip(s, n)
         /\ \A i \in 1 .. Len(s) - Skip(s, n) : LastN(s, n)[i] = s[i + Skip(s, n)]
<1>1. PICK l \in Nat : l = Len(s)
  OBVIOUS
<1>2. PICK d : d = Skip(s, n)
  OBVIOUS
<1>3. d \in 0 .. l /\ d + 1 \in 1 .. l + 1 /\ (l # 0 => d < l)
  BY <1>1, <1>2 DEF Skip
<1>4. LastN(s, n) = SubSeq(s, d + 1, l)
  <2>1. (IF Len(s) > n THEN Len(s) - n + 1 ELSE 1) = d + 1
    BY <1>1, <1>2 DEF Skip
  <2> QED BY <1>1, <2>1 DEF LastN
<1>5. SubSeq(s, d + 1, l) \in Seq(S) /\ Len(SubSeq(s, d + 1, l)) = l - d
  BY <1>1, <1>3
<1>6. \A i \in 1 .. l - d : SubSeq(s, d + 1, l)[i] = s[i + d]
  BY <1>1, <1>3
<1>7. s # <<>> => l # 0
  BY <1>1
<1> QED BY <1>1, <1>2, <1>3, <1>4, <1>5, <1>6, <1>7

(* A ring that took one more holds the newest of all that came.             *)
LEMMA LastNAppend ==
  ASSUME NEW S, NEW s \in Seq(S), NEW e \in S, NEW n \in Nat \ {0}
  PROVE  LastN(Append(LastN(s, n), e), n) = LastN(Append(s, e), n)
<1>1. PICK l, d : l = LastN(s, n) /\ d = Skip(s, n)
  OBVIOUS
<1>2. /\ l \in Seq(S) /\ d \in 0 .. Len(s) /\ Len(l) = Len(s) - d
      /\ \A i \in 1 .. Len(s) - d : l[i] = s[i + d]
  BY <1>1, LastNIs
<1>3. PICK q, p : q = Append(l, e) /\ p = Append(s, e)
  OBVIOUS
<1>4. /\ q \in Seq(S) /\ Len(q) = Len(l) + 1 /\ q[Len(l) + 1] = e
      /\ \A i \in 1 .. Len(l) : q[i] = l[i]
  BY <1>2, <1>3
<1>5. /\ p \in Seq(S) /\ Len(p) = Len(s) + 1 /\ p[Len(s) + 1] = e
      /\ \A i \in 1 .. Len(s) : p[i] = s[i]
  BY <1>3
<1>6. PICK k, j \in Nat : k = Len(s) /\ j = Len(l)
  BY <1>2
<1>7. /\ d \in 0 .. k /\ j = k - d /\ Len(q) = j + 1 /\ Len(p) = k + 1
  BY <1>2, <1>4, <1>5, <1>6
<1>8. ASSUME NEW i \in 1 .. j + 1 PROVE q[i] = p[i + d]
  <2>1. CASE i = j + 1
    <3>1. i + d = k + 1
      BY <1>7, <2>1
    <3> QED BY <1>4, <1>5, <1>6, <2>1, <3>1
  <2>2. CASE i # j + 1
    <3>1. i \in 1 .. j /\ i + d \in 1 .. k /\ i \in 1 .. k - d
      BY <1>7, <2>2
    <3> QED BY <1>2, <1>4, <1>5, <1>6, <3>1
  <2> QED BY <2>1, <2>2
<1>9. PICK x, y, a, b : x = LastN(q, n) /\ y = LastN(p, n) /\ a = Skip(q, n) /\ b = Skip(p, n)
  OBVIOUS
<1>10. /\ x \in Seq(S) /\ a \in 0 .. j + 1 /\ Len(x) = (j + 1) - a
       /\ \A i \in 1 .. (j + 1) - a : x[i] = q[i + a]
  <2>1. q \in Seq(S)
    BY <1>4
  <2>2. /\ x \in Seq(S) /\ a \in 0 .. Len(q) /\ Len(x) = Len(q) - a
        /\ \A i \in 1 .. Len(q) - a : x[i] = q[i + a]
    BY <1>9, <2>1, LastNIs
  <2> QED BY <1>7, <2>2
<1>11. /\ y \in Seq(S) /\ b \in 0 .. k + 1 /\ Len(y) = (k + 1) - b
       /\ \A i \in 1 .. (k + 1) - b : y[i] = p[i + b]
  BY <1>5, <1>7, <1>9, LastNIs
<1>12. b = a + d
  <2>1. d = IF k > n THEN k - n ELSE 0
    BY <1>1, <1>6 DEF Skip
  <2>2. a = IF j + 1 > n THEN j + 1 - n ELSE 0
    BY <1>7, <1>9 DEF Skip
  <2>3. b = IF k + 1 > n THEN k + 1 - n ELSE 0
    BY <1>7, <1>9 DEF Skip
  <2> QED BY <1>7, <2>1, <2>2, <2>3
<1>13. PICK z \in Nat : z = (j + 1) - a
  BY <1>10
<1>14. Len(x) = z /\ Len(y) = z
  BY <1>7, <1>10, <1>11, <1>12, <1>13
<1>15. ASSUME NEW i \in 1 .. z PROVE x[i] = y[i]
  <2>1. i + a \in 1 .. j + 1 /\ (i + a) + d = i + b /\ i \in 1 .. (k + 1) - b
    BY <1>7, <1>10, <1>11, <1>12, <1>13
  <2>2. x[i] = q[i + a] /\ y[i] = p[i + b]
    BY <1>10, <1>11, <1>13, <2>1
  <2>3. q[i + a] = p[(i + a) + d]
    BY <1>8, <2>1
  <2> QED BY <2>1, <2>2, <2>3
<1>16. x = y
  BY <1>10, <1>11, <1>14, <1>15
<1> QED BY <1>1, <1>3, <1>9, <1>16

LEMMA LastNone == LastN(<<>>, RingSize) = <<>>
<1>1. RingSize \in Nat \ {0}
  BY TableAssumption
<1>2. Len(<<>>) = 0
  OBVIOUS
<1> QED BY <1>1, <1>2 DEF LastN

(* What the start reads of a table is of the table.                         *)
LEMMA RecentIs ==
  ASSUME NEW s \in Seq(Events)
  PROVE  /\ LoadRecentEvents(s) \in Seq(Events)
         /\ \A i \in DOMAIN LoadRecentEvents(s) : \E j \in DOMAIN s : LoadRecentEvents(s)[i] = s[j]
<1>1. PICK l, d : l = LoadRecentEvents(s) /\ d = Skip(s, RingSize)
  OBVIOUS
<1>2. /\ l \in Seq(Events) /\ d \in 0 .. Len(s) /\ Len(l) = Len(s) - d
      /\ \A i \in 1 .. Len(s) - d : l[i] = s[i + d]
  BY <1>1, LastNIs, TableAssumption DEF LoadRecentEvents
<1>3. ASSUME NEW i \in DOMAIN l PROVE \E j \in DOMAIN s : l[i] = s[j]
  <2>1. i \in 1 .. Len(s) - d /\ i + d \in DOMAIN s
    BY <1>2
  <2> QED BY <1>2, <2>1
<1> QED BY <1>1, <1>2, <1>3

(* A counted packet.                                                        *)
Tallied(b, a, e, n) ==
  /\ DOMAIN a = NodeFields
  /\ \A f \in RowFields : a[f] = b[f]
  /\ n # e.from => a.byType = b.byType
  /\ n = e.from => a.byType = [b.byType EXCEPT ![e.type] = @ + 1]

LEMMA TalliedCount ==
  ASSUME NEW m, NEW e, Shaped(m)
  PROVE  /\ DOMAIN countNode(m, e).nodes = DOMAIN m.nodes
         /\ \A n \in DOMAIN m.nodes : Tallied(m.nodes[n], countNode(m, e).nodes[n], e, n)
<1>1. CASE e.from \in DOMAIN m.nodes
  <2> DEFINE b == m.nodes[e.from]
             hops == IF e.start > 7 THEN b.hops ELSE Put(b.hops, e.start, At(b.hops, e.start, 0) + 1)
             a == [b EXCEPT !.byType[e.type] = @ + 1, !.hops = hops]
  <2>1. DOMAIN b = NodeFields
    BY <1>1 DEF Shaped
  <2>2. countNode(m, e).nodes = [m.nodes EXCEPT ![e.from] = a]
    BY <1>1, <2>1 DEF countNode, Shaped, MemFields, NodeFields, RowFields
  <2> HIDE DEF b, hops
  <2>3. Tallied(b, a, e, e.from)
    BY <2>1 DEF Tallied, NodeFields, RowFields
  <2> HIDE DEF a
  <2> QED BY <1>1, <2>2, <2>3 DEF Tallied, Shaped, b
<1>2. CASE e.from \notin DOMAIN m.nodes
  BY <1>2 DEF countNode, Tallied, Shaped
<1> QED BY <1>1, <1>2

----------------------------------------------------------------------------
(* A whole Add, and a whole turn of the replay.                             *)
Added(m, u, e) ==
  /\ DOMAIN u = MemFields
  /\ u.my = m.my \/ u.my = Self
  /\ u.traceroutes = IF e.type = "TRACEROUTE"
                     THEN LastN(Append(m.traceroutes, e.at), MaxTraceroutes)
                     ELSE m.traceroutes
  /\ OfDevice(m.local) => OfDevice(u.local)
  /\ u.log = Append(m.log, e) /\ u.events = LastN(Append(m.events, e), RingSize)
  /\ DOMAIN m.nodes \subseteq DOMAIN u.nodes
  /\ DOMAIN u.nodes \subseteq DOMAIN m.nodes \cup Nodes
  /\ e.from # None => e.from \in DOMAIN u.nodes /\ u.nodes[e.from].heard = e.at
  /\ \A n \in DOMAIN u.nodes : AgedRow(Node(m, n), u.nodes[n], e, n)
  /\ \A n \in DOMAIN u.nodes :
       u.nodes[n].byType = IF n = e.from THEN [Node(m, n).byType EXCEPT ![e.type] = @ + 1]
                           ELSE Node(m, n).byType
  /\ Linked(m, u, e)

Replayed(m, u, e) ==
  /\ DOMAIN u = MemFields
  /\ u.my = m.my \/ u.my = Self
  /\ u.traceroutes = m.traceroutes
  /\ u.log = Append(m.log, e) /\ u.events = LastN(Append(m.events, e), RingSize)
  /\ DOMAIN u.nodes = DOMAIN m.nodes
  /\ \A n \in DOMAIN m.nodes : Tallied(m.nodes[n], u.nodes[n], e, n)
  /\ Linked(m, u, e)

LEMMA LinkedThen ==
  ASSUME NEW m, NEW h, NEW u, NEW e, Linked(m, h, e), Linked(h, u, e)
  PROVE  Linked(m, u, e)
BY DEF Linked

LEMMA LinkedShaped ==
  ASSUME NEW m, NEW u, NEW e, Linked(m, u, e) PROVE LinksShaped(u)
BY DEF Linked, LinksShaped

LEMMA AddedIs ==
  ASSUME NEW m, NEW e, Shaped(m), LinksShaped(m), m.my \in {None, Self}, EventFact(e)
  PROVE  Added(m, AddEvent(m, e), e)
<1>1. PICK a : a = classify(m, e)
  OBVIOUS
<1>2. PICK r : r = Ring(a, e)
  OBVIOUS
<1>3. PICK h : h = updateNode(r, e)
  OBVIOUS
<1>4. PICK l : l = trackLink(h, e)
  OBVIOUS
<1>5. PICK p : p = trackPair(l, e)
  OBVIOUS
<1>6. PICK c : c = countNode(p, e)
  OBVIOUS
<1>7. PICK u : u = trackDX(c, e)
  OBVIOUS
<1>8. AddEvent(m, e) = u
  BY <1>1, <1>2, <1>3, <1>4, <1>5, <1>6, <1>7 DEF AddEvent
<1>9. Kept(m, a, {"classes"})
  BY <1>1, KeptClassify DEF Shaped
<1>10. /\ Kept(a, r, {"events", "log", "byType"}) /\ r.log = Append(a.log, e)
       /\ r.events = LastN(Append(a.events, e), RingSize)
  BY <1>2, <1>9, KeptRing DEF Kept
<1>11. /\ r.my = m.my /\ r.traceroutes = m.traceroutes /\ r.local = m.local
       /\ r.nodes = m.nodes /\ r.links = m.links /\ r.log = Append(m.log, e)
       /\ r.events = LastN(Append(m.events, e), RingSize)
       /\ DOMAIN r = MemFields
  BY <1>9, <1>10 DEF Kept, MemFields
<1>12. Shaped(r) /\ LinksShaped(r)
  BY <1>11 DEF Shaped, LinksShaped
<1>13. Updated(r, h, e)
  BY <1>3, <1>12, UpdatedIs
<1>14. DOMAIN h = MemFields /\ h.my \in {None, Self} /\ h.log = r.log /\ h.events = r.events
  BY <1>11, <1>13 DEF Updated, Kept, MemFields
<1>15. Shaped(h) /\ LinksShaped(h)
  BY <1>13, <1>14, ShapedAged, LinkedShaped DEF Updated
<1>16. Kept(h, l, {"links"}) /\ Linked(h, l, e)
  BY <1>4, <1>14, <1>15, KeptLink, LinkedTrack
<1>17. Kept(l, p, {"pairs"})
  BY <1>5, <1>16, KeptPair DEF Kept
<1>18. DOMAIN p = MemFields /\ p.nodes = h.nodes /\ Shaped(p)
  BY <1>15, <1>16, <1>17 DEF Kept, MemFields, Shaped
<1>19. /\ Kept(p, c, {"nodes"}) /\ DOMAIN c.nodes = DOMAIN h.nodes
       /\ \A n \in DOMAIN h.nodes : Tallied(h.nodes[n], c.nodes[n], e, n)
  BY <1>6, <1>18, KeptCount, TalliedCount
<1>20. Kept(c, u, {"dx"})
  BY <1>7, <1>19, KeptDX DEF Kept
<1>21. /\ DOMAIN u = MemFields /\ u.my = h.my /\ u.traceroutes = h.traceroutes
       /\ u.local = h.local /\ u.log = h.log /\ u.events = h.events /\ u.nodes = c.nodes /\ u.links = l.links
  BY <1>16, <1>17, <1>19, <1>20 DEF Kept, MemFields
<1>22. Linked(m, u, e)
  <2>1. Linked(r, l, e)
    BY <1>13, <1>16, LinkedThen DEF Updated
  <2> QED BY <1>11, <1>21, <2>1 DEF Linked
<1>23. ASSUME NEW n \in DOMAIN u.nodes
       PROVE  /\ AgedRow(Node(m, n), u.nodes[n], e, n)
              /\ u.nodes[n].byType = IF n = e.from
                                     THEN [Node(m, n).byType EXCEPT ![e.type] = @ + 1]
                                     ELSE Node(m, n).byType
  <2>1. n \in DOMAIN h.nodes /\ Node(h, n) = h.nodes[n] /\ Node(r, n) = Node(m, n)
    BY <1>11, <1>19, <1>21 DEF Node, At
  <2>2. Aged(Node(m, n), h.nodes[n], e, n)
    BY <1>13, <2>1 DEF Updated, NodesAged
  <2>3. Tallied(h.nodes[n], u.nodes[n], e, n)
    BY <1>19, <1>21, <2>1
  <2>4. AgedRow(Node(m, n), u.nodes[n], e, n)
    BY <2>2, <2>3 DEF Aged, AgedRow, Tallied, RowFields
  <2> QED BY <2>2, <2>3, <2>4 DEF Aged, Tallied
<1>24. /\ u.my = m.my \/ u.my = Self
       /\ OfDevice(m.local) => OfDevice(u.local)
       /\ u.log = Append(m.log, e) /\ u.events = LastN(Append(m.events, e), RingSize)
       /\ DOMAIN m.nodes \subseteq DOMAIN u.nodes
       /\ DOMAIN u.nodes \subseteq DOMAIN m.nodes \cup Nodes
  BY <1>11, <1>13, <1>14, <1>19, <1>21 DEF Updated
<1>26. ASSUME e.from # None PROVE e.from \in DOMAIN u.nodes /\ u.nodes[e.from].heard = e.at
  <2>1. e.from \in DOMAIN h.nodes /\ h.nodes[e.from].heard = e.at
    BY <1>13, <1>26 DEF Updated
  <2>2. Tallied(h.nodes[e.from], c.nodes[e.from], e, e.from)
    BY <1>19, <2>1
  <2> QED BY <1>19, <1>21, <2>1, <2>2 DEF Tallied, RowFields
<1>25. u.traceroutes = IF e.type = "TRACEROUTE"
                       THEN LastN(Append(m.traceroutes, e.at), MaxTraceroutes)
                       ELSE m.traceroutes
  BY <1>11, <1>13, <1>21 DEF Updated
<1> QED BY <1>8, <1>21, <1>22, <1>23, <1>24, <1>25, <1>26 DEF Added

LEMMA ReplayedIs ==
  ASSUME NEW m, NEW e, Shaped(m), LinksShaped(m), m.my \in {None, Self}, EventFact(e)
  PROVE  Replayed(m, Replay(m, e), e)
<1>1. PICK r : r = Ring(m, e)
  OBVIOUS
<1>2. PICK o : o = [r EXCEPT !.my = IF e.type = "MY_INFO" /\ e.from # None THEN e.from ELSE @]
  OBVIOUS
<1>3. PICK l : l = trackLink(o, e)
  OBVIOUS
<1>4. PICK c : c = countNode(l, e)
  OBVIOUS
<1>5. PICK u : u = trackDX(c, e)
  OBVIOUS
<1>6. Replay(m, e) = u
  BY <1>1, <1>2, <1>3, <1>4, <1>5 DEF Replay
<1>7. /\ Kept(m, r, {"events", "log", "byType"}) /\ r.log = Append(m.log, e)
      /\ r.events = LastN(Append(m.events, e), RingSize)
  BY <1>1, KeptRing DEF Shaped
<1>8. /\ DOMAIN o = MemFields /\ (o.my = m.my \/ o.my = Self)
      /\ o.traceroutes = m.traceroutes /\ o.nodes = m.nodes /\ o.links = m.links
      /\ o.log = Append(m.log, e) /\ o.events = LastN(Append(m.events, e), RingSize)
  BY <1>2, <1>7 DEF Kept, MemFields, EventFact
<1>9. Shaped(o) /\ LinksShaped(o) /\ o.my \in {None, Self}
  BY <1>2, <1>7, <1>8 DEF Shaped, LinksShaped, Kept, MemFields
<1>10. Kept(o, l, {"links"}) /\ Linked(o, l, e)
  BY <1>3, <1>8, <1>9, KeptLink, LinkedTrack DEF Shaped
<1>11. DOMAIN l = MemFields /\ l.nodes = m.nodes /\ Shaped(l)
  BY <1>8, <1>9, <1>10 DEF Kept, MemFields, Shaped
<1>12. /\ Kept(l, c, {"nodes"}) /\ DOMAIN c.nodes = DOMAIN m.nodes
       /\ \A n \in DOMAIN m.nodes : Tallied(m.nodes[n], c.nodes[n], e, n)
  BY <1>4, <1>11, KeptCount, TalliedCount
<1>13. Kept(c, u, {"dx"})
  BY <1>5, <1>12, KeptDX DEF Kept
<1>14. /\ DOMAIN u = MemFields /\ u.my = o.my /\ u.traceroutes = m.traceroutes
       /\ u.log = Append(m.log, e) /\ u.events = LastN(Append(m.events, e), RingSize)
       /\ u.nodes = c.nodes /\ u.links = l.links
  BY <1>8, <1>10, <1>12, <1>13 DEF Kept, MemFields
<1>15. Linked(m, u, e)
  BY <1>8, <1>10, <1>14 DEF Linked
<1>16. u.my = m.my \/ u.my = Self
  BY <1>8, <1>14
<1> QED BY <1>6, <1>12, <1>14, <1>15, <1>16 DEF Replayed

----------------------------------------------------------------------------
(* The replay of a whole table: a recursive function, which exists, and     *)
(* what every turn of it keeps.                                             *)
LEMMA LeastElement ==
  ASSUME NEW S, S \subseteq Nat, S # {}
  PROVE  \E x \in S : \A y \in S : x <= y
<1> DEFINE R == {p \in Nat \X Nat : p[1] < p[2]}
<1>1. IsWellFoundedOn(R, Nat)
  BY NatLessThanWellFounded DEF OpToRel
<1>2. \A x, y \in Nat : <<y, x>> \in R <=> y < x
  OBVIOUS
<1> HIDE DEF R
<1>3. PICK x \in S : \A y \in S : ~ (<<y, x>> \in R)
  BY <1>1, WFMin
<1>4. ASSUME NEW y \in S PROVE x <= y
  <2>1. x \in Nat /\ y \in Nat
    OBVIOUS
  <2>2. ~ (y < x)
    BY <1>2, <1>3, <2>1
  <2> QED BY <2>1, <2>2
<1> QED BY <1>4

(* A set that holds 0 and, up to b, the successor of what it holds.         *)
LEMMA UpTo ==
  ASSUME NEW b \in Nat, NEW S, 0 \in S, \A i \in 0 .. b - 1 : i \in S => i + 1 \in S
  PROVE  0 .. b \subseteq S
<1> DEFINE out == {i \in 0 .. b : i \notin S}
<1> SUFFICES ASSUME out # {} PROVE FALSE
  OBVIOUS
<1>1. out \subseteq Nat
  OBVIOUS
<1> HIDE DEF out
<1>2. PICK i \in out : \A j \in out : i <= j
  BY <1>1, LeastElement
<1>3. i \in 0 .. b /\ i \notin S /\ i # 0
  BY DEF out
<1>4. i - 1 \in 0 .. b - 1 /\ i - 1 \in 0 .. b /\ ~ (i <= i - 1) /\ (i - 1) + 1 = i
  BY <1>3
<1>5. i - 1 \notin out
  BY <1>2, <1>4
<1>6. i - 1 \in S
  BY <1>4, <1>5 DEF out
<1> QED BY <1>3, <1>4, <1>6

Turns(f, m, table, k) ==
  f = [i \in 0 .. k |-> IF i = 0 THEN m ELSE Replay(f[i - 1], table[i])]

LEMMA TurnsExist ==
  ASSUME NEW m, NEW table, NEW b \in Nat PROVE \E f : Turns(f, m, table, b)
<1> DEFINE S == {k \in 0 .. b : \E f : Turns(f, m, table, k)}
<1>1. 0 \in S
  <2>1. PICK f : f = [i \in 0 .. 0 |-> m]
    OBVIOUS
  <2>2. \A i \in 0 .. 0 : i = 0
    OBVIOUS
  <2>3. Turns(f, m, table, 0)
    BY <2>1, <2>2 DEF Turns
  <2> QED BY <2>3
<1>2. ASSUME NEW k \in 0 .. b - 1, k \in S PROVE k + 1 \in S
  <2>1. PICK f : Turns(f, m, table, k)
    BY <1>2
  <2>2. PICK g : g = [i \in 0 .. k + 1 |-> IF i = k + 1 THEN Replay(f[k], table[k + 1]) ELSE f[i]]
    OBVIOUS
  <2>3. ASSUME NEW i \in 0 .. k + 1
        PROVE  g[i] = IF i = 0 THEN m ELSE Replay(g[i - 1], table[i])
    <3>1. CASE i = k + 1
      <4>1. k \in 0 .. k + 1 /\ k # k + 1 /\ i - 1 = k /\ i # 0
        BY <3>1
      <4>2. g[k] = f[k] /\ g[i] = Replay(f[k], table[k + 1])
        BY <2>2, <3>1, <4>1
      <4> QED BY <3>1, <4>1, <4>2
    <3>2. CASE i = 0
      <4>1. 0 # k + 1 /\ 0 \in 0 .. k /\ 0 \in 0 .. k + 1
        OBVIOUS
      <4>2. g[0] = f[0]
        BY <2>2, <4>1
      <4>3. f[0] = m
        BY <2>1, <4>1 DEF Turns
      <4> QED BY <3>2, <4>2, <4>3
    <3>3. CASE i # 0 /\ i # k + 1
      <4>1. i \in 0 .. k /\ i - 1 \in 0 .. k + 1 /\ i - 1 # k + 1
        BY <3>3
      <4>2. g[i] = f[i] /\ g[i - 1] = f[i - 1]
        BY <2>2, <3>3, <4>1
      <4>3. f[i] = Replay(f[i - 1], table[i])
        BY <2>1, <3>3, <4>1 DEF Turns
      <4> QED BY <3>3, <4>2, <4>3
    <3> QED BY <3>1, <3>2, <3>3
  <2>4. Turns(g, m, table, k + 1)
    BY <2>2, <2>3 DEF Turns
  <2>5. k + 1 \in 0 .. b
    OBVIOUS
  <2> QED BY <2>4, <2>5
<1> HIDE DEF S
<1>3. 0 .. b \subseteq S
  BY <1>1, <1>2, UpTo
<1>4. b \in S
  BY <1>3
<1> QED BY <1>4 DEF S

LEMMA LoadIs ==
  ASSUME NEW m, NEW table, Len(table) \in Nat
  PROVE  \E f : Turns(f, m, table, Len(table)) /\ LoadEvents(m, table) = f[Len(table)]
<1> DEFINE after == CHOOSE f : Turns(f, m, table, Len(table))
<1>1. Turns(after, m, table, Len(table))
  BY TurnsExist
<1>2. LoadEvents(m, table) = after[Len(table)]
  BY DEF LoadEvents, Turns
<1> QED BY <1>1, <1>2

----------------------------------------------------------------------------
(* The inductive invariant, part by part: t is the time, obs what was       *)
(* observed.                                                                *)
NodeOK(n, r, t, obs) ==
  /\ r.heard \in Nat /\ r.heard < t
  /\ r.neighborsAt \in Nat /\ r.neighborsAt < t
  /\ \A p \in DOMAIN r.neighbors : r.neighborsAt # 0 /\
       [ends |-> {n, p}, snr |-> r.neighbors[p], at |-> r.neighborsAt] \in obs

LinksOK(m, obs) ==
  \A k \in DOMAIN m.links : DOMAIN m.links[k] = LinkFields /\ Told(k, m.links[k]) \in obs

MemOK(m, t, obs) ==
  /\ DOMAIN m = MemFields
  /\ m.my \in {None, Self}
  /\ DOMAIN m.nodes \subseteq Nodes
  /\ \A n \in DOMAIN m.nodes : DOMAIN m.nodes[n] = NodeFields /\ NodeOK(n, m.nodes[n], t, obs)
  /\ LinksOK(m, obs)

RowsOK(table, t, obs) ==
  /\ DOMAIN table \subseteq Nodes
  /\ \A n \in DOMAIN table :
       /\ DOMAIN table[n] = RowFields
       /\ NodeOK(n, table[n], t, obs)
       /\ table[n].heard > 0

(* RowsAreFaithful, of a store and a table.                                 *)
Faithful(m, table) ==
  \A n \in DOMAIN m.nodes \cap DOMAIN table :
    table[n].heard = m.nodes[n].heard /\ table[n].neighborsAt = m.nodes[n].neighborsAt
    => \A f \in RowFields : table[n][f] = m.nodes[n][f]

(* What a row knows of a node that is no gap, the memory knows.             *)
Remembered(m, table, g) ==
  \A n \in DOMAIN table \ g :
    n \in DOMAIN m.nodes /\ DOMAIN table[n].attrs \subseteq DOMAIN m.nodes[n].attrs

(* CountsMatchLog, of a store and its gaps.                                 *)
CountOK(m, g) ==
  /\ m.log \in Seq(Events) /\ m.events = LastN(m.log, RingSize)
  /\ \A n \in DOMAIN m.nodes : m.nodes[n].byType \in [Types -> Nat]
  /\ \A n \in Nodes, t \in Types :
       /\ n \in DOMAIN m.nodes => m.nodes[n].byType[t] <= CountIn(m.log, n, t)
       /\ n \in DOMAIN m.nodes /\ n \notin g => m.nodes[n].byType[t] = CountIn(m.log, n, t)
       /\ n \notin DOMAIN m.nodes /\ n \notin g => CountIn(m.log, n, t) = 0

(* TraceroutesAreNewest, of what is held and what is stored, both in the    *)
(* past.                                                                    *)
Rising(s, t) ==
  /\ s \in Seq(Nat)
  /\ \A i \in 1 .. Len(s) : s[i] < t
  /\ \A i, j \in 1 .. Len(s) : i < j => s[i] < s[j]

Covers(held, routes) ==
  \A i \in 1 .. Len(held), j \in 1 .. Len(routes) :
    held[i] <= routes[j] => \E k \in 1 .. Len(held) : held[k] = routes[j]

RouteOK(held, routes, t) == Rising(held, t) /\ Rising(routes, t) /\ Covers(held, routes)

EventsOK(s, obs) == s \in Seq(Events) /\ \A i \in 1 .. Len(s) : Evidence(s[i]) \subseteq obs

(* What is still to be written came from the memory as it is.               *)
Writes == [write : {"event", "node", "route"}, e : Events]

TodoOK ==
  /\ todo \in Seq(Writes)
  /\ \A i \in 1 .. Len(todo) :
       /\ todo[i].write = "event" => Evidence(todo[i].e) \subseteq observed
       /\ todo[i].write = "node" =>
            /\ todo[i].e.from \in DOMAIN mem.nodes
            /\ mem.nodes[todo[i].e.from].heard > 0
       /\ todo[i].write = "route" =>
            /\ i = Len(todo)
            /\ todo[i].e.at < now
            /\ \A j \in 1 .. Len(routeRows) : routeRows[j] < todo[i].e.at
            /\ \E k \in 1 .. Len(mem.traceroutes) : mem.traceroutes[k] = todo[i].e.at

ClockOK == now \in Nat \ {0} /\ restarts \in Nat

Inv ==
  /\ ClockOK
  /\ MemOK(mem, now, observed)
  /\ RowsOK(nodeRows, now, observed)
  /\ Faithful(mem, nodeRows)
  /\ Remembered(mem, nodeRows, gaps)
  /\ CountOK(mem, gaps)
  /\ RouteOK(mem.traceroutes, routeRows, now)
  /\ EventsOK(eventRows, observed)
  /\ TodoOK

----------------------------------------------------------------------------
(* A packet of time t grows the memory, however much of Add it goes         *)
(* through.                                                                 *)
Grown(m, u, e) ==
  /\ DOMAIN u = MemFields
  /\ u.my = m.my \/ u.my = Self
  /\ DOMAIN m.nodes \subseteq DOMAIN u.nodes
  /\ DOMAIN u.nodes \subseteq DOMAIN m.nodes \cup Nodes
  /\ \A n \in DOMAIN u.nodes : AgedRow(Node(m, n), u.nodes[n], e, n)
  /\ Linked(m, u, e)

LEMMA UpdatedGrown ==
  ASSUME NEW m, NEW u, NEW e, Updated(m, u, e) PROVE Grown(m, u, e)
BY DEF Updated, Grown, Kept, NodesAged, Aged, Node, At

LEMMA AddedGrown ==
  ASSUME NEW m, NEW u, NEW e, Added(m, u, e) PROVE Grown(m, u, e)
BY DEF Added, Grown

LEMMA GrownMem ==
  ASSUME NEW m, NEW u, NEW e, NEW t \in Nat \ {0}, NEW obs,
         MemOK(m, t, obs), Grown(m, u, e), EventFact(e), e.at = t
  PROVE  MemOK(u, t + 1, obs \cup Evidence(e))
<1>1. ASSUME NEW n \in DOMAIN u.nodes
      PROVE  DOMAIN u.nodes[n] = NodeFields /\ NodeOK(n, u.nodes[n], t + 1, obs \cup Evidence(e))
  <2>1. PICK b : b = Node(m, n)
    OBVIOUS
  <2>2. PICK a : a = u.nodes[n]
    OBVIOUS
  <2>3. AgedRow(b, a, e, n)
    BY <2>1, <2>2 DEF Grown
  <2>4. NodeOK(n, b, t, obs)
    <3>1. CASE n \in DOMAIN m.nodes
      BY <2>1, <3>1 DEF MemOK, Node, At
    <3>2. CASE n \notin DOMAIN m.nodes
      <4>1. b = NewNode
        BY <2>1, <3>2 DEF Node, At
      <4>2. b.heard = 0 /\ b.neighborsAt = 0 /\ b.neighbors = <<>>
        BY <4>1 DEF NewNode
      <4>3. DOMAIN b.neighbors = {}
        BY <4>2
      <4> QED BY <4>2, <4>3 DEF NodeOK
    <3> QED BY <3>1, <3>2
  <2>5. a.heard \in Nat /\ a.heard < t + 1
    BY <2>3, <2>4 DEF AgedRow, NodeOK
  <2>6. CASE a.neighbors = b.neighbors /\ a.neighborsAt = b.neighborsAt
    BY <2>2, <2>3, <2>4, <2>5, <2>6 DEF AgedRow, NodeOK
  <2>7. CASE ~ (a.neighbors = b.neighbors /\ a.neighborsAt = b.neighborsAt)
    <3>1. /\ e.type = "NEIGHBOR_INFO" /\ n = e.body.reporter
          /\ a.neighbors = e.body.neighbors /\ a.neighborsAt = e.at
      BY <2>3, <2>7 DEF AgedRow
    <3>2. \A p \in DOMAIN a.neighbors : a.neighborsAt # 0 /\
            [ends |-> {n, p}, snr |-> a.neighbors[p], at |-> a.neighborsAt] \in Evidence(e)
      BY <3>1 DEF Evidence
    <3>3. a.neighborsAt \in Nat /\ a.neighborsAt < t + 1
      BY <3>1
    <3>4. NodeOK(n, a, t + 1, obs \cup Evidence(e))
      BY <2>5, <3>2, <3>3 DEF NodeOK
    <3> QED BY <2>2, <2>3, <3>4 DEF AgedRow
  <2> QED BY <2>6, <2>7
<1>2. LinksOK(u, obs \cup Evidence(e))
  BY DEF Grown, Linked, MemOK, LinksOK
<1> QED BY <1>1, <1>2 DEF MemOK, Grown

(* A node the packet changed is younger than its row.                       *)
LEMMA GrownFaithful ==
  ASSUME NEW m, NEW u, NEW e, NEW t \in Nat \ {0}, NEW obs, NEW table,
         Grown(m, u, e), e.at = t, RowsOK(table, t, obs), Faithful(m, table)
  PROVE  Faithful(u, table)
<1> SUFFICES ASSUME NEW n \in DOMAIN u.nodes \cap DOMAIN table,
                    table[n].heard = u.nodes[n].heard,
                    table[n].neighborsAt = u.nodes[n].neighborsAt
             PROVE  \A f \in RowFields : table[n][f] = u.nodes[n][f]
  BY DEF Faithful
<1>1. AgedRow(Node(m, n), u.nodes[n], e, n)
  BY DEF Grown
<1>2. u.nodes[n].heard # e.at /\ u.nodes[n].neighborsAt # e.at /\ table[n].heard > 0
  BY DEF RowsOK, NodeOK
<1>3. \A f \in RowFields : u.nodes[n][f] = Node(m, n)[f]
  BY <1>1, <1>2 DEF AgedRow
<1>4. n \in DOMAIN m.nodes
  <2>1. CASE n \notin DOMAIN m.nodes
    <3>1. u.nodes[n].heard = 0
      BY <1>3, <2>1 DEF Node, At, NewNode, RowFields
    <3> QED BY <1>2, <3>1
  <2> QED BY <2>1
<1>5. Node(m, n) = m.nodes[n]
  BY <1>4 DEF Node, At
<1>6. table[n].heard = m.nodes[n].heard /\ table[n].neighborsAt = m.nodes[n].neighborsAt
  BY <1>3, <1>5 DEF RowFields
<1> QED BY <1>3, <1>4, <1>5, <1>6 DEF Faithful

LEMMA GrownRemembered ==
  ASSUME NEW m, NEW u, NEW e, NEW table, NEW g, Grown(m, u, e), Remembered(m, table, g)
  PROVE  Remembered(u, table, g)
<1> SUFFICES ASSUME NEW n \in DOMAIN table \ g
             PROVE  /\ n \in DOMAIN u.nodes
                    /\ DOMAIN table[n].attrs \subseteq DOMAIN u.nodes[n].attrs
  BY DEF Remembered
<1>1. n \in DOMAIN m.nodes /\ DOMAIN table[n].attrs \subseteq DOMAIN m.nodes[n].attrs
  BY DEF Remembered
<1>2. n \in DOMAIN u.nodes /\ Node(m, n) = m.nodes[n]
  BY <1>1 DEF Grown, Node, At
<1>3. AgedRow(m.nodes[n], u.nodes[n], e, n)
  BY <1>2 DEF Grown
<1> QED BY <1>1, <1>2, <1>3 DEF AgedRow

(* What was true of rows stays true later and with more observed.           *)
LEMMA RowsLater ==
  ASSUME NEW table, NEW t \in Nat, NEW obs, NEW more, RowsOK(table, t, obs)
  PROVE  RowsOK(table, t + 1, obs \cup more)
<1>1. ASSUME NEW n \in DOMAIN table PROVE NodeOK(n, table[n], t + 1, obs \cup more)
  BY DEF RowsOK, NodeOK
<1> QED BY <1>1 DEF RowsOK

LEMMA MemLater ==
  ASSUME NEW m, NEW t \in Nat, NEW obs, MemOK(m, t, obs) PROVE MemOK(m, t + 1, obs)
<1>1. ASSUME NEW n \in DOMAIN m.nodes PROVE NodeOK(n, m.nodes[n], t + 1, obs)
  BY DEF MemOK, NodeOK
<1> QED BY <1>1 DEF MemOK

----------------------------------------------------------------------------
(* The counters by type.                                                    *)
LEMMA UpdatedCounts ==
  ASSUME NEW m, NEW u, NEW e, NEW g, DOMAIN m = MemFields, Updated(m, u, e), CountOK(m, g)
  PROVE  CountOK(u, g)
<1>1. u.log = m.log /\ u.events = m.events
  BY DEF Updated, Kept, MemFields
<1>2. ASSUME NEW n \in DOMAIN u.nodes PROVE u.nodes[n].byType = Node(m, n).byType
  BY DEF Updated, NodesAged, Aged, Node, At
<1>3. ASSUME NEW n, n \in DOMAIN m.nodes
      PROVE  n \in DOMAIN u.nodes /\ u.nodes[n].byType = m.nodes[n].byType
  BY <1>2, <1>3 DEF Updated, Node, At
<1>4. ASSUME NEW n \in DOMAIN u.nodes, n \notin DOMAIN m.nodes
      PROVE  u.nodes[n].byType = [t \in Types |-> 0]
  BY <1>2, <1>4 DEF Node, At, NewNode
<1>5. ASSUME NEW n \in DOMAIN u.nodes PROVE u.nodes[n].byType \in [Types -> Nat]
  BY <1>3, <1>4 DEF CountOK
<1>6. ASSUME NEW n \in Nodes, NEW t \in Types
      PROVE  /\ n \in DOMAIN u.nodes => u.nodes[n].byType[t] <= CountIn(u.log, n, t)
             /\ n \in DOMAIN u.nodes /\ n \notin g => u.nodes[n].byType[t] = CountIn(u.log, n, t)
             /\ n \notin DOMAIN u.nodes /\ n \notin g => CountIn(u.log, n, t) = 0
  <2>1. CountIn(m.log, n, t) \in Nat
    BY CountNat DEF CountOK
  <2> QED BY <1>1, <1>3, <1>4, <2>1 DEF CountOK
<1> QED BY <1>1, <1>5, <1>6 DEF CountOK

LEMMA AddedCounts ==
  ASSUME NEW m, NEW u, NEW e \in Events, NEW g, EventFact(e), Added(m, u, e), CountOK(m, g)
  PROVE  CountOK(u, g)
<1>1. /\ u.log = Append(m.log, e) /\ m.log \in Seq(Events)
      /\ u.events = LastN(Append(LastN(m.log, RingSize), e), RingSize)
  BY DEF Added, CountOK
<1>8. u.log \in Seq(Events) /\ u.events = LastN(u.log, RingSize)
  <2>1. LastN(Append(LastN(m.log, RingSize), e), RingSize) = LastN(Append(m.log, e), RingSize)
    BY <1>1, LastNAppend, TableAssumption
  <2>2. PICK s \in Seq(Events) : s = m.log
    BY <1>1
  <2>3. Append(s, e) \in Seq(Events)
    OBVIOUS
  <2> QED BY <1>1, <2>1, <2>2, <2>3
<1>2. PICK before : before = [n \in Nodes |-> Node(m, n).byType]
  OBVIOUS
<1>3. ASSUME NEW n, n \in DOMAIN m.nodes
      PROVE  n \in DOMAIN u.nodes /\ Node(m, n).byType = m.nodes[n].byType
  BY <1>3 DEF Added, Node, At
<1>4. ASSUME NEW n, n \notin DOMAIN m.nodes PROVE Node(m, n).byType = [t \in Types |-> 0]
  BY <1>4 DEF Node, At, NewNode
<1>5. ASSUME NEW n PROVE Node(m, n).byType \in [Types -> Nat]
  BY <1>3, <1>4 DEF CountOK
<1>6. ASSUME NEW n \in DOMAIN u.nodes PROVE u.nodes[n].byType \in [Types -> Nat]
  <2>1. PICK b \in [Types -> Nat] : b = Node(m, n).byType
    BY <1>5
  <2>2. [b EXCEPT ![e.type] = @ + 1] \in [Types -> Nat]
    BY DEF EventFact
  <2>3. u.nodes[n].byType = IF n = e.from THEN [b EXCEPT ![e.type] = @ + 1] ELSE b
    BY <2>1 DEF Added
  <2> QED BY <2>1, <2>2, <2>3
<1>7. ASSUME NEW n \in Nodes, NEW t \in Types
      PROVE  /\ n \in DOMAIN u.nodes => u.nodes[n].byType[t] <= CountIn(u.log, n, t)
             /\ n \in DOMAIN u.nodes /\ n \notin g => u.nodes[n].byType[t] = CountIn(u.log, n, t)
             /\ n \notin DOMAIN u.nodes /\ n \notin g => CountIn(u.log, n, t) = 0
  <2>1. PICK b \in [Types -> Nat] : b = Node(m, n).byType
    BY <1>5
  <2>2. PICK c \in Nat : c = CountIn(m.log, n, t)
    BY <1>1, CountNat
  <2>3. b[t] <= c /\ (n \notin g => b[t] = c)
    BY <1>3, <1>4, <2>1, <2>2 DEF CountOK
  <2>4. n \notin DOMAIN m.nodes /\ n \notin g => c = 0
    BY <2>2 DEF CountOK
  <2>5. CountIn(u.log, n, t) = IF e.from = n /\ e.type = t THEN c + 1 ELSE c
    BY <1>1, <2>2, CountAppend
  <2>6. CASE n = e.from
    <3>1. n \in DOMAIN u.nodes /\ u.nodes[n].byType = [b EXCEPT ![e.type] = @ + 1]
      BY <2>1, <2>6, TableAssumption DEF Added
    <3>2. u.nodes[n].byType[t] = IF t = e.type THEN b[t] + 1 ELSE b[t]
      BY <3>1 DEF EventFact
    <3> QED BY <2>3, <2>5, <2>6, <3>1, <3>2
  <2>7. CASE n # e.from
    <3>1. n \in DOMAIN u.nodes => u.nodes[n].byType = b
      BY <2>1, <2>7 DEF Added
    <3>2. n \notin DOMAIN u.nodes => n \notin DOMAIN m.nodes
      BY DEF Added
    <3>3. CountIn(u.log, n, t) = c
      BY <2>5, <2>7
    <3> QED BY <2>3, <2>4, <3>1, <3>2, <3>3
  <2> QED BY <2>6, <2>7
<1> QED BY <1>6, <1>7, <1>8 DEF CountOK

----------------------------------------------------------------------------
(* The buffer of traceroutes.                                               *)
LEMMA RisingLast ==
  ASSUME NEW s, NEW t \in Nat, NEW n \in Nat \ {0}, NEW routes, Rising(s, t), Covers(s, routes),
         Rising(routes, t)
  PROVE  Rising(LastN(s, n), t) /\ Covers(LastN(s, n), routes)
<1>1. s \in Seq(Nat) /\ routes \in Seq(Nat)
  BY DEF Rising
<1>2. PICK r : r = LastN(s, n)
  OBVIOUS
<1>3. PICK d \in 0 .. Len(s) :
        /\ r \in Seq(Nat) /\ Len(r) = Len(s) - d
        /\ \A i \in 1 .. Len(s) - d : r[i] = s[i + d]
  <2>1. /\ r \in Seq(Nat) /\ Skip(s, n) \in 0 .. Len(s) /\ Len(r) = Len(s) - Skip(s, n)
        /\ \A i \in 1 .. Len(s) - Skip(s, n) : r[i] = s[i + Skip(s, n)]
    BY <1>1, <1>2, LastNIs
  <2> QED BY <2>1
<1>4. \A i \in 1 .. Len(r) : i + d \in 1 .. Len(s) /\ r[i] = s[i + d]
  BY <1>3
<1>5. Rising(r, t)
  <2>1. \A i \in 1 .. Len(r) : r[i] < t
    BY <1>4 DEF Rising
  <2>2. ASSUME NEW i \in 1 .. Len(r), NEW j \in 1 .. Len(r), i < j PROVE r[i] < r[j]
    <3>1. i + d < j + d
      BY <2>2
    <3> QED BY <1>4, <3>1 DEF Rising
  <2> QED BY <1>3, <2>1, <2>2 DEF Rising
<1>6. ASSUME NEW i \in 1 .. Len(r), NEW j \in 1 .. Len(routes), r[i] <= routes[j]
      PROVE  \E k \in 1 .. Len(r) : r[k] = routes[j]
  <2>1. i + d \in 1 .. Len(s) /\ s[i + d] <= routes[j]
    BY <1>4, <1>6
  <2>2. PICK k \in 1 .. Len(s) : s[k] = routes[j]
    BY <2>1 DEF Covers
  <2>3. ~ (k < i + d)
    <3>1. ASSUME k < i + d PROVE FALSE
      <4>1. s[k] < s[i + d]
        BY <2>1, <3>1 DEF Rising
      <4>2. PICK x \in 1 .. Len(s) : x = i + d
        BY <2>1
      <4>3. s[k] \in Nat /\ s[x] \in Nat
        BY <1>1
      <4> QED BY <2>1, <2>2, <4>1, <4>2, <4>3
    <3> QED BY <3>1
  <2>4. k - d \in 1 .. Len(r) /\ (k - d) + d = k
    BY <1>1, <1>3, <2>3
  <2>5. r[k - d] = s[k]
    BY <1>4, <2>4
  <2> QED BY <2>2, <2>4, <2>5
<1> QED BY <1>2, <1>5, <1>6 DEF Covers

LEMMA RisingAppend ==
  ASSUME NEW s, NEW t \in Nat, Rising(s, t) PROVE Rising(Append(s, t), t + 1)
<1>1. s \in Seq(Nat)
  BY DEF Rising
<1>2. PICK q : q = Append(s, t)
  OBVIOUS
<1>3. /\ q \in Seq(Nat) /\ Len(q) = Len(s) + 1 /\ q[Len(s) + 1] = t
      /\ \A i \in 1 .. Len(s) : q[i] = s[i] /\ q[i] \in Nat
  BY <1>1, <1>2
<1>4. \A i \in 1 .. Len(s) : q[i] < t
  BY <1>3 DEF Rising
<1>5. \A i \in 1 .. Len(q) : i \in 1 .. Len(s) \/ i = Len(s) + 1
  BY <1>1, <1>3
<1>6. ASSUME NEW i \in 1 .. Len(q) PROVE q[i] < t + 1
  BY <1>3, <1>4, <1>5
<1>7. ASSUME NEW i \in 1 .. Len(q), NEW j \in 1 .. Len(q), i < j PROVE q[i] < q[j]
  <2>1. i \in 1 .. Len(s)
    BY <1>1, <1>3, <1>7
  <2>2. CASE j = Len(s) + 1
    BY <1>3, <1>4, <2>1, <2>2
  <2>3. CASE j \in 1 .. Len(s)
    BY <1>3, <1>7, <2>1, <2>3 DEF Rising
  <2> QED BY <1>5, <2>2, <2>3
<1> QED BY <1>2, <1>3, <1>6, <1>7 DEF Rising

LEMMA RisingLater ==
  ASSUME NEW s, NEW t \in Nat, Rising(s, t) PROVE Rising(s, t + 1)
BY DEF Rising

LEMMA CoversAppend ==
  ASSUME NEW s, NEW t \in Nat, NEW routes, Rising(s, t), Rising(routes, t), Covers(s, routes)
  PROVE  Covers(Append(s, t), routes)
<1>1. s \in Seq(Nat) /\ routes \in Seq(Nat)
  BY DEF Rising
<1>2. PICK q : q = Append(s, t)
  OBVIOUS
<1>3. /\ Len(q) = Len(s) + 1 /\ q[Len(s) + 1] = t
      /\ \A i \in 1 .. Len(s) : q[i] = s[i] /\ i \in 1 .. Len(q)
  BY <1>1, <1>2
<1>4. ASSUME NEW i \in 1 .. Len(q), NEW j \in 1 .. Len(routes), q[i] <= routes[j]
      PROVE  \E k \in 1 .. Len(q) : q[k] = routes[j]
  <2>1. routes[j] \in Nat /\ routes[j] < t
    BY <1>1 DEF Rising
  <2>2. i # Len(s) + 1
    BY <1>3, <1>4, <2>1
  <2>3. i \in 1 .. Len(s)
    <3>1. Len(s) \in Nat /\ i \in 1 .. Len(s) + 1
      BY <1>1, <1>3
    <3> QED BY <2>2, <3>1
  <2>4. s[i] <= routes[j]
    BY <1>3, <1>4, <2>3
  <2>5. PICK k \in 1 .. Len(s) : s[k] = routes[j]
    BY <2>3, <2>4 DEF Covers
  <2> QED BY <1>3, <2>5
<1> QED BY <1>2, <1>4 DEF Covers

(* A traceroute of time t.                                                  *)
Taken(held, t) == LastN(Append(held, t), MaxTraceroutes)

HasRoute(held, t) == \E k \in 1 .. Len(held) : held[k] = t

LEMMA RouteTaken ==
  ASSUME NEW held, NEW routes, NEW t \in Nat, RouteOK(held, routes, t)
  PROVE  RouteOK(Taken(held, t), routes, t + 1) /\ HasRoute(Taken(held, t), t)
<1> DEFINE new == Taken(held, t)
<1>1. Rising(routes, t + 1)
  BY RisingLater DEF RouteOK
<1>2. PICK q : q = Append(held, t)
  OBVIOUS
<1>3. Rising(q, t + 1) /\ Covers(q, routes)
  BY <1>2, RisingAppend, CoversAppend DEF RouteOK
<1>4. new = LastN(q, MaxTraceroutes) /\ MaxTraceroutes \in Nat \ {0}
  BY <1>2, TableAssumption DEF Taken
<1> HIDE DEF new
<1>5. Rising(new, t + 1) /\ Covers(new, routes)
  BY <1>1, <1>3, <1>4, RisingLast
<1>6. q \in Seq(Nat) /\ Len(q) \in Nat \ {0} /\ q[Len(q)] = t /\ q # <<>>
  BY <1>2 DEF RouteOK, Rising
<1>7. PICK d \in 0 .. Len(q) :
        /\ Len(new) = Len(q) - d
        /\ \A i \in 1 .. Len(q) - d : new[i] = q[i + d]
        /\ d < Len(q)
  <2>1. /\ Skip(q, MaxTraceroutes) \in 0 .. Len(q) /\ Skip(q, MaxTraceroutes) < Len(q)
        /\ Len(new) = Len(q) - Skip(q, MaxTraceroutes)
        /\ \A i \in 1 .. Len(q) - Skip(q, MaxTraceroutes) : new[i] = q[i + Skip(q, MaxTraceroutes)]
    BY <1>4, <1>6, LastNIs
  <2> QED BY <2>1
<1>8. Len(new) \in 1 .. Len(new) /\ Len(new) + d = Len(q) /\ Len(new) \in 1 .. Len(q) - d
  BY <1>6, <1>7
<1>9. new[Len(new)] = t
  BY <1>6, <1>7, <1>8
<1>10. RouteOK(new, routes, t + 1) /\ HasRoute(new, t)
  BY <1>1, <1>5, <1>8, <1>9 DEF RouteOK, HasRoute
<1> QED BY <1>10 DEF new

LEMMA RouteLater ==
  ASSUME NEW held, NEW routes, NEW t \in Nat, RouteOK(held, routes, t)
  PROVE  RouteOK(held, routes, t + 1)
BY RisingLater DEF RouteOK

----------------------------------------------------------------------------
(* A start.  The rows become nodes without counters, the young neighbour    *)
(* tables links, and the events are replayed on top.                        *)
LEMMA LoadNodesIs ==
  ASSUME NEW table, \A n \in DOMAIN table : DOMAIN table[n] = RowFields
  PROVE  /\ DOMAIN LoadNodes(Empty, table) = MemFields
         /\ LoadNodes(Empty, table).my = None
         /\ LoadNodes(Empty, table).log = <<>> /\ LoadNodes(Empty, table).events = <<>>
         /\ LoadNodes(Empty, table).traceroutes = <<>>
         /\ DOMAIN LoadNodes(Empty, table).nodes = DOMAIN table
         /\ \A n \in DOMAIN table :
              /\ DOMAIN LoadNodes(Empty, table).nodes[n] = NodeFields
              /\ LoadNodes(Empty, table).nodes[n].byType = [t \in Types |-> 0]
              /\ \A f \in RowFields : LoadNodes(Empty, table).nodes[n][f] = table[n][f]
<1>1. PICK m : m = LoadNodes(Empty, table)
  OBVIOUS
<1>2. m = [Empty EXCEPT !.nodes = [n \in DOMAIN table |-> Over(table[n], NewNode)]]
  BY <1>1 DEF LoadNodes
<1>3. /\ DOMAIN m = MemFields /\ m.my = None /\ m.log = <<>> /\ m.events = <<>> /\ m.traceroutes = <<>>
      /\ m.nodes = [n \in DOMAIN table |-> Over(table[n], NewNode)]
  BY <1>2 DEF Empty, MemFields
<1>4. ASSUME NEW n \in DOMAIN table
      PROVE  /\ DOMAIN m.nodes[n] = NodeFields
             /\ m.nodes[n].byType = [t \in Types |-> 0]
             /\ \A f \in RowFields : m.nodes[n][f] = table[n][f]
  <2>1. PICK r : r = table[n]
    OBVIOUS
  <2>2. DOMAIN r = RowFields
    BY <2>1
  <2>3. m.nodes[n] = Over(r, NewNode)
    BY <1>3, <2>1
  <2>4. NewNode.byType = [t \in Types |-> 0] /\ "byType" \in DOMAIN NewNode
    BY DEF NewNode
  <2>5. "byType" \notin RowFields
    BY DEF RowFields
  <2>6. DOMAIN m.nodes[n] = NodeFields
    BY <2>2, <2>3, NewNodeIs DEF NodeFields, Over
  <2>7. m.nodes[n].byType = NewNode.byType
    BY <2>2, <2>3, <2>4, <2>5 DEF Over
  <2>8. \A f \in RowFields : m.nodes[n][f] = r[f]
    BY <2>2, <2>3 DEF Over
  <2> QED BY <2>1, <2>4, <2>6, <2>7, <2>8
<1> QED BY <1>1, <1>3, <1>4

LEMMA RebuiltIs ==
  ASSUME NEW m, NEW u \in Rebuilt(m), NEW t, NEW obs, DOMAIN m = MemFields,
         \A n \in DOMAIN m.nodes : NodeOK(n, m.nodes[n], t, obs)
  PROVE  Kept(m, u, {"links"}) /\ LinksOK(u, obs)
<1> DEFINE fresh == {n \in DOMAIN m.nodes :
                      m.nodes[n].neighborsAt = 0 \/ now - m.nodes[n].neighborsAt <= MaxAge}
           tells == {x \in fresh \X Nodes :
                       x[2] # x[1] /\ x[2] \in DOMAIN m.nodes[x[1]].neighbors}
           best  == {x \in tells : <<x[2], x[1]>> \in tells =>
                       TableTime(m.nodes[x[2]]) <= TableTime(m.nodes[x[1]])}
           Link(x) == [NewLink EXCEPT !.snr = m.nodes[x[1]].neighbors[x[2]], !.count = 1,
                         !.at = TableTime(m.nodes[x[1]]), !.neighbor = TRUE]
           keys  == {{x[1], x[2]} : x \in best}
<1>1. PICK pick \in [keys -> best] :
        /\ \A k \in keys : k = {pick[k][1], pick[k][2]}
        /\ u = [m EXCEPT !.links = [k \in keys |-> Link(pick[k])]]
  BY DEF Rebuilt
<1>2. \A x \in best : x[1] \in DOMAIN m.nodes /\ x[2] \in DOMAIN m.nodes[x[1]].neighbors
  OBVIOUS
<1>3. ASSUME NEW x PROVE /\ DOMAIN Link(x) = LinkFields
                         /\ Link(x).snr = m.nodes[x[1]].neighbors[x[2]]
                         /\ Link(x).at = TableTime(m.nodes[x[1]])
  BY DEF NewLink, LinkFields
<1> HIDE DEF fresh, tells, best, Link, keys
<1>4. Kept(m, u, {"links"}) /\ u.links = [k \in keys |-> Link(pick[k])]
  BY <1>1 DEF Kept, MemFields
<1>5. ASSUME NEW k \in DOMAIN u.links
      PROVE  DOMAIN u.links[k] = LinkFields /\ Told(k, u.links[k]) \in obs
  <2>1. k \in keys /\ u.links[k] = Link(pick[k]) /\ pick[k] \in best
    BY <1>1, <1>4
  <2>2. PICK x : x = pick[k]
    OBVIOUS
  <2>3. PICK n, p : n = x[1] /\ p = x[2]
    OBVIOUS
  <2>4. n \in DOMAIN m.nodes /\ p \in DOMAIN m.nodes[n].neighbors /\ k = {n, p}
    BY <1>1, <1>2, <2>1, <2>2, <2>3
  <2>5. /\ [ends |-> {n, p}, snr |-> m.nodes[n].neighbors[p], at |-> m.nodes[n].neighborsAt] \in obs
        /\ TableTime(m.nodes[n]) = m.nodes[n].neighborsAt
    BY <2>4 DEF NodeOK, TableTime
  <2>6. /\ DOMAIN u.links[k] = LinkFields
        /\ u.links[k].snr = m.nodes[n].neighbors[p] /\ u.links[k].at = m.nodes[n].neighborsAt
    BY <1>3, <2>1, <2>2, <2>3, <2>5
  <2> QED BY <2>4, <2>5, <2>6 DEF Told
<1> QED BY <1>4, <1>5 DEF LinksOK

(* m is what replaying the first i events of a table makes of b.            *)
Loading(m, b, table, i, obs) ==
  /\ DOMAIN m = MemFields
  /\ m.my \in {None, Self}
  /\ m.traceroutes = b.traceroutes
  /\ m.log \in Seq(Events) /\ Len(m.log) = i /\ m.events = LastN(m.log, RingSize)
  /\ \A j \in 1 .. i : m.log[j] = table[j]
  /\ DOMAIN m.nodes = DOMAIN b.nodes
  /\ \A n \in DOMAIN m.nodes :
       /\ DOMAIN m.nodes[n] = NodeFields
       /\ \A f \in RowFields : m.nodes[n][f] = b.nodes[n][f]
       /\ m.nodes[n].byType \in [Types -> Nat]
       /\ \A t \in Types : m.nodes[n].byType[t] = CountIn(m.log, n, t)
  /\ LinksOK(m, obs)

LEMMA LoadingStep ==
  ASSUME NEW m, NEW b, NEW table \in Seq(Events), NEW i \in 0 .. Len(table) - 1, NEW obs,
         Loading(m, b, table, i, obs), Evidence(table[i + 1]) \subseteq obs
  PROVE  Loading(Replay(m, table[i + 1]), b, table, i + 1, obs)
<1>1. PICK e \in Events : e = table[i + 1]
  <2>1. i + 1 \in 1 .. Len(table)
    OBVIOUS
  <2> QED BY <2>1
<1>2. EventFact(e)
  BY EventIs
<1>3. PICK u : u = Replay(m, e)
  OBVIOUS
<1>4. Replayed(m, u, e)
  BY <1>2, <1>3, ReplayedIs DEF Loading, Shaped, LinksShaped, LinksOK
<1>5. /\ DOMAIN u = MemFields /\ u.my \in {None, Self} /\ u.traceroutes = b.traceroutes
      /\ DOMAIN u.nodes = DOMAIN b.nodes
  BY <1>4 DEF Replayed, Loading
<1>6. PICK s \in Seq(Events) : s = m.log
  BY DEF Loading
<1>7. /\ u.log = Append(s, e) /\ Len(s) = i /\ \A j \in 1 .. i : s[j] = table[j]
  BY <1>4, <1>6 DEF Replayed, Loading
<1>12. u.events = LastN(u.log, RingSize)
  BY <1>1, <1>4, <1>6, <1>7, LastNAppend, TableAssumption DEF Replayed, Loading
<1>8. u.log \in Seq(Events) /\ Len(u.log) = i + 1
  BY <1>7
<1>9. ASSUME NEW j \in 1 .. i + 1 PROVE u.log[j] = table[j]
  <2>1. CASE j = i + 1
    BY <1>1, <1>7, <2>1
  <2>2. CASE j # i + 1
    <3>1. j \in 1 .. i
      BY <2>2
    <3>2. Append(s, e)[j] = s[j]
      BY <1>7, <3>1
    <3> QED BY <1>7, <3>1, <3>2
  <2> QED BY <2>1, <2>2
<1>10. ASSUME NEW n \in DOMAIN u.nodes
       PROVE  /\ DOMAIN u.nodes[n] = NodeFields
              /\ \A f \in RowFields : u.nodes[n][f] = b.nodes[n][f]
              /\ u.nodes[n].byType \in [Types -> Nat]
              /\ \A t \in Types : u.nodes[n].byType[t] = CountIn(u.log, n, t)
  <2>1. n \in DOMAIN m.nodes /\ Tallied(m.nodes[n], u.nodes[n], e, n)
    BY <1>4 DEF Replayed
  <2>2. DOMAIN u.nodes[n] = NodeFields /\ \A f \in RowFields : u.nodes[n][f] = b.nodes[n][f]
    BY <2>1 DEF Tallied, Loading
  <2>3. PICK c \in [Types -> Nat] : c = m.nodes[n].byType
    BY <2>1 DEF Loading
  <2>4. \A t \in Types : c[t] = CountIn(s, n, t)
    BY <1>6, <2>1, <2>3 DEF Loading
  <2>5. \A t \in Types : CountIn(u.log, n, t) =
          IF e.from = n /\ e.type = t THEN CountIn(s, n, t) + 1 ELSE CountIn(s, n, t)
    BY <1>7, CountAppend
  <2>6. CASE n = e.from
    <3>1. u.nodes[n].byType = [c EXCEPT ![e.type] = @ + 1] /\ e.type \in Types
      BY <1>2, <2>1, <2>3, <2>6 DEF Tallied, EventFact
    <3>2. u.nodes[n].byType \in [Types -> Nat]
      BY <3>1
    <3>3. \A t \in Types : u.nodes[n].byType[t] = IF t = e.type THEN c[t] + 1 ELSE c[t]
      BY <3>1
    <3>4. ASSUME NEW t \in Types PROVE u.nodes[n].byType[t] = CountIn(u.log, n, t)
      <4>1. CASE t = e.type
        BY <2>4, <2>5, <2>6, <3>3, <4>1
      <4>2. CASE t # e.type
        BY <2>4, <2>5, <2>6, <3>3, <4>2
      <4> QED BY <4>1, <4>2
    <3> QED BY <2>2, <3>2, <3>4
  <2>7. CASE n # e.from
    <3>1. u.nodes[n].byType = c
      BY <2>1, <2>3, <2>7 DEF Tallied
    <3>2. \A t \in Types : CountIn(u.log, n, t) = CountIn(s, n, t)
      BY <2>5, <2>7
    <3>3. \A t \in Types : u.nodes[n].byType[t] = CountIn(u.log, n, t)
      BY <2>4, <3>1, <3>2
    <3> QED BY <2>2, <3>1, <3>3
  <2> QED BY <2>6, <2>7
<1>11. LinksOK(u, obs)
  BY <1>1, <1>4 DEF Replayed, Linked, LinksOK, Loading
<1> QED BY <1>1, <1>3, <1>5, <1>8, <1>9, <1>10, <1>11, <1>12 DEF Loading

LEMMA LoadingAll ==
  ASSUME NEW b, NEW table \in Seq(Events), NEW obs, Loading(b, b, table, 0, obs),
         \A i \in 1 .. Len(table) : Evidence(table[i]) \subseteq obs
  PROVE  /\ Loading(LoadEvents(b, table), b, table, Len(table), obs)
         /\ LoadEvents(b, table).log = table
<1>1. PICK f : Turns(f, b, table, Len(table)) /\ LoadEvents(b, table) = f[Len(table)]
  BY LoadIs
<1>2. PICK l \in Nat : l = Len(table)
  OBVIOUS
<1>3. f = [i \in 0 .. l |-> IF i = 0 THEN b ELSE Replay(f[i - 1], table[i])]
  BY <1>1, <1>2 DEF Turns
<1>4. ASSUME NEW i \in 0 .. l PROVE f[i] = IF i = 0 THEN b ELSE Replay(f[i - 1], table[i])
  BY <1>3
<1> DEFINE S == {i \in 0 .. l : Loading(f[i], b, table, i, obs)}
<1>5. 0 \in S
  <2>1. f[0] = b
    BY <1>4
  <2> QED BY <2>1
<1>6. ASSUME NEW i \in 0 .. l - 1, i \in S PROVE i + 1 \in S
  <2>1. i + 1 \in 0 .. l /\ i + 1 # 0 /\ (i + 1) - 1 = i /\ i + 1 \in 1 .. l
    OBVIOUS
  <2>2. f[i + 1] = Replay(f[i], table[i + 1])
    BY <1>4, <2>1
  <2>3. Loading(Replay(f[i], table[i + 1]), b, table, i + 1, obs)
    BY <1>2, <1>6, <2>1, LoadingStep
  <2> QED BY <2>1, <2>2, <2>3
<1> HIDE DEF S
<1>7. l \in S
  <2>1. 0 .. l \subseteq S
    BY <1>5, <1>6, UpTo
  <2> QED BY <2>1
<1>8. PICK m : m = LoadEvents(b, table)
  OBVIOUS
<1>9. Loading(m, b, table, l, obs)
  BY <1>1, <1>2, <1>7, <1>8 DEF S
<1>10. PICK s \in Seq(Events) : s = m.log
  BY <1>9 DEF Loading
<1>11. Len(s) = Len(table) /\ \A j \in 1 .. Len(table) : s[j] = table[j]
  BY <1>2, <1>9, <1>10 DEF Loading
<1>12. s = table
  BY <1>11
<1> QED BY <1>2, <1>8, <1>9, <1>10, <1>12

----------------------------------------------------------------------------
LEMMA StampIs ==
  ASSUME NEW p \in Packets, NEW t \in Nat
  PROVE  /\ Over([at |-> t], p) \in Events
         /\ EventFact(Over([at |-> t], p))
         /\ Over([at |-> t], p).at = t
<1>1. PICK s : s = <<t, p>>
  OBVIOUS
<1>2. s \in Nat \X Packets /\ s[1] = t /\ s[2] = p
  BY <1>1
<1>3. Over([at |-> s[1]], s[2]) \in Events
  BY <1>2 DEF Events
<1>4. Over([at |-> t], p) \in Events
  BY <1>2, <1>3
<1>5. Over([at |-> t], p).at = t
  BY DEF Over
<1> QED BY <1>4, <1>5, EventIs

(* A packet arrives: all but what is left to write.                         *)
InvButTodo ==
  /\ ClockOK
  /\ MemOK(mem, now, observed)
  /\ RowsOK(nodeRows, now, observed)
  /\ Faithful(mem, nodeRows)
  /\ Remembered(mem, nodeRows, gaps)
  /\ CountOK(mem, gaps)
  /\ RouteOK(mem.traceroutes, routeRows, now)
  /\ EventsOK(eventRows, observed)

LEMMA InvIs == Inv <=> InvButTodo /\ TodoOK
BY DEF Inv, InvButTodo

LEMMA InvIsNext == Inv' <=> InvButTodo' /\ TodoOK'
BY InvIs, PTL

LEMMA EventsLater ==
  ASSUME NEW s, NEW obs, NEW more, EventsOK(s, obs) PROVE EventsOK(s, obs \cup more)
BY DEF EventsOK

LEMMA ArrivalKeeps ==
  ASSUME Inv, NEW p \in Packets, NEW e, Arrival(p, e), Grown(mem, mem', e), CountOK(mem', gaps),
         mem'.traceroutes = IF e.type = "TRACEROUTE"
                            THEN LastN(Append(mem.traceroutes, e.at), MaxTraceroutes)
                            ELSE mem.traceroutes
  PROVE  /\ InvButTodo'
         /\ e.type = "TRACEROUTE" =>
              \E k \in 1 .. Len(mem'.traceroutes) : mem'.traceroutes[k] = e.at
<1>1. /\ e = Over([at |-> now], p) /\ now' = now + 1 /\ observed' = observed \cup Evidence(e)
      /\ nodeRows' = nodeRows /\ eventRows' = eventRows /\ routeRows' = routeRows
      /\ gaps' = gaps /\ restarts' = restarts
  BY DEF Arrival, rows
<1>2. now \in Nat \ {0} /\ restarts \in Nat
  BY DEF Inv, ClockOK
<1>3. EventFact(e) /\ e.at = now
  BY <1>1, <1>2, StampIs
<1>4. ClockOK'
  BY <1>1, <1>2 DEF ClockOK
<1>5. MemOK(mem', now + 1, observed \cup Evidence(e))
  BY <1>2, <1>3, GrownMem DEF Inv
<1>6. RowsOK(nodeRows, now + 1, observed \cup Evidence(e))
  BY <1>2, RowsLater DEF Inv
<1>7. Faithful(mem', nodeRows)
  BY <1>2, <1>3, GrownFaithful DEF Inv
<1>8. Remembered(mem', nodeRows, gaps)
  BY GrownRemembered DEF Inv
<1>9. RouteOK(mem.traceroutes, routeRows, now)
  BY DEF Inv
<1>10. /\ RouteOK(mem'.traceroutes, routeRows, now + 1)
       /\ e.type = "TRACEROUTE" =>
            \E k \in 1 .. Len(mem'.traceroutes) : mem'.traceroutes[k] = now
  <2>1. now \in Nat
    BY <1>2
  <2>2. CASE e.type = "TRACEROUTE"
    <3>1. mem'.traceroutes = LastN(Append(mem.traceroutes, now), MaxTraceroutes)
      BY <1>3, <2>2
    <3>2. mem'.traceroutes = Taken(mem.traceroutes, now)
      BY <3>1 DEF Taken
    <3>3. /\ RouteOK(Taken(mem.traceroutes, now), routeRows, now + 1)
          /\ HasRoute(Taken(mem.traceroutes, now), now)
      BY <1>9, <2>1, RouteTaken
    <3> QED BY <3>2, <3>3 DEF HasRoute
  <2>3. CASE e.type # "TRACEROUTE"
    <3>1. mem'.traceroutes = mem.traceroutes
      BY <2>3
    <3> QED BY <1>9, <2>1, <2>3, <3>1, RouteLater
  <2> QED BY <2>2, <2>3
<1>11. EventsOK(eventRows, observed \cup Evidence(e))
  BY EventsLater DEF Inv
<1>12. InvButTodo'
  BY <1>1, <1>4, <1>5, <1>6, <1>7, <1>8, <1>10, <1>11 DEF InvButTodo
<1> QED BY <1>3, <1>10, <1>12

LEMMA SilentKeeps ==
  ASSUME Inv, NEW p \in Packets, Silent(p) PROVE Inv'
<1>1. PICK e : /\ e = Over([at |-> now], p) /\ Arrival(p, e)
               /\ mem' = updateNode(mem, e) /\ todo' = SaveOf(e)
  BY DEF Silent
<1>2. now \in Nat \ {0}
  BY DEF Inv, ClockOK
<1>3. e \in Events /\ EventFact(e) /\ e.at = now
  BY <1>1, <1>2, StampIs
<1>4. Shaped(mem) /\ LinksShaped(mem) /\ DOMAIN mem = MemFields
  BY DEF Inv, MemOK, LinksOK, Shaped, LinksShaped
<1>5. Updated(mem, mem', e)
  BY <1>1, <1>3, <1>4, UpdatedIs
<1>6. Grown(mem, mem', e)
  BY <1>5, UpdatedGrown
<1>7. CountOK(mem', gaps)
  BY <1>4, <1>5, UpdatedCounts DEF Inv
<1>8. InvButTodo'
  BY <1>1, <1>5, <1>6, <1>7, ArrivalKeeps DEF Updated
<1>9. TodoOK'
  <2>1. CASE e.from = None
    <3>1. todo' = <<>>
      BY <1>1, <2>1 DEF SaveOf
    <3> QED BY <3>1 DEF TodoOK
  <2>2. CASE e.from # None
    <3>1. PICK w \in Writes : w = [write |-> "node", e |-> e]
      BY <1>3 DEF Writes
    <3>2. todo' = <<w>>
      BY <1>1, <2>2, <3>1 DEF SaveOf
    <3>3. todo' \in Seq(Writes) /\ Len(todo') = 1 /\ todo'[1] = w
      BY <3>2
    <3>4. e.from \in DOMAIN mem'.nodes /\ mem'.nodes[e.from].heard > 0
      BY <1>2, <1>3, <1>5, <2>2 DEF Updated
    <3>5. \A i \in 1 .. Len(todo') : todo'[i] = w
      BY <3>3
    <3> QED BY <3>1, <3>3, <3>4, <3>5 DEF TodoOK
  <2> QED BY <2>1, <2>2
<1> QED BY <1>8, <1>9, InvIsNext

LEMMA Joined ==
  ASSUME NEW S, NEW q \in Seq(S), NEW r \in Seq(S)
  PROVE  /\ q \o r \in Seq(S)
         /\ Len(q \o r) = Len(q) + Len(r)
         /\ \A i \in 1 .. Len(q) : (q \o r)[i] = q[i]
         /\ \A i \in 1 .. Len(r) : (q \o r)[Len(q) + i] = r[i]
OBVIOUS

LEMMA TwoWrites ==
  ASSUME NEW S, NEW w \in S, NEW x \in S
  PROVE  /\ <<w>> \o <<x>> \in Seq(S)
         /\ Len(<<w>> \o <<x>>) = 2
         /\ (<<w>> \o <<x>>)[1] = w /\ (<<w>> \o <<x>>)[2] = x
OBVIOUS

LEMMA ThreeWrites ==
  ASSUME NEW S, NEW w \in S, NEW x \in S, NEW y \in S
  PROVE  /\ <<w>> \o <<x>> \o <<y>> \in Seq(S)
         /\ Len(<<w>> \o <<x>> \o <<y>>) = 3
         /\ (<<w>> \o <<x>> \o <<y>>)[1] = w
         /\ (<<w>> \o <<x>> \o <<y>>)[2] = x
         /\ (<<w>> \o <<x>> \o <<y>>)[3] = y
<1> DEFINE q == <<w>> \o <<x>>
           r == <<y>>
<1>1. q \in Seq(S) /\ Len(q) = 2 /\ q[1] = w /\ q[2] = x
  BY TwoWrites
<1>2. r \in Seq(S) /\ Len(r) = 1 /\ r[1] = y
  OBVIOUS
<1> HIDE DEF q, r
<1>3. q \o r \in Seq(S) /\ Len(q \o r) = 3
  BY <1>1, <1>2, Joined
<1>4. 1 \in 1 .. Len(q) /\ 2 \in 1 .. Len(q) /\ 1 \in 1 .. Len(r) /\ Len(q) + 1 = 3
  BY <1>1, <1>2
<1>5. /\ \A i \in 1 .. Len(q) : (q \o r)[i] = q[i]
      /\ \A i \in 1 .. Len(r) : (q \o r)[Len(q) + i] = r[i]
  BY <1>1, <1>2, Joined
<1>6. (q \o r)[1] = q[1] /\ (q \o r)[2] = q[2] /\ (q \o r)[Len(q) + 1] = r[1]
  BY <1>4, <1>5, Zenon
<1>7. (q \o r)[3] = r[1]
  BY <1>4, <1>6, Zenon
<1> QED BY <1>1, <1>2, <1>3, <1>6, <1>7 DEF q, r

LEMMA ReceiveKeeps ==
  ASSUME Inv, NEW p \in Packets, Receive(p) PROVE Inv'
<1>1. PICK e : /\ e = Over([at |-> now], p) /\ Arrival(p, e)
               /\ mem' = AddEvent(mem, e)
               /\ todo' = <<[write |-> "event", e |-> e]>> \o SaveOf(e)
                    \o (IF e.type = "TRACEROUTE" THEN <<[write |-> "route", e |-> e]>> ELSE <<>>)
  BY DEF Receive
<1>2. now \in Nat \ {0}
  BY DEF Inv, ClockOK
<1>3. e \in Events /\ EventFact(e) /\ e.at = now
  BY <1>1, <1>2, StampIs
<1>4. Shaped(mem) /\ LinksShaped(mem) /\ mem.my \in {None, Self}
  BY DEF Inv, MemOK, LinksOK, Shaped, LinksShaped
<1>5. Added(mem, mem', e)
  BY <1>1, <1>3, <1>4, AddedIs
<1>6. Grown(mem, mem', e)
  BY <1>5, AddedGrown
<1>7. CountOK(mem', gaps)
  BY <1>3, <1>5, AddedCounts DEF Inv
<1>8. /\ InvButTodo'
      /\ e.type = "TRACEROUTE" =>
           \E k \in 1 .. Len(mem'.traceroutes) : mem'.traceroutes[k] = e.at
  BY <1>1, <1>5, <1>6, <1>7, ArrivalKeeps DEF Added
<1>9. TodoOK'
  <2>1. PICK w \in Writes : w = [write |-> "event", e |-> e]
    BY <1>3 DEF Writes
  <2>2. PICK x \in Writes : x = [write |-> "node", e |-> e]
    BY <1>3 DEF Writes
  <2>3. PICK y \in Writes : y = [write |-> "route", e |-> e]
    BY <1>3 DEF Writes
  <2>4. /\ w.write = "event" /\ w.e = e /\ x.write = "node" /\ x.e = e
        /\ y.write = "route" /\ y.e = e
    BY <2>1, <2>2, <2>3
  <2>5. /\ w.write = "event" => Evidence(w.e) \subseteq observed'
        /\ w.write # "node" /\ w.write # "route"
    BY <1>1, <2>4 DEF Arrival
  <2>6. ASSUME e.from # None
        PROVE  /\ x.e.from \in DOMAIN mem'.nodes /\ mem'.nodes[x.e.from].heard > 0
               /\ x.write # "event" /\ x.write # "route"
    BY <1>2, <1>3, <1>5, <2>4, <2>6 DEF Added
  <2>7. ASSUME e.type = "TRACEROUTE"
        PROVE  /\ y.e.at < now'
               /\ \A j \in 1 .. Len(routeRows') : routeRows'[j] < y.e.at
               /\ \E k \in 1 .. Len(mem'.traceroutes) : mem'.traceroutes[k] = y.e.at
               /\ y.write # "event" /\ y.write # "node"
    <3>1. now' = now + 1 /\ routeRows' = routeRows
      BY <1>1 DEF Arrival, rows
    <3>2. \A j \in 1 .. Len(routeRows) : routeRows[j] < now
      BY DEF Inv, RouteOK, Rising
    <3> QED BY <1>2, <1>3, <1>8, <2>4, <2>7, <3>1, <3>2
  <2>8. CASE e.from = None
    <3>1. e.type # "TRACEROUTE"
      BY <1>3, <2>8 DEF EventFact
    <3>2. todo' = <<w>> \o <<>> \o <<>>
      BY <1>1, <2>1, <2>8, <3>1 DEF SaveOf
    <3>3. todo' \in Seq(Writes) /\ Len(todo') = 1 /\ todo'[1] = w
      BY <3>2
    <3>4. \A i \in 1 .. Len(todo') : todo'[i] = w
      BY <3>3
    <3> QED BY <2>5, <3>3, <3>4 DEF TodoOK
  <2>9. CASE e.from # None /\ e.type # "TRACEROUTE"
    <3>1. todo' = <<w>> \o <<x>> \o <<>>
      BY <1>1, <2>1, <2>2, <2>9 DEF SaveOf
    <3> DEFINE q == <<w>> \o <<x>>
    <3>2. q \in Seq(Writes) /\ Len(q) = 2 /\ q[1] = w /\ q[2] = x
      BY TwoWrites
    <3> HIDE DEF q
    <3>3. todo' \in Seq(Writes) /\ Len(todo') = 2 /\ todo'[1] = w /\ todo'[2] = x
      <4>1. q \o <<>> = q
        BY <3>2
      <4>2. todo' = q \o <<>>
        BY <3>1 DEF q
      <4> QED BY <3>2, <4>1, <4>2
    <3>4. \A i \in 1 .. Len(todo') : todo'[i] = w \/ todo'[i] = x
      BY <3>3
    <3> QED BY <2>5, <2>6, <2>9, <3>3, <3>4 DEF TodoOK
  <2>10. CASE e.from # None /\ e.type = "TRACEROUTE"
    <3>1. todo' = <<w>> \o <<x>> \o <<y>>
      BY <1>1, <2>1, <2>2, <2>3, <2>10 DEF SaveOf
    <3>3. todo' \in Seq(Writes) /\ Len(todo') = 3 /\ todo'[1] = w /\ todo'[2] = x /\ todo'[3] = y
      BY <3>1, ThreeWrites
    <3>4. \A i \in 1 .. Len(todo') : todo'[i] = w \/ todo'[i] = x \/ (todo'[i] = y /\ i = Len(todo'))
      BY <3>3
    <3> QED BY <2>5, <2>6, <2>7, <2>10, <3>3, <3>4 DEF TodoOK
  <2> QED BY <1>3, <2>8, <2>9, <2>10
<1> QED BY <1>8, <1>9, InvIsNext

----------------------------------------------------------------------------
(* The writes.                                                              *)
LEMMA TailIs ==
  ASSUME NEW S, NEW s \in Seq(S), s # <<>>
  PROVE  /\ Tail(s) \in Seq(S)
         /\ Len(Tail(s)) = Len(s) - 1
         /\ \A i \in 1 .. Len(s) - 1 : Tail(s)[i] = s[i + 1]
         /\ s[1] \in S /\ Len(s) \in Nat \ {0}
OBVIOUS

LEMMA TodoLess ==
  ASSUME TodoOK, todo # <<>>, todo' = Tail(todo), todo[1].write # "route",
         mem' = mem, now' = now, observed' = observed, routeRows' = routeRows
  PROVE  TodoOK'
<1>1. PICK s \in Seq(Writes) : s = todo /\ s # <<>>
  BY DEF TodoOK
<1>2. PICK r : r = Tail(s)
  OBVIOUS
<1>3. /\ r \in Seq(Writes) /\ Len(r) = Len(s) - 1 /\ Len(s) \in Nat \ {0}
      /\ \A i \in 1 .. Len(s) - 1 : r[i] = s[i + 1]
  BY <1>1, <1>2, TailIs
<1>4. todo' = r
  BY <1>1, <1>2
<1>5. ASSUME NEW i \in 1 .. Len(r)
      PROVE  /\ r[i].write = "event" => Evidence(r[i].e) \subseteq observed
             /\ r[i].write = "node" =>
                  /\ r[i].e.from \in DOMAIN mem.nodes
                  /\ mem.nodes[r[i].e.from].heard > 0
             /\ r[i].write = "route" =>
                  /\ i = Len(r)
                  /\ r[i].e.at < now
                  /\ \A j \in 1 .. Len(routeRows) : routeRows[j] < r[i].e.at
                  /\ \E k \in 1 .. Len(mem.traceroutes) : mem.traceroutes[k] = r[i].e.at
  <2>1. i + 1 \in 1 .. Len(s) /\ r[i] = s[i + 1] /\ (i + 1 = Len(s) => i = Len(r))
    BY <1>3
  <2> QED BY <1>1, <2>1 DEF TodoOK
<1> QED BY <1>3, <1>4, <1>5 DEF TodoOK

LEMMA InsertEventKeeps == ASSUME Inv, InsertEvent PROVE Inv'
<1>1. /\ todo # <<>> /\ todo[1].write = "event" /\ todo' = Tail(todo)
      /\ eventRows' = Append(eventRows, todo[1].e) \/ eventRows' = eventRows
      /\ mem' = mem /\ now' = now /\ restarts' = restarts /\ gaps' = gaps
      /\ observed' = observed /\ nodeRows' = nodeRows /\ routeRows' = routeRows
  BY DEF InsertEvent, Written
<1>2. TodoOK'
  BY <1>1, TodoLess DEF Inv
<1>3. EventsOK(eventRows, observed)
  BY DEF Inv
<1>4. EventsOK(eventRows', observed)
  <2>1. CASE eventRows' = eventRows
    BY <1>3, <2>1
  <2>2. CASE eventRows' = Append(eventRows, todo[1].e)
    <3>1. todo[1] \in Writes /\ 1 \in 1 .. Len(todo)
      BY <1>1, TailIs DEF Inv, TodoOK
    <3>2. PICK e \in Events : e = todo[1].e
      BY <3>1 DEF Writes
    <3>3. Evidence(e) \subseteq observed
      BY <1>1, <3>1, <3>2 DEF Inv, TodoOK
    <3>4. PICK s \in Seq(Events) : s = eventRows
      BY <1>3 DEF EventsOK
    <3>5. PICK q : q = Append(s, e)
      OBVIOUS
    <3>6. q \in Seq(Events) /\ \A i \in 1 .. Len(q) : q[i] = e \/ (i \in 1 .. Len(s) /\ q[i] = s[i])
      BY <3>5
    <3>7. EventsOK(q, observed)
      BY <1>3, <3>3, <3>4, <3>6 DEF EventsOK
    <3> QED BY <2>2, <3>2, <3>4, <3>5, <3>7
  <2> QED BY <1>1, <2>1, <2>2
<1>5. InvButTodo'
  BY <1>1, <1>4 DEF Inv, InvButTodo, ClockOK
<1> QED BY <1>2, <1>5, InvIsNext

LEMMA RowIs ==
  ASSUME NEW r
  PROVE  DOMAIN Row(r) = RowFields /\ \A f \in RowFields : Row(r)[f] = r[f]
BY DEF Row, Restrict

LEMMA SaveNodeKeeps == ASSUME Inv, SaveNode PROVE Inv'
<1>1. /\ todo # <<>> /\ todo[1].write = "node" /\ todo' = Tail(todo)
      /\ \/ nodeRows' = Put(nodeRows, todo[1].e.from, Row(mem.nodes[todo[1].e.from]))
         \/ nodeRows' = nodeRows
      /\ mem' = mem /\ now' = now /\ restarts' = restarts /\ gaps' = gaps
      /\ observed' = observed /\ eventRows' = eventRows /\ routeRows' = routeRows
  BY DEF SaveNode, Written
<1>2. TodoOK'
  BY <1>1, TodoLess DEF Inv
<1>3. RowsOK(nodeRows, now, observed) /\ Faithful(mem, nodeRows) /\ Remembered(mem, nodeRows, gaps)
  BY DEF Inv
<1>4. /\ RowsOK(nodeRows', now, observed)
      /\ Faithful(mem, nodeRows')
      /\ Remembered(mem, nodeRows', gaps)
  <2>1. CASE nodeRows' = nodeRows
    BY <1>3, <2>1
  <2>2. CASE nodeRows' = Put(nodeRows, todo[1].e.from, Row(mem.nodes[todo[1].e.from]))
    <3>1. 1 \in 1 .. Len(todo)
      BY <1>1, TailIs DEF Inv, TodoOK
    <3>2. PICK n : n = todo[1].e.from
      OBVIOUS
    <3>3. n \in DOMAIN mem.nodes /\ mem.nodes[n].heard > 0
      BY <1>1, <3>1, <3>2 DEF Inv, TodoOK
    <3>4. PICK r : r = Row(mem.nodes[n])
      OBVIOUS
    <3>5. DOMAIN r = RowFields /\ \A f \in RowFields : r[f] = mem.nodes[n][f]
      BY <3>4, RowIs
    <3>6. PICK table : table = Put(nodeRows, n, r)
      OBVIOUS
    <3>7. /\ DOMAIN table = DOMAIN nodeRows \cup {n} /\ table[n] = r
          /\ \A x \in DOMAIN nodeRows : x # n => table[x] = nodeRows[x]
      BY <3>6 DEF Put
    <3>8. n \in Nodes /\ NodeOK(n, mem.nodes[n], now, observed)
      BY <3>3 DEF Inv, MemOK
    <3>9. NodeOK(n, r, now, observed) /\ r.heard > 0
      BY <3>3, <3>5, <3>8 DEF NodeOK, RowFields
    <3>10. RowsOK(table, now, observed)
      BY <1>3, <3>5, <3>7, <3>8, <3>9 DEF RowsOK
    <3>11. Faithful(mem, table)
      BY <1>3, <3>5, <3>7 DEF Faithful
    <3>12. Remembered(mem, table, gaps)
      <4>1. DOMAIN r.attrs = DOMAIN mem.nodes[n].attrs
        BY <3>5 DEF RowFields
      <4> QED BY <1>3, <3>3, <3>7, <4>1 DEF Remembered
    <3>13. nodeRows' = table
      BY <2>2, <3>2, <3>4, <3>6
    <3> QED BY <3>10, <3>11, <3>12, <3>13
  <2> QED BY <1>1, <2>1, <2>2
<1>5. InvButTodo'
  BY <1>1, <1>4 DEF Inv, InvButTodo, ClockOK
<1> QED BY <1>2, <1>5, InvIsNext

LEMMA InsertTracerouteKeeps == ASSUME Inv, InsertTraceroute PROVE Inv'
<1>1. /\ todo # <<>> /\ todo[1].write = "route" /\ todo' = Tail(todo)
      /\ routeRows' = Append(routeRows, todo[1].e.at) \/ routeRows' = routeRows
      /\ mem' = mem /\ now' = now /\ restarts' = restarts /\ gaps' = gaps
      /\ observed' = observed /\ nodeRows' = nodeRows /\ eventRows' = eventRows
  BY DEF InsertTraceroute, Written
<1>2. todo[1] \in Writes /\ 1 \in 1 .. Len(todo)
  BY <1>1, TailIs DEF Inv, TodoOK
<1>3. /\ 1 = Len(todo)
      /\ todo[1].e.at < now
      /\ \A j \in 1 .. Len(routeRows) : routeRows[j] < todo[1].e.at
      /\ \E k \in 1 .. Len(mem.traceroutes) : mem.traceroutes[k] = todo[1].e.at
  BY <1>1, <1>2 DEF Inv, TodoOK
<1>4. TodoOK'
  <2>1. Tail(todo) \in Seq(Writes) /\ Len(Tail(todo)) = 0
    BY <1>1, <1>3, TailIs DEF Inv, TodoOK
  <2> QED BY <1>1, <2>1 DEF TodoOK
<1>5. RouteOK(mem.traceroutes, routeRows, now)
  BY DEF Inv
<1>6. RouteOK(mem.traceroutes, routeRows', now)
  <2>1. CASE routeRows' = routeRows
    BY <1>5, <2>1
  <2>2. CASE routeRows' = Append(routeRows, todo[1].e.at)
    <3>1. todo[1].e \in Events
      BY <1>2 DEF Writes
    <3>2. PICK t \in Nat : t = todo[1].e.at
      BY <3>1, EventIs DEF EventFact
    <3>3. PICK s \in Seq(Nat) : s = routeRows
      BY <1>5 DEF RouteOK, Rising
    <3>4. PICK q : q = Append(s, t)
      OBVIOUS
    <3>5. /\ q \in Seq(Nat) /\ Len(q) = Len(s) + 1 /\ q[Len(s) + 1] = t
          /\ \A i \in 1 .. Len(s) : q[i] = s[i] /\ q[i] \in Nat
      BY <3>4
    <3>6. \A i \in 1 .. Len(q) : i \in 1 .. Len(s) \/ i = Len(s) + 1
      BY <3>3, <3>5
    <3>7. \A i \in 1 .. Len(s) : s[i] < t /\ s[i] < now
      BY <1>3, <1>5, <3>2, <3>3 DEF RouteOK, Rising
    <3>8. Rising(q, now)
      <4>1. \A i \in 1 .. Len(q) : q[i] < now
        BY <1>3, <3>2, <3>5, <3>6, <3>7
      <4>2. ASSUME NEW i \in 1 .. Len(q), NEW j \in 1 .. Len(q), i < j PROVE q[i] < q[j]
        <5>1. i \in 1 .. Len(s)
          BY <3>3, <3>5, <4>2
        <5>2. CASE j = Len(s) + 1
          BY <3>5, <3>7, <5>1, <5>2
        <5>3. CASE j \in 1 .. Len(s)
          BY <1>5, <3>3, <3>5, <4>2, <5>1, <5>3 DEF RouteOK, Rising
        <5> QED BY <3>6, <5>2, <5>3
      <4> QED BY <3>5, <4>1, <4>2 DEF Rising
    <3>9. Covers(mem.traceroutes, q)
      <4>1. ASSUME NEW i \in 1 .. Len(mem.traceroutes), NEW j \in 1 .. Len(q),
                   mem.traceroutes[i] <= q[j]
            PROVE  \E k \in 1 .. Len(mem.traceroutes) : mem.traceroutes[k] = q[j]
        <5>1. CASE j = Len(s) + 1
          BY <1>3, <3>2, <3>5, <5>1
        <5>2. CASE j \in 1 .. Len(s)
          BY <1>5, <3>3, <3>5, <4>1, <5>2 DEF RouteOK, Covers
        <5> QED BY <3>6, <5>1, <5>2
      <4> QED BY <4>1 DEF Covers
    <3> QED BY <1>5, <2>2, <3>2, <3>3, <3>4, <3>8, <3>9 DEF RouteOK
  <2> QED BY <1>1, <2>1, <2>2
<1>7. InvButTodo'
  BY <1>1, <1>6 DEF Inv, InvButTodo, ClockOK
<1> QED BY <1>4, <1>7, InvIsNext

LEMMA SwitchPhaseKeeps == ASSUME Inv, SwitchPhase PROVE Inv'
BY DEF Inv, SwitchPhase, rows, ClockOK, TodoOK

LEMMA StutterKeeps == ASSUME Inv, UNCHANGED vars PROVE Inv'
BY DEF Inv, vars, rows, ClockOK, TodoOK

LEMMA TickKeeps == ASSUME Inv, Tick PROVE Inv'
<1>1. /\ now' = now + 1 /\ mem' = mem /\ todo' = todo /\ nodeRows' = nodeRows
      /\ eventRows' = eventRows /\ routeRows' = routeRows /\ restarts' = restarts
      /\ gaps' = gaps /\ observed' = observed
  BY DEF Tick, rows
<1>2. now \in Nat \ {0} /\ now \in Nat
  BY DEF Inv, ClockOK
<1>3. MemOK(mem, now + 1, observed)
  BY <1>2, MemLater DEF Inv
<1>4. RowsOK(nodeRows, now + 1, observed)
  <2>1. RowsOK(nodeRows, now + 1, observed \cup {})
    BY <1>2, RowsLater DEF Inv
  <2>2. observed \cup {} = observed
    OBVIOUS
  <2> QED BY <2>1, <2>2
<1>5. RouteOK(mem.traceroutes, routeRows, now + 1)
  BY <1>2, RouteLater DEF Inv
<1>6. InvButTodo'
  BY <1>1, <1>2, <1>3, <1>4, <1>5 DEF Inv, InvButTodo, ClockOK
<1>7. TodoOK'
  <2>1. ASSUME NEW i \in 1 .. Len(todo), todo[i].write = "route" PROVE todo[i].e.at < now + 1
    <3>1. todo[i] \in Writes
      BY DEF Inv, TodoOK
    <3>2. todo[i].e.at \in Nat
      BY <3>1, EventIs DEF Writes, EventFact
    <3>3. todo[i].e.at < now
      BY <2>1 DEF Inv, TodoOK
    <3> QED BY <1>2, <3>2, <3>3
  <2> QED BY <1>1, <2>1 DEF Inv, TodoOK
<1> QED BY <1>6, <1>7, InvIsNext

----------------------------------------------------------------------------
(* The start, on what the queries yielded: table, routes and events.        *)
LEMMA CountZero ==
  ASSUME NEW s, NEW n, NEW t, \A i \in DOMAIN s : s[i].from # n PROVE CountIn(s, n, t) = 0
<1>1. {i \in DOMAIN s : s[i].from = n /\ s[i].type = t} = {}
  OBVIOUS
<1> QED BY <1>1, FS_EmptySet DEF CountIn

LEMMA RowsEmpty == ASSUME NEW t, NEW obs PROVE RowsOK(<<>>, t, obs)
<1>1. \A x : x \notin DOMAIN <<>>
  OBVIOUS
<1> QED BY <1>1 DEF RowsOK

LEMMA StartedIs ==
  ASSUME Inv, NEW table, NEW routes, NEW events, NEW m, NEW u,
         table = nodeRows \/ table = <<>>,
         routes = routeRows \/ routes = <<>>,
         events = LoadRecentEvents(eventRows) \/ events = <<>>,
         m \in Rebuilt(LoadNodes(Empty, table)),
         u = LoadEvents(LoadTraceroutes(m, routes), events)
  PROVE  /\ events \in Seq(Events)
         /\ u.log = events /\ u.events = LastN(events, RingSize)
         /\ u.traceroutes = LastN(routes, MaxTraceroutes)
         /\ DOMAIN u.nodes = DOMAIN table
         /\ \A n \in DOMAIN table :
              /\ DOMAIN u.nodes[n] = NodeFields
              /\ \A f \in RowFields : u.nodes[n][f] = table[n][f]
              /\ u.nodes[n].byType \in [Types -> Nat]
              /\ \A t \in Types : u.nodes[n].byType[t] = CountIn(events, n, t)
         /\ MemOK(u, now, observed)
<1>1. RowsOK(table, now, observed)
  BY RowsEmpty DEF Inv
<1>2. PICK l : l = LoadNodes(Empty, table)
  OBVIOUS
<1>3. /\ DOMAIN l = MemFields /\ l.my = None /\ l.log = <<>> /\ l.events = <<>> /\ l.traceroutes = <<>>
      /\ DOMAIN l.nodes = DOMAIN table
      /\ \A n \in DOMAIN table :
           /\ DOMAIN l.nodes[n] = NodeFields
           /\ l.nodes[n].byType = [t \in Types |-> 0]
           /\ \A f \in RowFields : l.nodes[n][f] = table[n][f]
  BY <1>1, <1>2, LoadNodesIs DEF RowsOK
<1>4. ASSUME NEW n \in DOMAIN l.nodes PROVE NodeOK(n, l.nodes[n], now, observed)
  <2>1. n \in DOMAIN table /\ NodeOK(n, table[n], now, observed)
    BY <1>1, <1>3 DEF RowsOK
  <2>2. /\ l.nodes[n].heard = table[n].heard
        /\ l.nodes[n].neighbors = table[n].neighbors
        /\ l.nodes[n].neighborsAt = table[n].neighborsAt
    BY <1>3, <2>1 DEF RowFields
  <2> QED BY <2>1, <2>2 DEF NodeOK
<1>5. Kept(l, m, {"links"}) /\ LinksOK(m, observed)
  BY <1>2, <1>3, <1>4, RebuiltIs
<1>6. /\ DOMAIN m = MemFields /\ m.my = None /\ m.log = <<>> /\ m.events = <<>> /\ m.traceroutes = <<>>
      /\ m.nodes = l.nodes
  BY <1>3, <1>5 DEF Kept, MemFields
<1>7. PICK b : b = LoadTraceroutes(m, routes)
  OBVIOUS
<1>8. b = [m EXCEPT !.traceroutes = LastN(m.traceroutes \o routes, MaxTraceroutes)]
  BY <1>7 DEF LoadTraceroutes
<1>9. m.traceroutes \o routes = routes
  <2>1. PICK s \in Seq(Nat) : s = routes
    <3>1. CASE routes = <<>>
      <4>1. <<>> \in Seq(Nat)
        OBVIOUS
      <4> QED BY <3>1, <4>1, Zenon
    <3>2. CASE routes = routeRows
      BY <3>2 DEF Inv, RouteOK, Rising
    <3> QED BY <3>1, <3>2
  <2>2. <<>> \o s = s
    OBVIOUS
  <2> QED BY <1>6, <2>1, <2>2
<1>10. /\ DOMAIN b = MemFields /\ b.my = None /\ b.log = <<>> /\ b.events = <<>>
       /\ b.traceroutes = LastN(routes, MaxTraceroutes)
       /\ b.nodes = l.nodes /\ b.links = m.links
  BY <1>6, <1>8, <1>9 DEF MemFields
<1>11. LinksOK(b, observed)
  BY <1>5, <1>10 DEF LinksOK
<1>12. events \in Seq(Events) /\ \A i \in 1 .. Len(events) : Evidence(events[i]) \subseteq observed
  <2>1. CASE events = <<>>
    <3>1. events \in Seq(Events) /\ Len(events) = 0
      BY <2>1
    <3>2. \A i : i \notin 1 .. Len(events)
      BY <3>1
    <3> QED BY <3>1, <3>2
  <2>2. CASE events = LoadRecentEvents(eventRows)
    <3>1. /\ eventRows \in Seq(Events)
          /\ \A i \in 1 .. Len(eventRows) : Evidence(eventRows[i]) \subseteq observed
      BY DEF Inv, EventsOK
    <3>2. PICK table1 \in Seq(Events) : table1 = eventRows
      BY <3>1
    <3>3. /\ events \in Seq(Events)
          /\ \A i \in DOMAIN events : \E j \in DOMAIN table1 : events[i] = table1[j]
      BY <2>2, <3>2, RecentIs
    <3>4. ASSUME NEW i \in 1 .. Len(events) PROVE Evidence(events[i]) \subseteq observed
      <4>1. PICK j \in 1 .. Len(table1) : events[i] = table1[j]
        BY <3>3
      <4> QED BY <3>1, <3>2, <4>1
    <3> QED BY <3>3, <3>4
  <2> QED BY <2>1, <2>2
<1>13. Loading(b, b, events, 0, observed)
  <2>1. b.log \in Seq(Events) /\ Len(b.log) = 0 /\ b.events = LastN(b.log, RingSize)
    BY <1>10, LastNone
  <2>2. \A n, t : CountIn(b.log, n, t) = 0
    BY <1>10, CountNone
  <2>3. ASSUME NEW n \in DOMAIN b.nodes
        PROVE  /\ DOMAIN b.nodes[n] = NodeFields
               /\ b.nodes[n].byType \in [Types -> Nat]
               /\ \A t \in Types : b.nodes[n].byType[t] = CountIn(b.log, n, t)
    BY <1>3, <1>10, <2>2
  <2>4. \A j \in 1 .. 0 : b.log[j] = events[j]
    OBVIOUS
  <2> QED BY <1>10, <1>11, <2>1, <2>3, <2>4 DEF Loading
<1>14. /\ Loading(u, b, events, Len(events), observed)
       /\ u.log = events
  BY <1>7, <1>12, <1>13, LoadingAll
<1>19. u.events = LastN(events, RingSize)
  BY <1>14 DEF Loading
<1>15. /\ DOMAIN u = MemFields /\ u.my \in {None, Self} /\ u.traceroutes = b.traceroutes
       /\ DOMAIN u.nodes = DOMAIN table
       /\ LinksOK(u, observed)
  BY <1>3, <1>10, <1>14 DEF Loading
<1>16. ASSUME NEW n \in DOMAIN table
       PROVE  /\ DOMAIN u.nodes[n] = NodeFields
              /\ \A f \in RowFields : u.nodes[n][f] = table[n][f]
              /\ u.nodes[n].byType \in [Types -> Nat]
              /\ \A t \in Types : u.nodes[n].byType[t] = CountIn(events, n, t)
  <2>1. n \in DOMAIN u.nodes
    BY <1>15
  <2>2. /\ DOMAIN u.nodes[n] = NodeFields
        /\ \A f \in RowFields : u.nodes[n][f] = b.nodes[n][f]
        /\ u.nodes[n].byType \in [Types -> Nat]
        /\ \A t \in Types : u.nodes[n].byType[t] = CountIn(u.log, n, t)
    BY <1>14, <2>1 DEF Loading
  <2> QED BY <1>3, <1>10, <1>14, <2>2
<1>17. ASSUME NEW n \in DOMAIN table PROVE NodeOK(n, u.nodes[n], now, observed)
  <2>1. /\ u.nodes[n].heard = table[n].heard
        /\ u.nodes[n].neighbors = table[n].neighbors
        /\ u.nodes[n].neighborsAt = table[n].neighborsAt
    BY <1>16 DEF RowFields
  <2> QED BY <1>1, <2>1 DEF RowsOK, NodeOK
<1>18. MemOK(u, now, observed)
  BY <1>1, <1>15, <1>16, <1>17 DEF MemOK, RowsOK
<1> QED BY <1>10, <1>12, <1>14, <1>15, <1>16, <1>18, <1>19

LEMMA RestartKeeps == ASSUME Inv, Restart PROVE Inv'
<1>1. PICK table, routes, events, m :
        /\ table = nodeRows \/ table = <<>>
        /\ routes = routeRows \/ routes = <<>>
        /\ events = LoadRecentEvents(eventRows) \/ events = <<>>
        /\ m \in Rebuilt(LoadNodes(Empty, table))
        /\ mem' = LoadEvents(LoadTraceroutes(m, routes), events)
        /\ gaps' = (DOMAIN nodeRows \cup {eventRows[i].from : i \in DOMAIN eventRows})
                     \ DOMAIN table
  <2>1. PICK fails \in SUBSET {"nodes", "routes", "events"} :
          LET table  == IF "nodes" \in fails THEN <<>> ELSE nodeRows
              routes == IF "routes" \in fails THEN <<>> ELSE routeRows
              events == IF "events" \in fails THEN <<>> ELSE LoadRecentEvents(eventRows)
          IN  /\ \E m \in Rebuilt(LoadNodes(Empty, table)) :
                   mem' = LoadEvents(LoadTraceroutes(m, routes), events)
              /\ gaps' = (DOMAIN nodeRows \cup {eventRows[i].from : i \in DOMAIN eventRows})
                           \ DOMAIN table
    BY DEF Restart
  <2> DEFINE table  == IF "nodes" \in fails THEN <<>> ELSE nodeRows
             routes == IF "routes" \in fails THEN <<>> ELSE routeRows
             events == IF "events" \in fails THEN <<>> ELSE LoadRecentEvents(eventRows)
  <2>2. PICK m \in Rebuilt(LoadNodes(Empty, table)) :
          mem' = LoadEvents(LoadTraceroutes(m, routes), events)
    BY <2>1
  <2>3. gaps' = (DOMAIN nodeRows \cup {eventRows[i].from : i \in DOMAIN eventRows})
                  \ DOMAIN table
    BY <2>1
  <2>4. /\ table = nodeRows \/ table = <<>>
        /\ routes = routeRows \/ routes = <<>>
        /\ events = LoadRecentEvents(eventRows) \/ events = <<>>
    OBVIOUS
  <2> HIDE DEF table, routes, events
  <2> QED BY <2>2, <2>3, <2>4
<1>2. /\ todo' = <<>> /\ now' = now /\ restarts' = restarts + 1 /\ observed' = observed
      /\ nodeRows' = nodeRows /\ eventRows' = eventRows /\ routeRows' = routeRows
  BY DEF Restart, rows
<1>3. PICK u : u = mem'
  OBVIOUS
<1>4. PICK g : g = gaps'
  OBVIOUS
<1>5. /\ events \in Seq(Events)
      /\ u.log = events /\ u.events = LastN(events, RingSize)
      /\ u.traceroutes = LastN(routes, MaxTraceroutes)
      /\ DOMAIN u.nodes = DOMAIN table
      /\ \A n \in DOMAIN table :
           /\ DOMAIN u.nodes[n] = NodeFields
           /\ \A f \in RowFields : u.nodes[n][f] = table[n][f]
           /\ u.nodes[n].byType \in [Types -> Nat]
           /\ \A t \in Types : u.nodes[n].byType[t] = CountIn(events, n, t)
      /\ MemOK(u, now, observed)
  BY <1>1, <1>3, StartedIs
<1>6. \A n \in DOMAIN table \cap DOMAIN nodeRows : table = nodeRows
  <2>1. \A x : x \notin DOMAIN <<>>
    OBVIOUS
  <2> QED BY <1>1, <2>1
<1>7. Faithful(u, nodeRows)
  BY <1>5, <1>6 DEF Faithful
<1>8. Remembered(u, nodeRows, g)
  <2>1. ASSUME NEW n \in DOMAIN nodeRows \ g
        PROVE  n \in DOMAIN u.nodes /\ DOMAIN nodeRows[n].attrs \subseteq DOMAIN u.nodes[n].attrs
    <3>1. n \in DOMAIN table
      BY <1>1, <1>4
    <3>2. table = nodeRows
      BY <1>6, <3>1
    <3> QED BY <1>5, <3>1, <3>2 DEF RowFields
  <2> QED BY <2>1 DEF Remembered
<1>9. CountOK(u, g)
  <2>1. ASSUME NEW n \in Nodes, NEW t \in Types, n \notin DOMAIN table, n \notin g
        PROVE  CountIn(events, n, t) = 0
    <3>1. \A i \in DOMAIN eventRows : eventRows[i].from # n
      BY <1>1, <1>4, <2>1
    <3>2. \A i \in DOMAIN events : events[i].from # n
      <4>1. \A x : x \notin DOMAIN <<>>
        OBVIOUS
      <4>2. eventRows \in Seq(Events)
        BY DEF Inv, EventsOK
      <4> QED BY <1>1, <3>1, <4>1, <4>2, RecentIs
    <3> QED BY <3>2, CountZero
  <2>2. ASSUME NEW n \in Nodes, NEW t \in Types
        PROVE  /\ n \in DOMAIN u.nodes => u.nodes[n].byType[t] <= CountIn(u.log, n, t)
               /\ n \in DOMAIN u.nodes /\ n \notin g => u.nodes[n].byType[t] = CountIn(u.log, n, t)
               /\ n \notin DOMAIN u.nodes /\ n \notin g => CountIn(u.log, n, t) = 0
    <3>1. PICK c \in Nat : c = CountIn(events, n, t)
      BY <1>5, CountNat
    <3> QED BY <1>5, <2>1, <3>1
  <2> QED BY <1>5, <2>2 DEF CountOK
<1>10. RouteOK(u.traceroutes, routeRows, now)
  <2>1. Rising(routeRows, now) /\ now \in Nat
    BY DEF Inv, RouteOK, ClockOK
  <2>2. Rising(routes, now) /\ Covers(routes, routeRows)
    <3>1. CASE routes = routeRows
      BY <2>1, <3>1 DEF Covers
    <3>2. CASE routes = <<>>
      <4>1. routes \in Seq(Nat) /\ Len(routes) = 0
        BY <3>2
      <4>2. \A i : i \notin 1 .. Len(routes)
        BY <4>1
      <4> QED BY <4>1, <4>2 DEF Rising, Covers
    <3> QED BY <1>1, <3>1, <3>2
  <2>3. MaxTraceroutes \in Nat \ {0}
    BY TableAssumption
  <2>4. Rising(LastN(routes, MaxTraceroutes), now) /\ Covers(LastN(routes, MaxTraceroutes), routeRows)
    BY <2>1, <2>2, <2>3, RisingLast
  <2> QED BY <1>5, <2>1, <2>4 DEF RouteOK
<1>11. InvButTodo'
  BY <1>2, <1>3, <1>4, <1>5, <1>7, <1>8, <1>9, <1>10 DEF Inv, InvButTodo, ClockOK
<1>12. TodoOK'
  BY <1>2 DEF TodoOK
<1> QED BY <1>11, <1>12, InvIsNext

----------------------------------------------------------------------------
LEMMA InvInit == Init => Inv
<1> SUFFICES ASSUME Init PROVE Inv
  OBVIOUS
<1>1. /\ mem = Empty /\ todo = <<>> /\ nodeRows = <<>> /\ eventRows = <<>> /\ routeRows = <<>>
      /\ now = 1 /\ restarts = 0
  BY DEF Init
<1>2. /\ DOMAIN mem = MemFields /\ mem.my = None /\ mem.nodes = <<>> /\ mem.links = <<>>
      /\ mem.log = <<>> /\ mem.events = <<>> /\ mem.traceroutes = <<>>
  BY <1>1 DEF Empty, MemFields
<1>3. DOMAIN mem.nodes = {} /\ DOMAIN mem.links = {}
  BY <1>2
<1>4. \A i : i \notin 1 .. 0
  OBVIOUS
<1>5. MemOK(mem, now, observed)
  BY <1>2, <1>3 DEF MemOK, LinksOK
<1>6. RowsOK(nodeRows, now, observed)
  BY <1>1, RowsEmpty
<1>7. \A x : x \notin DOMAIN nodeRows
  BY <1>1
<1>8. Faithful(mem, nodeRows) /\ Remembered(mem, nodeRows, gaps)
  BY <1>7 DEF Faithful, Remembered
<1>9. CountOK(mem, gaps)
  <2>1. mem.log \in Seq(Events) /\ mem.events = LastN(mem.log, RingSize)
    BY <1>2, LastNone
  <2>2. \A n, t : CountIn(mem.log, n, t) = 0
    BY <1>2, CountNone
  <2> QED BY <1>3, <2>1, <2>2 DEF CountOK
<1>10. RouteOK(mem.traceroutes, routeRows, now)
  <2>1. \A s : s = <<>> => s \in Seq(Nat) /\ Len(s) = 0
    OBVIOUS
  <2>2. mem.traceroutes \in Seq(Nat) /\ Len(mem.traceroutes) = 0
    BY <1>2
  <2>3. routeRows \in Seq(Nat) /\ Len(routeRows) = 0
    BY <1>1
  <2> QED BY <1>4, <2>2, <2>3 DEF RouteOK, Rising, Covers
<1>11. EventsOK(eventRows, observed) /\ TodoOK /\ ClockOK
  BY <1>1 DEF EventsOK, TodoOK, ClockOK
<1> QED BY <1>5, <1>6, <1>8, <1>9, <1>10, <1>11 DEF Inv

LEMMA InvStep == Inv /\ [Next]_vars => Inv'
<1> SUFFICES ASSUME Inv, [Next]_vars PROVE Inv'
  OBVIOUS
<1>1. ASSUME NEW p \in Packets, Silent(p) PROVE Inv'
  BY <1>1, SilentKeeps
<1>2. ASSUME NEW p \in Packets, Receive(p) PROVE Inv'
  BY <1>2, ReceiveKeeps
<1>3. CASE InsertEvent
  BY <1>3, InsertEventKeeps
<1>4. CASE SaveNode
  BY <1>4, SaveNodeKeeps
<1>5. CASE InsertTraceroute
  BY <1>5, InsertTracerouteKeeps
<1>6. CASE SwitchPhase
  BY <1>6, SwitchPhaseKeeps
<1>7. CASE Tick
  BY <1>7, TickKeeps
<1>8. CASE Restart
  BY <1>8, RestartKeeps
<1>9. CASE UNCHANGED vars
  BY <1>9, StutterKeeps
<1> QED BY <1>1, <1>2, <1>3, <1>4, <1>5, <1>6, <1>7, <1>8, <1>9 DEF Next

(* Whatever nodes, packets, faults and restarts: the inductive invariant    *)
(* holds.                                                                   *)
THEOREM Invariant == Spec => []Inv
BY InvInit, InvStep, PTL DEF Spec

----------------------------------------------------------------------------
(* No link is made up, live, replayed or rebuilt from a neighbour table     *)
(* (store.go:1022-1061, 1249-1325, 1437-1484).                              *)
THEOREM LinksCorrect == Spec => []LinksAreObserved
<1>1. Inv => LinksAreObserved
  BY DEF Inv, MemOK, LinksOK, Told, LinksAreObserved
<1> QED BY <1>1, Invariant, PTL

(* For every size of the ring: it holds the newest packets of those the     *)
(* per-node counters counted since the start, and the counters are exact,   *)
(* whatever was lost between two writes or failed to load, gaps excepted    *)
(* (store.go:702-708, 1196-1206, 1500-1540).                                *)
THEOREM CountsCorrect == Spec => []CountsMatchLog
<1>1. Inv => CountsMatchLog
  <2> SUFFICES ASSUME Inv, NEW n \in Nodes, NEW t \in Types
               PROVE  /\ mem.events = LastN(mem.log, RingSize)
                      /\ n \in Known => mem.nodes[n].byType[t] <= Counted(n, t)
                      /\ n \notin gaps =>
                           Counted(n, t) = IF n \in Known THEN mem.nodes[n].byType[t] ELSE 0
    <3>1. Inv => mem.events = LastN(mem.log, RingSize)
      BY DEF Inv, CountOK
    <3> QED BY <3>1 DEF CountsMatchLog
  <2>1. Counted(n, t) = CountIn(mem.log, n, t)
    BY DEF Counted, CountIn
  <2>2. CountOK(mem, gaps)
    BY DEF Inv
  <2> QED BY <2>1, <2>2 DEF CountOK, Known
<1> QED BY <1>1, Invariant, PTL

(* A row as fresh as the node is the node (db.go:376-485).                  *)
THEOREM RowsCorrect == Spec => []RowsAreFaithful
<1>1. Inv => RowsAreFaithful
  BY DEF Inv, Faithful, RowsAreFaithful, Known
<1> QED BY <1>1, Invariant, PTL

(* The traceroutes in memory are the newest of the stored ones, in order,   *)
(* also while one is in memory and not in its table yet (store.go:980-983,  *)
(* 1488-1495).                                                              *)
THEOREM TraceroutesCorrect == Spec => []TraceroutesAreNewest
<1>1. Inv => TraceroutesAreNewest
  <2> SUFFICES ASSUME Inv PROVE TraceroutesAreNewest
    OBVIOUS
  <2>1. RouteOK(mem.traceroutes, routeRows, now)
    BY DEF Inv
  <2>2. PICK held \in Seq(Nat), routes \in Seq(Nat) : held = mem.traceroutes /\ routes = routeRows
    BY <2>1 DEF RouteOK, Rising
  <2>3. DOMAIN held = 1 .. Len(held) /\ DOMAIN routes = 1 .. Len(routes)
    OBVIOUS
  <2>4. /\ \A i, j \in 1 .. Len(held) : i < j => held[i] < held[j]
        /\ \A i \in 1 .. Len(held), j \in 1 .. Len(routes) :
             held[i] <= routes[j] => \E k \in 1 .. Len(held) : held[k] = routes[j]
    BY <2>1, <2>2 DEF RouteOK, Rising, Covers
  <2> QED BY <2>2, <2>3, <2>4 DEF TraceroutesAreNewest
<1> QED BY <1>1, Invariant, PTL

(* No write drops an attribute a row has, unless the start did not find the *)
(* row: the memory knows at least what the row knows (db.go:376-410,        *)
(* app.go:279-287).                                                         *)
THEOREM NothingLost == Spec => NothingForgotten
<1>1. Inv /\ [Next]_vars =>
        (\A n \in DOMAIN nodeRows \ gaps :
           DOMAIN nodeRows[n].attrs \subseteq DOMAIN nodeRows'[n].attrs)
  <2> SUFFICES ASSUME Inv, [Next]_vars, NEW n \in DOMAIN nodeRows \ gaps
               PROVE  DOMAIN nodeRows[n].attrs \subseteq DOMAIN nodeRows'[n].attrs
    OBVIOUS
  <2>1. CASE nodeRows' = nodeRows
    BY <2>1
  <2>2. CASE SaveNode /\ nodeRows' # nodeRows
    <3>1. nodeRows' = Put(nodeRows, todo[1].e.from, Row(mem.nodes[todo[1].e.from]))
      BY <2>2 DEF SaveNode, Written
    <3>2. CASE n # todo[1].e.from
      BY <3>1, <3>2 DEF Put
    <3>3. CASE n = todo[1].e.from
      <4>1. nodeRows'[n] = Row(mem.nodes[n])
        BY <3>1, <3>3 DEF Put
      <4>2. nodeRows'[n].attrs = mem.nodes[n].attrs
        BY <4>1, RowIs DEF RowFields
      <4>3. Remembered(mem, nodeRows, gaps)
        BY DEF Inv
      <4> QED BY <4>2, <4>3 DEF Remembered
    <3> QED BY <3>2, <3>3
  <2>3. nodeRows' = nodeRows \/ SaveNode
    BY DEF Next, Silent, Receive, Arrival, InsertEvent, InsertTraceroute, SwitchPhase, Tick,
           Restart, vars, rows
  <2> QED BY <2>1, <2>2, <2>3
<1> QED BY <1>1, Invariant, PTL DEF Spec, NothingForgotten

(* Once the device's own metadata told its hardware model, no later packet  *)
(* of the run replaces it, whatever NodeInfo says (store.go:846-856).       *)
THEOREM MetadataCorrect == Spec => MetadataWins
<1>1. Inv /\ [Next]_vars => (restarts' = restarts /\ OfDevice(mem.local) => OfDevice(mem'.local))
  <2> SUFFICES ASSUME Inv, [Next]_vars, restarts' = restarts, OfDevice(mem.local)
               PROVE  OfDevice(mem'.local)
    OBVIOUS
  <2>1. Shaped(mem) /\ LinksShaped(mem) /\ mem.my \in {None, Self} /\ now \in Nat
    BY DEF Inv, MemOK, LinksOK, Shaped, LinksShaped, ClockOK
  <2>2. ASSUME NEW p \in Packets, Silent(p) PROVE OfDevice(mem'.local)
    <3>1. PICK e : e = Over([at |-> now], p) /\ mem' = updateNode(mem, e)
      BY <2>2 DEF Silent
    <3>2. EventFact(e)
      BY <2>1, <3>1, StampIs
    <3> QED BY <2>1, <3>1, <3>2, UpdatedIs DEF Updated
  <2>3. ASSUME NEW p \in Packets, Receive(p) PROVE OfDevice(mem'.local)
    <3>1. PICK e : e = Over([at |-> now], p) /\ mem' = AddEvent(mem, e)
      BY <2>3 DEF Receive
    <3>2. EventFact(e)
      BY <2>1, <3>1, StampIs
    <3> QED BY <2>1, <3>1, <3>2, AddedIs DEF Added
  <2>4. ~ Restart
    BY DEF Restart, Inv, ClockOK
  <2>5. mem' = mem \/ \E p \in Packets : Silent(p) \/ Receive(p)
    BY <2>4 DEF Next, InsertEvent, SaveNode, InsertTraceroute, Written, SwitchPhase, Tick, vars
  <2> QED BY <2>2, <2>3, <2>5
<1> QED BY <1>1, Invariant, PTL DEF Spec, MetadataWins
----------------------------------------------------------------------------
(* Sums.  The fold over a set is a recursive function on its subsets: it    *)
(* exists, and the order in which it takes the elements does not matter.    *)

(* The subsets of a finite set, from the smaller to the larger: a set of    *)
(* them that has each one whose next smaller ones it has, has all.          *)
LEMMA AllSubsets ==
  ASSUME NEW S, IsFiniteSet(S), NEW G,
         \A s \in SUBSET S : (\A x \in s : s \ {x} \in G) => s \in G
  PROVE  \A s \in SUBSET S : s \in G
<1> DEFINE bad   == {s \in SUBSET S : s \notin G}
           sizes == {n \in Nat : \E s \in bad : Cardinality(s) = n}
<1> SUFFICES ASSUME bad # {} PROVE FALSE
  OBVIOUS
<1>1. \A s \in SUBSET S : IsFiniteSet(s) /\ Cardinality(s) \in Nat
  BY FS_Subset, FS_CardinalityType
<1>2. sizes \subseteq Nat /\ sizes # {}
  BY <1>1
<1>3. \A n \in sizes : \E s \in bad : Cardinality(s) = n
  OBVIOUS
<1>4. \A s \in bad : Cardinality(s) \in sizes
  BY <1>1
<1>5. \A s \in bad : s \in SUBSET S /\ s \notin G
  OBVIOUS
<1>6. \A s \in SUBSET S : s \notin G => s \in bad
  OBVIOUS
<1> HIDE DEF bad, sizes
<1>7. PICK n \in sizes : \A k \in sizes : n <= k
  BY <1>2, LeastElement
<1>8. PICK s \in bad : Cardinality(s) = n
  BY <1>3
<1>9. ASSUME NEW x \in s PROVE s \ {x} \in G
  <2>1. IsFiniteSet(s) /\ n \in Nat
    BY <1>1, <1>5, <1>8
  <2>2. Cardinality(s \ {x}) = n - 1
    BY <2>1, <1>8, FS_RemoveElement
  <2>3. ~ (n <= n - 1)
    BY <2>1
  <2>4. s \ {x} \in SUBSET S
    BY <1>5
  <2> QED BY <1>4, <1>6, <1>7, <2>2, <2>3, <2>4
<1> QED BY <1>5, <1>9

(* The sums a fold over the subsets of S goes through.                      *)
One(s) == CHOOSE x \in s : TRUE

Sums(g, f, S) ==
  g = [s \in SUBSET S |-> IF s = {} THEN 0 ELSE f[One(s)] + g[s \ {One(s)}]]

LEMMA OneIs == \A s : s # {} => One(s) \in s
BY DEF One

LEMMA SumIs ==
  ASSUME NEW f, NEW S
  PROVE  SumFunctionOnSet(f, S) = (CHOOSE g : Sums(g, f, S))[S]
BY DEF SumFunctionOnSet, FoldFunctionOnSet, MapThenFoldSet, Sums, One

LEMMA SumsAt ==
  ASSUME NEW g, NEW f, NEW S, Sums(g, f, S), NEW s \in SUBSET S
  PROVE  /\ s = {} => g[s] = 0
         /\ s # {} => One(s) \in s /\ g[s] = f[One(s)] + g[s \ {One(s)}]
<1>1. s # {} => One(s) \in s
  BY OneIs
<1> QED BY <1>1 DEF Sums

(* Two such functions agree where what they sum does.                       *)
LEMMA SumsAgree ==
  ASSUME NEW g, NEW f, NEW S, Sums(g, f, S), NEW h, NEW e, NEW T, Sums(h, e, T),
         NEW U, IsFiniteSet(U), U \subseteq S, U \subseteq T, \A x \in U : f[x] = e[x]
  PROVE  g[U] = h[U]
<1> DEFINE G == {s \in SUBSET U : g[s] = h[s]}
<1>1. ASSUME NEW s \in SUBSET U, \A x \in s : s \ {x} \in G
      PROVE  s \in G
  <2>1. s \in SUBSET S /\ s \in SUBSET T
    OBVIOUS
  <2>2. CASE s = {}
    BY <2>1, <2>2, SumsAt
  <2>3. CASE s # {}
    <3>1. One(s) \in s /\ g[s] = f[One(s)] + g[s \ {One(s)}]
      BY <2>1, <2>3, SumsAt
    <3>2. h[s] = e[One(s)] + h[s \ {One(s)}]
      <4>1. s \in SUBSET T
        BY <2>1
      <4> QED BY <4>1, <2>3, SumsAt
    <3>3. s \ {One(s)} \in G /\ f[One(s)] = e[One(s)]
      BY <1>1, <3>1
    <3> QED BY <3>1, <3>2, <3>3
  <2> QED BY <2>2, <2>3
<1>2. \A s \in G : g[s] = h[s]
  OBVIOUS
<1> HIDE DEF G
<1>3. \A s \in SUBSET U : s \in G
  BY <1>1, AllSubsets
<1>4. U \in SUBSET U
  OBVIOUS
<1> QED BY <1>2, <1>3, <1>4

LEMMA SumsPart ==
  ASSUME NEW g, NEW f, NEW S, Sums(g, f, S), NEW T \in SUBSET S
  PROVE  Sums([s \in SUBSET T |-> g[s]], f, T)
<1> DEFINE h == [s \in SUBSET T |-> g[s]]
<1>1. ASSUME NEW s \in SUBSET T
      PROVE  h[s] = IF s = {} THEN 0 ELSE f[One(s)] + h[s \ {One(s)}]
  <2>1. s \in SUBSET S /\ s \ {One(s)} \in SUBSET T
    OBVIOUS
  <2>2. h[s] = g[s] /\ h[s \ {One(s)}] = g[s \ {One(s)}]
    BY <2>1
  <2> QED BY <2>1, <2>2, SumsAt
<1>2. h = [s \in SUBSET T |-> h[s]]
  OBVIOUS
<1> HIDE DEF h
<1>3. h = [s \in SUBSET T |-> IF s = {} THEN 0 ELSE f[One(s)] + h[s \ {One(s)}]]
  BY <1>1, <1>2
<1>4. Sums(h, f, T)
  BY <1>3 DEF Sums
<1> QED BY <1>4 DEF h

LEMMA SumsExist ==
  ASSUME NEW f, NEW S, IsFiniteSet(S) PROVE \E g : Sums(g, f, S)
<1> DEFINE G == {s \in SUBSET S : \E g : Sums(g, f, s)}
           sum(t) == (CHOOSE g : Sums(g, f, t))[t]
<1>1. \A s \in G : s \in SUBSET S /\ \E g : Sums(g, f, s)
  OBVIOUS
<1>2. \A s \in SUBSET S : (\E g : Sums(g, f, s)) => s \in G
  OBVIOUS
<1> HIDE DEF G
<1>3. ASSUME NEW s \in SUBSET S, \A x \in s : s \ {x} \in G
      PROVE  \E g : Sums(g, f, s)
  <2>1. ASSUME NEW t \in SUBSET s, t # s PROVE \E g : Sums(g, f, t)
    <3>1. PICK x \in s : x \notin t
      BY <2>1
    <3>2. PICK g : Sums(g, f, s \ {x})
      BY <1>1, <1>3
    <3>3. t \in SUBSET (s \ {x})
      BY <3>1
    <3> QED BY <3>2, <3>3, SumsPart
  <2>2. ASSUME NEW t \in SUBSET s, t # s
        PROVE  sum(t) = IF t = {} THEN 0 ELSE f[One(t)] + sum(t \ {One(t)})
    <3>1. PICK g : g = CHOOSE h : Sums(h, f, t)
      OBVIOUS
    <3>2. Sums(g, f, t) /\ sum(t) = g[t]
      BY <2>1, <2>2, <3>1
    <3>3. t \in SUBSET t
      OBVIOUS
    <3>4. CASE t = {}
      BY <3>2, <3>3, <3>4, SumsAt
    <3>5. CASE t # {}
      <4>1. PICK u : u = t \ {One(t)}
        OBVIOUS
      <4>2. One(t) \in t /\ g[t] = f[One(t)] + g[u]
        BY <3>2, <3>3, <3>5, <4>1, SumsAt
      <4>3. u \in SUBSET s /\ u # s /\ u \subseteq t
        BY <4>1, <4>2, <2>2
      <4>4. PICK h : h = CHOOSE k : Sums(k, f, u)
        OBVIOUS
      <4>5. Sums(h, f, u) /\ sum(u) = h[u]
        BY <2>1, <4>3, <4>4
      <4>6. IsFiniteSet(u)
        BY <4>3, FS_Subset
      <4>7. g[u] = h[u]
        BY <3>2, <4>3, <4>5, <4>6, SumsAgree
      <4> QED BY <3>2, <3>5, <4>1, <4>2, <4>5, <4>7
    <3> QED BY <3>4, <3>5
  <2> DEFINE rest == s \ {One(s)}
             g == [t \in SUBSET s |-> IF t = {} THEN 0
                                      ELSE IF t = s THEN f[One(s)] + sum(rest) ELSE sum(t)]
  <2>3. s # {} => One(s) \in s /\ rest # s
    BY OneIs
  <2>4. ASSUME NEW t \in SUBSET s, t # s PROVE g[t] = sum(t)
    BY <2>2, <2>4
  <2>5. s # {} => g[s] = f[One(s)] + sum(rest)
    OBVIOUS
  <2>6. {} \in SUBSET s /\ g[{}] = 0
    OBVIOUS
  <2>7. g = [t \in SUBSET s |-> g[t]]
    OBVIOUS
  <2> HIDE DEF g, sum
  <2>8. ASSUME NEW t \in SUBSET s
        PROVE  g[t] = IF t = {} THEN 0 ELSE f[One(t)] + g[t \ {One(t)}]
    <3>1. CASE t = {}
      BY <2>6, <3>1
    <3>2. CASE t # {} /\ t = s
      BY <2>3, <2>4, <2>5, <3>2
    <3>3. CASE t # {} /\ t # s
      <4>1. t \ {One(t)} \in SUBSET s /\ t \ {One(t)} # s
        BY <3>3
      <4> QED BY <2>2, <2>4, <3>3, <4>1
    <3> QED BY <3>1, <3>2, <3>3
  <2>9. g = [t \in SUBSET s |-> IF t = {} THEN 0 ELSE f[One(t)] + g[t \ {One(t)}]]
    BY <2>7, <2>8
  <2> QED BY <2>9 DEF Sums
<1>4. \A s \in SUBSET S : s \in G
  BY <1>2, <1>3, AllSubsets
<1> QED BY <1>1, <1>4

(* Sums of natural numbers do not depend on the order.                      *)
LEMMA SumsNat ==
  ASSUME NEW g, NEW f, NEW S, IsFiniteSet(S), Sums(g, f, S), \A x \in S : f[x] \in Nat
  PROVE  \A s \in SUBSET S : g[s] \in Nat
<1> DEFINE G == {s \in SUBSET S : g[s] \in Nat}
<1>1. \A s \in G : g[s] \in Nat
  OBVIOUS
<1>2. \A s \in SUBSET S : g[s] \in Nat => s \in G
  OBVIOUS
<1> HIDE DEF G
<1>3. ASSUME NEW s \in SUBSET S, \A x \in s : s \ {x} \in G
      PROVE  s \in G
  <2>1. CASE s = {}
    <3>1. g[s] = 0
      BY <2>1, SumsAt
    <3> QED BY <1>2, <3>1
  <2>2. CASE s # {}
    <3>1. One(s) \in s /\ g[s] = f[One(s)] + g[s \ {One(s)}]
      BY <2>2, SumsAt
    <3>2. g[s \ {One(s)}] \in Nat /\ f[One(s)] \in Nat
      BY <1>1, <1>3, <3>1
    <3> QED BY <1>2, <3>1, <3>2
  <2> QED BY <2>1, <2>2
<1> QED BY <1>1, <1>3, AllSubsets

AnyFirst(g, f, s) == \A y \in s : g[s] = f[y] + g[s \ {y}]

LEMMA SumsAny ==
  ASSUME NEW g, NEW f, NEW S, IsFiniteSet(S), Sums(g, f, S), \A x \in S : f[x] \in Nat
  PROVE  \A s \in SUBSET S : AnyFirst(g, f, s)
<1> DEFINE G == {s \in SUBSET S : AnyFirst(g, f, s)}
<1>1. \A s \in G : AnyFirst(g, f, s)
  OBVIOUS
<1>2. \A s \in SUBSET S : AnyFirst(g, f, s) => s \in G
  OBVIOUS
<1> HIDE DEF G
<1>3. ASSUME NEW s \in SUBSET S, \A x \in s : s \ {x} \in G
      PROVE  s \in G
  <2>1. CASE s = {}
    <3>1. AnyFirst(g, f, s)
      BY <2>1 DEF AnyFirst
    <3> QED BY <1>2, <3>1
  <2>2. CASE s # {}
    <3>1. PICK x : x = One(s)
      OBVIOUS
    <3>2. x \in s /\ g[s] = f[x] + g[s \ {x}]
      BY <2>2, <3>1, SumsAt
    <3>3. ASSUME NEW y \in s PROVE g[s] = f[y] + g[s \ {y}]
      <4>1. CASE y = x
        BY <3>2, <4>1
      <4>2. CASE y # x
        <5>1. PICK r : r = (s \ {x}) \ {y}
          OBVIOUS
        <5>2. g[s \ {x}] = f[y] + g[r]
          BY <1>1, <1>3, <3>2, <4>2, <5>1 DEF AnyFirst
        <5>3. x \in s \ {y} /\ (s \ {y}) \ {x} = r
          BY <3>2, <4>2, <5>1
        <5>4. g[s \ {y}] = f[x] + g[r]
          BY <1>1, <1>3, <5>3 DEF AnyFirst
        <5>5. r \in SUBSET S /\ x \in S
          BY <3>2, <5>1
        <5>6. f[x] \in Nat /\ f[y] \in Nat /\ g[r] \in Nat
          BY <5>5, SumsNat
        <5> QED BY <3>2, <5>2, <5>4, <5>6
      <4> QED BY <4>1, <4>2
    <3> QED BY <1>2, <3>3 DEF AnyFirst
  <2> QED BY <2>1, <2>2
<1> QED BY <1>1, <1>3, AllSubsets

(* What SumFunctionOnSet computes.                                          *)
LEMMA SumRest ==
  ASSUME NEW f, NEW S, IsFiniteSet(S), \A x \in S : f[x] \in Nat
  PROVE  /\ SumFunctionOnSet(f, S) \in Nat
         /\ S = {} => SumFunctionOnSet(f, S) = 0
         /\ \A y \in S : SumFunctionOnSet(f, S) = f[y] + SumFunctionOnSet(f, S \ {y})
<1>1. PICK g : g = CHOOSE h : Sums(h, f, S)
  OBVIOUS
<1>2. Sums(g, f, S)
  BY <1>1, SumsExist
<1>3. SumFunctionOnSet(f, S) = g[S] /\ S \in SUBSET S
  BY <1>1, SumIs
<1>4. SumFunctionOnSet(f, S) \in Nat
  BY <1>2, <1>3, SumsNat
<1>5. S = {} => SumFunctionOnSet(f, S) = 0
  BY <1>2, <1>3, SumsAt
<1>7. \A s \in SUBSET S : AnyFirst(g, f, s)
  BY <1>2, SumsAny
<1>6. ASSUME NEW y \in S
      PROVE  SumFunctionOnSet(f, S) = f[y] + SumFunctionOnSet(f, S \ {y})
  <2>1. PICK T : T = S \ {y}
    OBVIOUS
  <2>2. IsFiniteSet(T) /\ T \subseteq S
    BY <2>1, FS_Subset
  <2>3. PICK h : h = CHOOSE k : Sums(k, f, T)
    OBVIOUS
  <2>4. Sums(h, f, T)
    BY <2>2, <2>3, SumsExist
  <2>5. SumFunctionOnSet(f, T) = h[T]
    BY <2>3, SumIs
  <2>6. g[T] = h[T]
    BY <1>2, <2>2, <2>4, SumsAgree
  <2>8. g[S] = f[y] + g[T]
    BY <1>3, <1>7, <2>1 DEF AnyFirst
  <2> QED BY <1>3, <2>1, <2>5, <2>6, <2>8
<1> QED BY <1>4, <1>5, <1>6

LEMMA SumSame ==
  ASSUME NEW f, NEW e, NEW S, IsFiniteSet(S), \A x \in S : f[x] = e[x]
  PROVE  SumFunctionOnSet(f, S) = SumFunctionOnSet(e, S)
<1>1. PICK g : g = CHOOSE h : Sums(h, f, S)
  OBVIOUS
<1>2. PICK h : h = CHOOSE k : Sums(k, e, S)
  OBVIOUS
<1>3. Sums(g, f, S) /\ Sums(h, e, S)
  BY <1>1, <1>2, SumsExist
<1>4. SumFunctionOnSet(f, S) = g[S] /\ SumFunctionOnSet(e, S) = h[S]
  BY <1>1, <1>2, SumIs
<1> QED BY <1>3, <1>4, SumsAgree
----------------------------------------------------------------------------
(* Pairs and classes, of a store.                                           *)
PairFields == {"count", "first", "last", "encrypted", "tx"}

PairOK(k, p) ==
  /\ DOMAIN p = PairFields
  /\ p.tx \in [Nodes -> Nat]
  /\ p.count \in Nat /\ p.encrypted \in Nat /\ p.encrypted <= p.count
  /\ \E a, b \in Nodes : a # b /\ k = {a, b} /\ p.count = p.tx[a] + p.tx[b]

Classes == {"personal", "broadcast", "from_me", "transit"}

CountsOf(pairs) == [k \in DOMAIN pairs |-> pairs[k].count]

Unicasts(classes) == classes["personal"] + classes["from_me"] + classes["transit"]

ToSelf(s) == {i \in DOMAIN s : s[i].from = s[i].to}

PairsOK(m) ==
  /\ IsFiniteSet(DOMAIN m.pairs)
  /\ \A k \in DOMAIN m.pairs : PairOK(k, m.pairs[k])

TalkOK(m) ==
  /\ DOMAIN m = MemFields
  /\ PairsOK(m)
  /\ m.classes \in [Classes -> Nat]
  /\ m.log \in Seq(Events)
  /\ Unicasts(m.classes) - SumFunction(CountsOf(m.pairs)) \in 0 .. Cardinality(ToSelf(m.log))

(* The two ends of a pair.                                                  *)
LEMMA SumOfTwo ==
  ASSUME NEW f, NEW a, NEW b, a # b, f[a] \in Nat, f[b] \in Nat
  PROVE  SumFunctionOnSet(f, {a, b}) = f[a] + f[b] /\ Cardinality({a, b}) = 2
<1>1. IsFiniteSet({}) /\ IsFiniteSet({b}) /\ IsFiniteSet({a, b}) /\ Cardinality({a, b}) = 2
  <2>1. IsFiniteSet({b}) /\ Cardinality({b}) = 1 /\ IsFiniteSet({})
    BY FS_Singleton, FS_EmptySet
  <2>2. a \notin {b} /\ {b} \cup {a} = {a, b}
    OBVIOUS
  <2>3. IsFiniteSet({b} \cup {a}) /\ Cardinality({b} \cup {a}) = Cardinality({b}) + 1
    BY <2>1, <2>2, FS_AddElement
  <2> QED BY <2>1, <2>2, <2>3
<1>2. {a, b} \ {a} = {b} /\ {b} \ {b} = {}
  OBVIOUS
<1>3. \A x \in {} : f[x] \in Nat
  OBVIOUS
<1>4. SumFunctionOnSet(f, {}) = 0
  BY <1>1, <1>3, SumRest
<1>5. \A x \in {b} : f[x] \in Nat
  OBVIOUS
<1>6. SumFunctionOnSet(f, {b}) = f[b] + SumFunctionOnSet(f, {b} \ {b})
  BY <1>1, <1>5, SumRest
<1>7. \A x \in {a, b} : f[x] \in Nat
  OBVIOUS
<1>8. SumFunctionOnSet(f, {a, b}) = f[a] + SumFunctionOnSet(f, {a, b} \ {a})
  BY <1>1, <1>7, SumRest
<1>9. SumFunctionOnSet(f, {b}) = f[b] + 0
  BY <1>2, <1>4, <1>6
<1>10. SumFunctionOnSet(f, {a, b}) = f[a] + (f[b] + 0)
  BY <1>2, <1>8, <1>9
<1> QED BY <1>1, <1>10

LEMMA SumIsOnAll ==
  ASSUME NEW f, NEW S, DOMAIN f = S PROVE SumFunction(f) = SumFunctionOnSet(f, S)
BY DEF SumFunction

(* One more packet of one pair, known or new: the sum is one more.          *)
LEMMA SumPut ==
  ASSUME NEW f, IsFiniteSet(DOMAIN f), \A x \in DOMAIN f : f[x] \in Nat,
         NEW g, NEW k, DOMAIN g = DOMAIN f \cup {k},
         \A x \in DOMAIN f : x # k => g[x] = f[x],
         g[k] = (IF k \in DOMAIN f THEN f[k] ELSE 0) + 1
  PROVE  SumFunction(f) \in Nat /\ SumFunction(g) = SumFunction(f) + 1
<1>1. PICK S : S = DOMAIN f
  OBVIOUS
<1>2. PICK T : T = S \cup {k}
  OBVIOUS
<1>3. IsFiniteSet(S) /\ IsFiniteSet(T) /\ DOMAIN g = T
  BY <1>1, <1>2, FS_AddElement
<1>4. \A x \in T : g[x] \in Nat
  <2>1. g[k] \in Nat
    OBVIOUS
  <2> QED BY <1>1, <1>2, <2>1
<1>5. SumFunction(f) = SumFunctionOnSet(f, S)
  BY <1>1, SumIsOnAll
<1>6. SumFunction(g) = SumFunctionOnSet(g, T)
  BY <1>3, SumIsOnAll
<1>7. PICK R : R = T \ {k}
  OBVIOUS
<1>8. IsFiniteSet(R) /\ \A x \in R : g[x] = f[x]
  <2>1. R \subseteq S /\ \A x \in R : g[x] = f[x]
    BY <1>1, <1>2, <1>7
  <2> QED BY <1>3, <2>1, FS_Subset
<1>9. SumFunctionOnSet(g, R) = SumFunctionOnSet(f, R)
  BY <1>8, SumSame
<1>10. k \in T
  BY <1>2
<1>11. SumFunctionOnSet(g, T) = g[k] + SumFunctionOnSet(f, R)
  BY <1>3, <1>4, <1>7, <1>9, <1>10, SumRest
<1>12. \A x \in S : f[x] \in Nat
  BY <1>1
<1>13. SumFunctionOnSet(f, S) \in Nat
  BY <1>3, <1>12, SumRest
<1>14. CASE k \in S
  <2>1. R = S \ {k} /\ g[k] = f[k] + 1 /\ f[k] \in Nat
    BY <1>1, <1>2, <1>7, <1>14
  <2>2. SumFunctionOnSet(f, S) = f[k] + SumFunctionOnSet(f, R)
    BY <1>3, <1>12, <1>14, <2>1, SumRest
  <2>3. \A x \in R : f[x] \in Nat
    BY <1>12, <2>1
  <2>4. SumFunctionOnSet(f, R) \in Nat
    BY <1>8, <2>3, SumRest
  <2> QED BY <1>5, <1>6, <1>11, <1>13, <2>1, <2>2, <2>4
<1>15. CASE k \notin S
  <2>1. R = S /\ g[k] = 0 + 1
    BY <1>1, <1>2, <1>7, <1>15
  <2> QED BY <1>5, <1>6, <1>11, <1>13, <2>1
<1> QED BY <1>14, <1>15

(* What Add makes of pairs, classes and ring.                               *)
LEMMA PairsTracked ==
  ASSUME NEW m, NEW l, NEW e, DOMAIN m = MemFields, DOMAIN l = MemFields, l.pairs = m.pairs
  PROVE  trackPair(l, e).pairs = trackPair(m, e).pairs
BY DEF trackPair, MemFields

LEMMA AddTalks ==
  ASSUME NEW m, NEW e, Shaped(m), LinksShaped(m), m.my \in {None, Self}, EventFact(e)
  PROVE  /\ DOMAIN AddEvent(m, e) = MemFields
         /\ AddEvent(m, e).pairs = trackPair(m, e).pairs
         /\ AddEvent(m, e).classes = classify(m, e).classes
         /\ AddEvent(m, e).log = Append(m.log, e)
<1>1. PICK a : a = classify(m, e)
  OBVIOUS
<1>2. PICK r : r = Ring(a, e)
  OBVIOUS
<1>3. PICK h : h = updateNode(r, e)
  OBVIOUS
<1>4. PICK l : l = trackLink(h, e)
  OBVIOUS
<1>5. PICK p : p = trackPair(l, e)
  OBVIOUS
<1>6. PICK c : c = countNode(p, e)
  OBVIOUS
<1>7. PICK u : u = trackDX(c, e)
  OBVIOUS
<1>8. AddEvent(m, e) = u
  BY <1>1, <1>2, <1>3, <1>4, <1>5, <1>6, <1>7 DEF AddEvent
<1>9. Kept(m, a, {"classes"}) /\ DOMAIN m = MemFields
  BY <1>1, KeptClassify DEF Shaped
<1>10. Kept(a, r, {"events", "log", "byType"}) /\ r.log = Append(a.log, e)
  BY <1>2, <1>9, KeptRing DEF Kept
<1>11. /\ r.my = m.my /\ r.nodes = m.nodes /\ r.links = m.links /\ r.pairs = m.pairs
       /\ r.classes = a.classes /\ r.log = Append(m.log, e) /\ DOMAIN r = MemFields
  BY <1>9, <1>10 DEF Kept, MemFields
<1>12. Shaped(r) /\ LinksShaped(r)
  BY <1>11 DEF Shaped, LinksShaped
<1>13. Kept(r, h, {"my", "local", "nodes", "links", "traceroutes"})
  BY <1>3, <1>12, UpdatedIs DEF Updated
<1>14. /\ DOMAIN h = MemFields /\ h.pairs = m.pairs /\ h.classes = a.classes
       /\ h.log = Append(m.log, e)
  BY <1>11, <1>13 DEF Kept, MemFields
<1>15. Kept(h, l, {"links"})
  BY <1>4, <1>14, KeptLink
<1>16. /\ DOMAIN l = MemFields /\ l.pairs = m.pairs /\ l.classes = a.classes
       /\ l.log = Append(m.log, e)
  BY <1>14, <1>15 DEF Kept, MemFields
<1>17. Kept(l, p, {"pairs"}) /\ p.pairs = trackPair(m, e).pairs
  BY <1>5, <1>9, <1>16, KeptPair, PairsTracked
<1>18. /\ DOMAIN p = MemFields /\ p.classes = a.classes /\ p.log = Append(m.log, e)
  BY <1>16, <1>17 DEF Kept, MemFields
<1>19. Kept(p, c, {"nodes"})
  BY <1>6, <1>18, KeptCount
<1>20. Kept(c, u, {"dx"})
  BY <1>7, <1>19, KeptDX DEF Kept
<1>21. DOMAIN u = MemFields /\ u.pairs = p.pairs /\ u.classes = p.classes /\ u.log = p.log
  BY <1>19, <1>20 DEF Kept, MemFields
<1> QED BY <1>1, <1>8, <1>17, <1>18, <1>21

(* One packet of a pair.                                                    *)
CountBefore(pairs, k) == IF k \in DOMAIN pairs THEN pairs[k].count ELSE 0

LEMMA PairPut ==
  ASSUME NEW pairs, NEW e, NEW k, NEW p, e.from \in Nodes, e.to \in Nodes, e.from # e.to,
         e.at \in Nat, k = {e.from, e.to},
         \A x \in DOMAIN pairs : PairOK(x, pairs[x]),
         p = [At(pairs, k, NewPair(e.at)) EXCEPT
               !.count = @ + 1, !.last = e.at, !.tx[e.from] = @ + 1,
               !.encrypted = @ + (IF e.type = "ENCRYPTED" THEN 1 ELSE 0)]
  PROVE  /\ PairOK(k, p)
         /\ p.count = CountBefore(pairs, k) + 1
<1>1. PICK b : b = At(pairs, k, NewPair(e.at))
  OBVIOUS
<1>2. PairOK(k, b) /\ b.count = CountBefore(pairs, k)
  <2>1. CASE k \in DOMAIN pairs
    BY <1>1, <2>1 DEF At, CountBefore
  <2>2. CASE k \notin DOMAIN pairs
    <3>1. b = NewPair(e.at)
      BY <1>1, <2>2 DEF At
    <3>2. b.count = 0 /\ b.encrypted = 0 /\ b.tx = [n \in Nodes |-> 0] /\ DOMAIN b = PairFields
      BY <3>1 DEF NewPair, PairFields
    <3>3. b.count = b.tx[e.from] + b.tx[e.to]
      BY <3>2
    <3>4. b.tx \in [Nodes -> Nat]
      BY <3>2
    <3> QED BY <2>2, <3>2, <3>3, <3>4 DEF PairOK, CountBefore
  <2> QED BY <2>1, <2>2
<1>3. /\ DOMAIN p = DOMAIN b /\ p.count = b.count + 1 /\ p.tx = [b.tx EXCEPT ![e.from] = @ + 1]
      /\ p.encrypted = b.encrypted + (IF e.type = "ENCRYPTED" THEN 1 ELSE 0)
  BY <1>1, <1>2 DEF PairOK, PairFields
<1>4. PICK t \in [Nodes -> Nat] : t = b.tx
  BY <1>2 DEF PairOK
<1>5. /\ p.tx \in [Nodes -> Nat] /\ p.tx[e.from] = t[e.from] + 1 /\ p.tx[e.to] = t[e.to]
  <2>1. PICK x, y \in Nodes : x = e.from /\ y = e.to
    OBVIOUS
  <2>2. PICK v : v = [t EXCEPT ![x] = @ + 1]
    OBVIOUS
  <2>3. v \in [Nodes -> Nat] /\ v[x] = t[x] + 1 /\ (y # x => v[y] = t[y])
    BY <2>2
  <2>4. p.tx = v
    BY <1>3, <1>4, <2>1, <2>2
  <2> QED BY <2>1, <2>3, <2>4
<1>6. b.count = t[e.from] + t[e.to]
  <2>1. PICK x, y \in Nodes : x # y /\ k = {x, y} /\ b.count = t[x] + t[y]
    BY <1>2, <1>4 DEF PairOK
  <2>2. t[x] + t[y] = t[y] + t[x]
    OBVIOUS
  <2>3. (x = e.from /\ y = e.to) \/ (x = e.to /\ y = e.from)
    BY <2>1
  <2> QED BY <2>1, <2>2, <2>3
<1>7. p.count = p.tx[e.from] + p.tx[e.to]
  <2>1. PICK x, y \in Nat : x = t[e.from] /\ y = t[e.to]
    OBVIOUS
  <2>2. p.count = (x + y) + 1 /\ p.tx[e.from] = x + 1 /\ p.tx[e.to] = y
    BY <1>3, <1>5, <1>6, <2>1
  <2> QED BY <2>2
<1>8. /\ b.count \in Nat /\ b.encrypted \in Nat /\ b.encrypted <= b.count
  BY <1>2 DEF PairOK
<1>9. p.count \in Nat /\ p.encrypted \in Nat /\ p.encrypted <= p.count
  BY <1>3, <1>8
<1>10. DOMAIN p = PairFields
  BY <1>2, <1>3 DEF PairOK
<1>11. PairOK(k, p)
  BY <1>5, <1>7, <1>9, <1>10 DEF PairOK
<1> QED BY <1>2, <1>3, <1>11

LEMMA ToSelfAppend ==
  ASSUME NEW s \in Seq(Events), NEW e \in Events
  PROVE  /\ Cardinality(ToSelf(s)) \in Nat
         /\ Cardinality(ToSelf(Append(s, e))) =
              Cardinality(ToSelf(s)) + (IF e.from = e.to THEN 1 ELSE 0)
<1>1. IsFiniteSet(ToSelf(s)) /\ Len(s) + 1 \notin ToSelf(s)
  <2>1. IsFiniteSet(1 .. Len(s))
    BY FS_Interval
  <2>2. ToSelf(s) \subseteq 1 .. Len(s)
    BY DEF ToSelf
  <2> QED BY <2>1, <2>2, FS_Subset
<1>2. PICK q : q = Append(s, e)
  OBVIOUS
<1>3. /\ DOMAIN q = 1 .. Len(s) + 1 /\ DOMAIN s = 1 .. Len(s) /\ Len(s) \in Nat
      /\ \A i \in 1 .. Len(s) : q[i] = s[i]
      /\ q[Len(s) + 1] = e
  BY <1>2
<1>4. ToSelf(q) = IF e.from = e.to THEN ToSelf(s) \cup {Len(s) + 1} ELSE ToSelf(s)
  BY <1>3 DEF ToSelf
<1>5. Cardinality(ToSelf(s) \cup {Len(s) + 1}) = Cardinality(ToSelf(s)) + 1
  BY <1>1, FS_AddElement
<1>6. Cardinality(ToSelf(s)) \in Nat
  BY <1>1, FS_CardinalityType
<1> QED BY <1>2, <1>4, <1>5, <1>6

(* A class for every packet of a sender; a unicast one among three.         *)
LEMMA ClassifyIs ==
  ASSUME NEW m, NEW e, DOMAIN m = MemFields, m.classes \in [Classes -> Nat], EventFact(e)
  PROVE  /\ classify(m, e).classes \in [Classes -> Nat]
         /\ Unicasts(m.classes) \in Nat
         /\ Unicasts(classify(m, e).classes) =
              Unicasts(m.classes) + (IF e.from # None /\ e.to # Broadcast THEN 1 ELSE 0)
<1>1. PICK c \in [Classes -> Nat] : c = m.classes
  OBVIOUS
<1>2. CASE e.from = None
  BY <1>2 DEF classify, Unicasts, Classes
<1>3. CASE e.from # None
  <2>1. PICK x \in Classes : x = ClassOf(m, e)
    BY DEF ClassOf, Classes
  <2>2. (e.to = Broadcast <=> x = "broadcast")
    BY <2>1 DEF ClassOf
  <2>3. classify(m, e).classes = [c EXCEPT ![x] = @ + 1]
    BY <1>1, <1>3, <2>1 DEF classify, MemFields
  <2>4. PICK d : d = [c EXCEPT ![x] = @ + 1]
    OBVIOUS
  <2>5. d \in [Classes -> Nat] /\ \A y \in Classes : d[y] = IF y = x THEN c[y] + 1 ELSE c[y]
    BY <2>4
  <2>6. /\ c["personal"] \in Nat /\ c["from_me"] \in Nat /\ c["transit"] \in Nat
    BY DEF Classes
  <2>7. Unicasts(d) = Unicasts(c) + (IF x # "broadcast" THEN 1 ELSE 0)
    BY <2>1, <2>5, <2>6 DEF Unicasts, Classes
  <2> QED BY <1>1, <1>3, <2>2, <2>3, <2>4, <2>5, <2>6, <2>7 DEF Unicasts
<1> QED BY <1>2, <1>3

LEMMA TalkAdd ==
  ASSUME NEW m, NEW e \in Events, TalkOK(m), Shaped(m), LinksShaped(m), m.my \in {None, Self}
  PROVE  TalkOK(AddEvent(m, e))
<1>1. EventFact(e)
  BY EventIs
<1>2. PICK u : u = AddEvent(m, e)
  OBVIOUS
<1>3. /\ DOMAIN u = MemFields /\ u.pairs = trackPair(m, e).pairs
      /\ u.classes = classify(m, e).classes /\ u.log = Append(m.log, e)
  BY <1>1, <1>2, AddTalks
<1>4. PICK s \in Seq(Events) : s = m.log
  BY DEF TalkOK
<1>5. /\ u.log \in Seq(Events)
      /\ Cardinality(ToSelf(s)) \in Nat
      /\ Cardinality(ToSelf(u.log)) = Cardinality(ToSelf(s)) + (IF e.from = e.to THEN 1 ELSE 0)
  BY <1>3, <1>4, ToSelfAppend
<1>6. /\ u.classes \in [Classes -> Nat]
      /\ Unicasts(m.classes) \in Nat
      /\ Unicasts(u.classes) =
           Unicasts(m.classes) + (IF e.from # None /\ e.to # Broadcast THEN 1 ELSE 0)
  BY <1>1, <1>3, ClassifyIs DEF TalkOK
<1>7. PICK c, l \in Nat : c = Unicasts(m.classes) /\ l = Cardinality(ToSelf(s))
  BY <1>5, <1>6
<1>8. PICK f : f = CountsOf(m.pairs)
  OBVIOUS
<1>9. DOMAIN f = DOMAIN m.pairs /\ \A k \in DOMAIN m.pairs : f[k] = m.pairs[k].count
  BY <1>8 DEF CountsOf
<1>10. IsFiniteSet(DOMAIN f) /\ \A k \in DOMAIN f : f[k] \in Nat
  BY <1>9 DEF TalkOK, PairsOK, PairOK
<1>11. SumFunction(f) \in Nat
  <2>1. SumFunction(f) = SumFunctionOnSet(f, DOMAIN f)
    BY SumIsOnAll
  <2> QED BY <1>10, <2>1, SumRest
<1>12. PICK z \in Nat : z = SumFunction(f)
  BY <1>11
<1>13. c - z \in 0 .. l
  BY <1>4, <1>7, <1>8, <1>12 DEF TalkOK
<1>14. CASE e.from = None \/ e.to \in {Broadcast, e.from}
  <2>1. u.pairs = m.pairs
    BY <1>3, <1>14 DEF trackPair
  <2>2. PairsOK(u) /\ SumFunction(CountsOf(u.pairs)) = z
    BY <1>8, <1>12, <2>1 DEF TalkOK, PairsOK
  <2>3. Unicasts(u.classes) = c \/ (Unicasts(u.classes) = c + 1 /\ e.from = e.to)
    BY <1>6, <1>7, <1>14
  <2>4. Cardinality(ToSelf(u.log)) = IF e.from = e.to THEN l + 1 ELSE l
    BY <1>5, <1>7
  <2>5. Unicasts(u.classes) - z \in 0 .. Cardinality(ToSelf(u.log))
    BY <1>13, <2>3, <2>4
  <2> QED BY <1>2, <1>3, <1>5, <1>6, <2>2, <2>5 DEF TalkOK
<1>15. CASE e.from # None /\ e.to \notin {Broadcast, e.from}
  <2>1. e.from \in Nodes /\ e.to \in Nodes /\ e.from # e.to /\ e.at \in Nat
    BY <1>1, <1>15 DEF EventFact
  <2>2. PICK k : k = {e.from, e.to}
    OBVIOUS
  <2>3. PICK p : p = [At(m.pairs, k, NewPair(e.at)) EXCEPT
                       !.count = @ + 1, !.last = e.at, !.tx[e.from] = @ + 1,
                       !.encrypted = @ + (IF e.type = "ENCRYPTED" THEN 1 ELSE 0)]
    OBVIOUS
  <2>4. u.pairs = Put(m.pairs, k, p)
    BY <1>3, <1>15, <2>2, <2>3 DEF trackPair, TalkOK, MemFields
  <2>5. \A x \in DOMAIN m.pairs : PairOK(x, m.pairs[x])
    BY DEF TalkOK, PairsOK
  <2>6. /\ PairOK(k, p)
        /\ p.count = (IF k \in DOMAIN m.pairs THEN m.pairs[k].count ELSE 0) + 1
    <3>1. PICK q : q = m.pairs
      OBVIOUS
    <3>2. \A x \in DOMAIN q : PairOK(x, q[x])
      BY <2>5, <3>1
    <3>3. p = [At(q, k, NewPair(e.at)) EXCEPT
                !.count = @ + 1, !.last = e.at, !.tx[e.from] = @ + 1,
                !.encrypted = @ + (IF e.type = "ENCRYPTED" THEN 1 ELSE 0)]
      BY <2>3, <3>1
    <3>4. PairOK(k, p)
      BY <2>1, <2>2, <3>2, <3>3, PairPut
    <3>5. p.count = CountBefore(q, k) + 1
      BY <2>1, <2>2, <3>2, <3>3, PairPut
    <3> QED BY <3>1, <3>4, <3>5 DEF CountBefore
  <2>7. /\ DOMAIN u.pairs = DOMAIN m.pairs \cup {k} /\ u.pairs[k] = p
        /\ \A x \in DOMAIN m.pairs : x # k => u.pairs[x] = m.pairs[x]
    BY <2>4 DEF Put
  <2>8. IsFiniteSet(DOMAIN u.pairs)
    BY <1>9, <1>10, <2>7, FS_AddElement
  <2>9. PairsOK(u)
    BY <2>5, <2>6, <2>7, <2>8 DEF PairsOK
  <2>10. PICK g : g = CountsOf(u.pairs)
    OBVIOUS
  <2>11. /\ DOMAIN g = DOMAIN f \cup {k}
         /\ \A x \in DOMAIN f : x # k => g[x] = f[x]
         /\ g[k] = (IF k \in DOMAIN f THEN f[k] ELSE 0) + 1
    BY <1>9, <2>6, <2>7, <2>10 DEF CountsOf
  <2>12. SumFunction(g) = SumFunction(f) + 1
    BY <1>10, <2>11, SumPut
  <2>13. Unicasts(u.classes) = c + 1 /\ Cardinality(ToSelf(u.log)) = l
    BY <1>5, <1>6, <1>7, <1>15, <2>1
  <2>14. Unicasts(u.classes) - SumFunction(CountsOf(u.pairs)) \in 0 .. Cardinality(ToSelf(u.log))
    BY <1>12, <1>13, <2>10, <2>12, <2>13
  <2> QED BY <1>2, <1>3, <1>5, <1>6, <2>9, <2>14 DEF TalkOK
<1> QED BY <1>14, <1>15

(* A replay leaves pairs and classes alone.                                 *)
SameTalk(m, u) == DOMAIN u = MemFields /\ u.pairs = m.pairs /\ u.classes = m.classes

LEMMA ReplayTalks ==
  ASSUME NEW m, NEW e, DOMAIN m = MemFields PROVE SameTalk(m, Replay(m, e))
<1>1. PICK r : r = Ring(m, e)
  OBVIOUS
<1>2. PICK o : o = [r EXCEPT !.my = IF e.type = "MY_INFO" /\ e.from # None THEN e.from ELSE @]
  OBVIOUS
<1>3. PICK l : l = trackLink(o, e)
  OBVIOUS
<1>4. PICK c : c = countNode(l, e)
  OBVIOUS
<1>5. PICK u : u = trackDX(c, e)
  OBVIOUS
<1>6. Replay(m, e) = u
  BY <1>1, <1>2, <1>3, <1>4, <1>5 DEF Replay
<1>7. Kept(m, r, {"events", "log", "byType"})
  BY <1>1, KeptRing
<1>8. SameTalk(m, o)
  BY <1>2, <1>7 DEF Kept, MemFields, SameTalk
<1>9. Kept(o, l, {"links"})
  BY <1>3, <1>8, KeptLink DEF SameTalk
<1>10. Kept(l, c, {"nodes"})
  BY <1>4, <1>9, KeptCount DEF Kept
<1>11. Kept(c, u, {"dx"})
  BY <1>5, <1>10, KeptDX DEF Kept
<1> QED BY <1>6, <1>8, <1>9, <1>10, <1>11 DEF Kept, MemFields, SameTalk

LEMMA LoadTalks ==
  ASSUME NEW b, NEW table, Len(table) \in Nat, DOMAIN b = MemFields
  PROVE  SameTalk(b, LoadEvents(b, table))
<1>1. PICK f : Turns(f, b, table, Len(table)) /\ LoadEvents(b, table) = f[Len(table)]
  BY LoadIs
<1>2. PICK l \in Nat : l = Len(table)
  OBVIOUS
<1>3. f = [i \in 0 .. l |-> IF i = 0 THEN b ELSE Replay(f[i - 1], table[i])]
  BY <1>1, <1>2 DEF Turns
<1>4. ASSUME NEW i \in 0 .. l PROVE f[i] = IF i = 0 THEN b ELSE Replay(f[i - 1], table[i])
  BY <1>3
<1> DEFINE S == {i \in 0 .. l : SameTalk(b, f[i])}
<1>5. 0 \in S
  <2>1. f[0] = b
    BY <1>4
  <2> QED BY <2>1 DEF SameTalk
<1>6. ASSUME NEW i \in 0 .. l - 1, i \in S PROVE i + 1 \in S
  <2>1. i + 1 \in 0 .. l /\ i + 1 # 0 /\ (i + 1) - 1 = i
    OBVIOUS
  <2>2. f[i + 1] = Replay(f[i], table[i + 1])
    BY <1>4, <2>1
  <2>3. SameTalk(b, f[i])
    BY <1>6
  <2>4. SameTalk(f[i], f[i + 1])
    BY <2>2, <2>3, ReplayTalks DEF SameTalk
  <2>5. SameTalk(b, f[i + 1])
    BY <2>3, <2>4 DEF SameTalk
  <2> QED BY <2>1, <2>5
<1> HIDE DEF S
<1>7. l \in S
  <2>1. 0 .. l \subseteq S
    BY <1>5, <1>6, UpTo
  <2> QED BY <2>1
<1>8. SameTalk(b, f[l])
  BY <1>7 DEF S
<1> QED BY <1>1, <1>2, <1>8

(* After a start nobody has talked.                                         *)
LEMMA StartTalks ==
  ASSUME NEW u, DOMAIN u = MemFields, u.pairs = <<>>,
         u.classes = Empty.classes, u.log \in Seq(Events)
  PROVE  TalkOK(u)
<1>1. PICK f : f = CountsOf(u.pairs)
  OBVIOUS
<1>2. DOMAIN f = {} /\ DOMAIN u.pairs = {}
  BY <1>1 DEF CountsOf
<1>3. IsFiniteSet({})
  BY FS_EmptySet
<1>4. PairsOK(u)
  BY <1>2, <1>3 DEF PairsOK
<1>5. \A x \in {} : f[x] \in Nat
  OBVIOUS
<1>6. SumFunction(f) = 0
  <2>1. SumFunction(f) = SumFunctionOnSet(f, {})
    BY <1>2, SumIsOnAll
  <2> QED BY <1>3, <1>5, <2>1, SumRest
<1>7. u.classes = [c \in Classes |-> 0]
  BY DEF Empty, Classes
<1>8. u.classes \in [Classes -> Nat] /\ Unicasts(u.classes) = 0
  BY <1>7 DEF Unicasts, Classes
<1>9. Cardinality(ToSelf(u.log)) \in Nat
  <2>1. PICK s \in Seq(Events) : s = u.log
    OBVIOUS
  <2>2. IsFiniteSet(1 .. Len(s)) /\ ToSelf(s) \subseteq 1 .. Len(s)
    BY FS_Interval DEF ToSelf
  <2> QED BY <2>1, <2>2, FS_Subset, FS_CardinalityType
<1> QED BY <1>1, <1>4, <1>6, <1>8, <1>9 DEF TalkOK

LEMMA RebuiltTalks ==
  ASSUME NEW m, NEW u \in Rebuilt(m), DOMAIN m = MemFields PROVE SameTalk(m, u)
<1>1. PICK l : u = [m EXCEPT !.links = l]
  BY DEF Rebuilt
<1> QED BY <1>1 DEF SameTalk, MemFields

LEMMA RestartTalks == ASSUME Inv, Inv', Restart PROVE TalkOK(mem')
<1>1. PICK table, routes, events, m :
        /\ events = LoadRecentEvents(eventRows) \/ events = <<>>
        /\ m \in Rebuilt(LoadNodes(Empty, table))
        /\ mem' = LoadEvents(LoadTraceroutes(m, routes), events)
  <2>1. PICK fails \in SUBSET {"nodes", "routes", "events"} :
          LET table  == IF "nodes" \in fails THEN <<>> ELSE nodeRows
              routes == IF "routes" \in fails THEN <<>> ELSE routeRows
              events == IF "events" \in fails THEN <<>> ELSE LoadRecentEvents(eventRows)
          IN  \E m \in Rebuilt(LoadNodes(Empty, table)) :
                mem' = LoadEvents(LoadTraceroutes(m, routes), events)
    BY DEF Restart
  <2> QED BY <2>1
<1>2. PICK n : n = LoadNodes(Empty, table)
  OBVIOUS
<1>3. SameTalk(Empty, n)
  BY <1>2 DEF SameTalk, LoadNodes, Empty, MemFields
<1>4. SameTalk(n, m)
  BY <1>1, <1>2, <1>3, RebuiltTalks DEF SameTalk
<1>5. PICK b : b = LoadTraceroutes(m, routes)
  OBVIOUS
<1>6. SameTalk(m, b)
  BY <1>4, <1>5 DEF SameTalk, LoadTraceroutes, MemFields
<1>7. Len(events) \in Nat
  <2>1. Len(<<>>) \in Nat
    OBVIOUS
  <2>2. Len(LoadRecentEvents(eventRows)) \in Nat
    <3>1. eventRows \in Seq(Events)
      BY DEF Inv, EventsOK
    <3>2. PICK l \in Seq(Events) : l = LoadRecentEvents(eventRows)
      BY <3>1, RecentIs
    <3> QED BY <3>2
  <2> QED BY <1>1, <2>1, <2>2
<1>8. PICK u : u = mem'
  OBVIOUS
<1>9. SameTalk(b, u)
  BY <1>1, <1>5, <1>6, <1>7, <1>8, LoadTalks DEF SameTalk
<1>10. DOMAIN u = MemFields /\ u.pairs = Empty.pairs /\ u.classes = Empty.classes
  BY <1>3, <1>4, <1>6, <1>9 DEF SameTalk
<1>11. u.log \in Seq(Events)
  BY <1>8 DEF Inv, CountOK
<1>12. Empty.pairs = <<>>
  BY DEF Empty
<1> QED BY <1>8, <1>10, <1>11, <1>12, StartTalks

LEMMA TalkInit == Init => TalkOK(mem)
<1> SUFFICES ASSUME Init PROVE TalkOK(mem)
  OBVIOUS
<1>1. DOMAIN mem = MemFields /\ mem.pairs = <<>> /\ mem.classes = Empty.classes /\ mem.log = <<>>
  BY DEF Init, Empty, MemFields
<1>2. mem.log \in Seq(Events)
  BY <1>1
<1> QED BY <1>1, <1>2, StartTalks

LEMMA TalkStep == Inv /\ Inv' /\ TalkOK(mem) /\ [Next]_vars => TalkOK(mem)'
<1> SUFFICES ASSUME Inv, Inv', TalkOK(mem), [Next]_vars PROVE TalkOK(mem')
  OBVIOUS
<1>1. now \in Nat \ {0} /\ Shaped(mem) /\ LinksShaped(mem) /\ mem.my \in {None, Self}
  BY DEF Inv, ClockOK, MemOK, LinksOK, Shaped, LinksShaped
<1>2. ASSUME NEW p \in Packets, Silent(p) PROVE TalkOK(mem')
  <2>1. PICK e : e = Over([at |-> now], p) /\ mem' = updateNode(mem, e)
    BY <1>2 DEF Silent
  <2>2. EventFact(e)
    BY <1>1, <2>1, StampIs
  <2>3. PICK u : u = mem'
    OBVIOUS
  <2>4. Kept(mem, u, {"my", "local", "nodes", "links", "traceroutes"})
    BY <1>1, <2>1, <2>2, <2>3, UpdatedIs DEF Updated
  <2>5. /\ DOMAIN u = MemFields /\ u.pairs = mem.pairs /\ u.classes = mem.classes
        /\ u.log = mem.log
    BY <2>4 DEF Kept, MemFields
  <2>6. TalkOK(u)
    BY <2>5 DEF TalkOK, PairsOK
  <2> QED BY <2>3, <2>6
<1>3. ASSUME NEW p \in Packets, Receive(p) PROVE TalkOK(mem')
  <2>1. PICK e : e = Over([at |-> now], p) /\ mem' = AddEvent(mem, e)
    BY <1>3 DEF Receive
  <2>2. e \in Events
    BY <1>1, <2>1, StampIs
  <2> QED BY <1>1, <2>1, <2>2, TalkAdd
<1>4. CASE InsertEvent \/ SaveNode \/ InsertTraceroute
  BY <1>4 DEF InsertEvent, SaveNode, InsertTraceroute, Written
<1>5. CASE SwitchPhase \/ Tick \/ UNCHANGED vars
  BY <1>5 DEF SwitchPhase, Tick, vars
<1>6. CASE Restart
  BY <1>6, RestartTalks
<1> QED BY <1>2, <1>3, <1>4, <1>5, <1>6 DEF Next

LEMMA TalkMatches == TalkOK(mem) => PairsMatchClasses
<1> SUFFICES ASSUME TalkOK(mem) PROVE PairsMatchClasses
  OBVIOUS
<1>1. ASSUME NEW k \in DOMAIN mem.pairs
      PROVE  /\ k \subseteq Nodes /\ Cardinality(k) = 2
             /\ mem.pairs[k].count = SumFunctionOnSet(mem.pairs[k].tx, k)
             /\ mem.pairs[k].encrypted <= mem.pairs[k].count
  <2>1. PairOK(k, mem.pairs[k])
    BY DEF TalkOK, PairsOK
  <2>2. PICK t \in [Nodes -> Nat] : t = mem.pairs[k].tx
    BY <2>1 DEF PairOK
  <2>3. PICK a, b \in Nodes : a # b /\ k = {a, b} /\ mem.pairs[k].count = t[a] + t[b]
    BY <2>1, <2>2 DEF PairOK
  <2>4. SumFunctionOnSet(t, {a, b}) = t[a] + t[b] /\ Cardinality({a, b}) = 2
    BY <2>3, SumOfTwo
  <2>5. mem.pairs[k].encrypted <= mem.pairs[k].count
    BY <2>1 DEF PairOK
  <2>6. k \subseteq Nodes
    BY <2>3
  <2> QED BY <2>2, <2>3, <2>4, <2>5, <2>6
<1>2. Unicasts(mem.classes) - SumFunction(CountsOf(mem.pairs)) \in 0 .. Cardinality(ToSelf(mem.log))
  BY DEF TalkOK
<1> QED BY <1>1, <1>2 DEF PairsMatchClasses, Unicasts, CountsOf, ToSelf

(* Whatever nodes, packets, faults and restarts: pairs and classes, counted *)
(* apart, agree but for packets a node sent itself, and each pair's count   *)
(* is that of its two directions (store.go:1076-1130).                      *)
THEOREM PairsCorrect == Spec => []PairsMatchClasses
<1>1. Init => TalkOK(mem)
  BY TalkInit
<1>2. Inv /\ Inv' /\ TalkOK(mem) /\ [Next]_vars => TalkOK(mem)'
  BY TalkStep
<1>3. TalkOK(mem) => PairsMatchClasses
  BY TalkMatches
<1> QED BY <1>1, <1>2, <1>3, Invariant, PTL DEF Spec
=============================================================================
