------------------------------ MODULE NodeTable ------------------------------
(***************************************************************************)
(* The in-memory node table with what hangs off every packet (links,       *)
(* pairs, class counters, traceroutes, long-distance records), and the     *)
(* rows the read loop writes after each packet.  A restart rebuilds the    *)
(* memory from the rows: part is loaded, part is replayed, part is lost.   *)
(***************************************************************************)
EXTENDS Integers, FiniteSets, Sequences, SequencesExt

CONSTANTS
  Nodes,          (* node numbers                                          *)
  Self,           (* the node the serial port leads to                     *)
  None,           (* no sender: a message of the firmware itself           *)
  Broadcast,      (* destination 0 or 0xFFFFFFFF                           *)
  Types,          (* event types that occur                                *)
  Packets,        (* what the radio may hand over                          *)
  Km,             (* distance between two positions                        *)
  NotIgnoreSelf,  (* --not-ignore-self                                     *)
  IgnoreName,     (* --ignore-node: a name, or None                        *)
  RingSize,       (* 10000: of store.New and of LoadRecentEvents           *)
  MaxTraceroutes, (* 1000                                                  *)
  MaxAge,         (* age up to which neighbour tables are restored: 24 h   *)
  MaxTime,        (* bound: the clock; every packet takes one tick         *)
  MaxFaults,      (* bound: failing inserts and startup queries            *)
  MaxRestarts     (* bound: restarts                                       *)

ASSUME TableAssumption ==
  /\ Self \in Nodes
  /\ None \notin Nodes
  /\ Broadcast \notin Nodes
  /\ RingSize \in Nat \ {0}
  /\ MaxTraceroutes \in Nat \ {0}
  /\ MaxTime \in Nat

(* What the decoder lets through: settings, metadata and our own number     *)
(* come from the connected radio and not with a mesh packet, which always   *)
(* has a sender (decoder.go:92-155); only metadata and NodeInfo tell a      *)
(* hardware model.                                                          *)
ASSUME PacketAssumption ==
  \A p \in Packets :
    /\ DOMAIN p = {"type", "from", "to", "rssi", "snr", "start", "limit", "body"}
    /\ p.type \in Types
    /\ p.from \in Nodes \cup {None} /\ p.to \in Nodes \cup {Broadcast}
    /\ p.start \in Nat /\ p.limit \in Nat
    /\ p.type \in {"METADATA", "MODULE_NEIGHBOR", "CONFIG_LORA"} => p.from = None
    /\ p.type \in {"MODULE_NEIGHBOR", "CONFIG_LORA", "MY_INFO"} => "hw_model" \notin DOMAIN p.body
    /\ p.type = "MY_INFO" => p.from = Self
    /\ p.type = "TRACEROUTE" => p.from # None
    /\ p.type = "NEIGHBOR_INFO" => p.body.reporter \in Nodes

VARIABLES
  mem,            (* the Store, a record: see Empty                        *)
  configuring,    (* the read loop's configPhase                           *)
  myNode,         (* the read loop's own idea of our node                  *)
  ignored,        (* the read loop's ignoreNum                             *)
  todo,           (* what the read loop still writes for mem's last packet *)
  nodeRows,       (* table nodes                                           *)
  eventRows,      (* table events, in id order                             *)
  routeRows,      (* table traceroutes, in order of time                   *)
  now,            (* the clock                                             *)
  faults,         (* bound on failures, counted                            *)
  restarts,       (* bound on restarts, counted                            *)
  gaps,           (* history: nodes whose row a start found missing        *)
  observed        (* history: every measurement of a pair of nodes         *)

rows == <<nodeRows, eventRows, routeRows>>
vars == <<mem, configuring, myNode, ignored, todo, rows, now, faults, restarts, gaps, observed>>
----------------------------------------------------------------------------
(* f, and g where f says nothing; f with one entry more.                    *)
Over(f, g)   == [x \in DOMAIN f \cup DOMAIN g |-> IF x \in DOMAIN f THEN f[x] ELSE g[x]]
Put(f, k, v) == [x \in DOMAIN f \cup {k} |-> IF x = k THEN v ELSE f[x]]

Or(value, before) == IF value # 0 THEN value ELSE before

(* A map read at a key it may not have.                                     *)
At(f, k, default) == IF k \in DOMAIN f THEN f[k] ELSE default

NewNode == [heard |-> 0, rssi |-> 0, snr |-> 0, limit |-> 0, attrs |-> <<>>,
            neighbors |-> <<>>, neighborsAt |-> 0,
            byType |-> [t \in Types |-> 0], hops |-> <<>>]

NewLink == [rssi |-> 0, snr |-> 0, count |-> 0, at |-> 0, neighbor |-> FALSE]

NewPair(at) == [count |-> 0, first |-> at, last |-> at, encrypted |-> 0,
                tx |-> [n \in Nodes |-> 0]]

(* New: a store that has seen nothing.  log is a history: all that went     *)
(* through the ring events since the start.                                 *)
Empty == [my |-> None, local |-> <<>>, nodes |-> <<>>, links |-> <<>>, pairs |-> <<>>,
          classes |-> [c \in {"personal", "broadcast", "from_me", "transit"} |-> 0],
          byType |-> [t \in Types |-> 0], dx |-> <<>>,
          traceroutes |-> <<>>, events |-> <<>>, log |-> <<>>]

LastN(s, n) == SubSeq(s, IF Len(s) > n THEN Len(s) - n + 1 ELSE 1, Len(s))

----------------------------------------------------------------------------
(* updateNode, in the order of its parts.                                   *)

(* Metadata, the neighbour module's and the LoRa settings: about the        *)
(* connected node, without a sender.  A field the message lacks keeps its   *)
(* value.                                                                   *)
IsLocal(e) == e.type \in {"METADATA", "MODULE_NEIGHBOR", "CONFIG_LORA"}
LocalConfig(m, e) == [m EXCEPT !.local = Over(e.body, @)]

(* What every packet of a node tells.                                       *)
Heard(m, e) ==
  LET n == At(m.nodes, e.from, NewNode) IN
  [m EXCEPT !.nodes = Put(@, e.from, [n EXCEPT
     !.heard = e.at,
     !.rssi  = Or(e.rssi, @),
     !.snr   = Or(e.snr, @),
     !.limit = Or(e.limit, @)])]

(* Faulty variant: a message replaces all that was known.                   *)
AttributesReplaced(m, e) == [m EXCEPT !.nodes[e.from].attrs = e.body]

(* Fields of a NODE_INFO, POSITION or TELEMETRY message, where present.     *)
Attributes(m, e) == [m EXCEPT !.nodes[e.from].attrs = Over(e.body, @)]

(* Faulty variant: our NodeInfo replaces what the device metadata said.     *)
MirrorAll(m, e) == [m EXCEPT !.local = Over(e.body, @)]

(* Our own NodeInfo is mirrored; its names replace, the rest only fills in. *)
Mirror(m, e) ==
  [m EXCEPT !.local =
     Over(Restrict(e.body, DOMAIN e.body \cap {"name"}),
          Over(@, Restrict(e.body, DOMAIN e.body \cap {"hw_model"})))]

NodeInfo(m, e) ==
  LET known == Attributes(m, e) IN IF e.from = m.my THEN Mirror(known, e) ELSE known

(* Faulty variant: the buffer keeps the oldest.                             *)
TracerouteKeepingOldest(m, e) ==
  [m EXCEPT !.traceroutes = SubSeq(Append(@, e.at), 1, MaxTraceroutes)]

Traceroute(m, e) == [m EXCEPT !.traceroutes = LastN(Append(@, e.at), MaxTraceroutes)]

MyInfo(m, e) ==
  [m EXCEPT !.my = e.from,
            !.nodes[e.from].attrs = Over([id |-> e.from], @),
            !.local = Over(e.body, Over([id |-> e.from], @))]

(* processNeighborInfo: a whole neighbour table, maybe of another node than *)
(* the sender; the link keeps the RSSI of an earlier reception.             *)
NeighborInfo(m, e) ==
  LET n    == At(m.nodes, e.body.reporter, NewNode)
      list == e.body.neighbors
      met  == {{e.body.reporter, p} : p \in DOMAIN list}
      far(k)  == CHOOSE p \in DOMAIN list : k = {e.body.reporter, p}
      link(k) == At(m.links, k, NewLink)
  IN  [m EXCEPT
        !.nodes = Put(@, e.body.reporter, [n EXCEPT !.neighbors = list, !.neighborsAt = e.at]),
        !.links = Over([k \in met |-> [link(k) EXCEPT
                          !.snr = list[far(k)], !.count = @ + 1, !.at = e.at,
                          !.neighbor = TRUE]], @)]

updateNode(m, e) ==
  IF IsLocal(e) THEN LocalConfig(m, e)
  ELSE IF e.from = None THEN m
  ELSE LET h == Heard(m, e) IN
       CASE e.type = "NODE_INFO"                -> NodeInfo(h, e)
         [] e.type \in {"POSITION", "TELEMETRY"} -> Attributes(h, e)
         [] e.type = "TRACEROUTE"               -> Traceroute(h, e)
         [] e.type = "NEIGHBOR_INFO"            -> NeighborInfo(h, e)
         [] e.type = "MY_INFO"                  -> MyInfo(h, e)
         [] OTHER                               -> h
----------------------------------------------------------------------------
HasSignal(e) == e.rssi # 0 \/ e.snr # 0

(* Faulty variant: a relayed packet makes a link, too.                      *)
SingleHopOrRelayed(e) == e.start # 0

(* hop_limit still at hop_start: nobody relayed the packet.                 *)
SingleHop(e) == e.start # 0 /\ e.limit >= e.start

(* The far end of a reception: ours for a broadcast.                        *)
Receiver(m, e) == IF e.to = Broadcast THEN m.my ELSE e.to

trackLink(m, e) ==
  LET to   == Receiver(m, e)
      k    == {e.from, to}
      link == At(m.links, k, NewLink)
  IN  IF e.from # None /\ HasSignal(e) /\ SingleHop(e) /\ to \notin {None, e.from}
      THEN [m EXCEPT !.links = Put(@, k, [link EXCEPT
              !.rssi = e.rssi, !.snr = e.snr, !.count = @ + 1, !.at = e.at])]
      ELSE m

ClassOf(m, e) ==
  CASE e.to = Broadcast                    -> "broadcast"
    [] e.to # Broadcast /\ e.from = m.my   -> "from_me"
    [] e.to # Broadcast /\ e.from # m.my /\ e.to = m.my -> "personal"
    [] OTHER                               -> "transit"

(* classifyPacketLocked and the counter of the class.                       *)
classify(m, e) ==
  IF e.from = None THEN m ELSE [m EXCEPT !.classes[ClassOf(m, e)] = @ + 1]

(* Faulty variant: a broadcast makes a pair, with our node as its other end.*)
trackPairOfBroadcast(m, e) ==
  LET to   == Receiver(m, e)
      pair == At(m.pairs, {e.from, to}, NewPair(e.at))
  IN
  IF e.from = None \/ to \in {None, e.from} THEN m
  ELSE [m EXCEPT !.pairs = Put(@, {e.from, to}, [pair EXCEPT
          !.count = @ + 1, !.last = e.at, !.tx[e.from] = @ + 1])]

trackPair(m, e) ==
  LET k    == {e.from, e.to}
      pair == At(m.pairs, k, NewPair(e.at))
  IN
  IF e.from = None \/ e.to \in {Broadcast, e.from} THEN m
  ELSE [m EXCEPT !.pairs = Put(@, k, [pair EXCEPT
          !.count = @ + 1, !.last = e.at, !.tx[e.from] = @ + 1,
          !.encrypted = @ + (IF e.type = "ENCRYPTED" THEN 1 ELSE 0)])]

(* countNodePacket and countNodeHopStart: only for nodes in the table.      *)
countNode(m, e) ==
  IF e.from \notin DOMAIN m.nodes THEN m
  ELSE [m EXCEPT
         !.nodes[e.from].byType[e.type] = @ + 1,
         !.nodes[e.from].hops = IF e.start > 7 THEN @ ELSE Put(@, e.start, At(@, e.start, 0) + 1)]

Position(m, n) == IF n \in DOMAIN m.nodes THEN At(m.nodes[n].attrs, "pos", 0) ELSE 0

(* Faulty variant: the farther reception wins, direct or not.               *)
BeatsByDistance(new, old) == new.km > old.km

(* Any direct reception beats any relayed one, then distance counts.        *)
Beats(new, old) ==
  \/ new.direct /\ ~old.direct
  \/ new.direct = old.direct /\ new.km > old.km

(* trackDX: needs the signal and both positions, 0 standing for unknown.    *)
trackDX(m, e) ==
  LET here  == Position(m, m.my)
      there == Position(m, e.from)
      new   == [km |-> Km[here, there], direct |-> SingleHop(e), at |-> e.at]
  IN  IF /\ e.from \notin {None, m.my} /\ HasSignal(e)
         /\ here # 0 /\ there # 0 /\ Km[here, there] > 0
         /\ e.from \in DOMAIN m.dx => Beats(new, m.dx[e.from])
      THEN [m EXCEPT !.dx = Put(@, e.from, new)]
      ELSE m

(* The ring, of which the oldest slot is overwritten, and the counter by    *)
(* type, which is never taken back; EventRing has the slots themselves.     *)
Ring(m, e) == [m EXCEPT !.events = LastN(Append(@, e), RingSize),
                        !.log = Append(@, e),
                        !.byType[e.type] = @ + 1]

(* Add, up to the hand-over to the subscribers.                             *)
AddEvent(m, e) ==
  LET ringed  == Ring(classify(m, e), e)
      updated == trackPair(trackLink(updateNode(ringed, e), e), e)
  IN  trackDX(countNode(updated, e), e)

(* Faulty variant: the counters are taken to be loaded with the node.       *)
ReplayUncounted(m, e) ==
  LET ringed == Ring(m, e)
      owned  == [ringed EXCEPT !.my = IF e.type = "MY_INFO" /\ e.from # None THEN e.from ELSE @]
  IN  trackDX(trackLink(owned, e), e)

(* One turn of LoadEvents: no class, no pair, and the node stays as loaded. *)
Replay(m, e) ==
  LET ringed == Ring(m, e)
      owned  == [ringed EXCEPT !.my = IF e.type = "MY_INFO" /\ e.from # None THEN e.from ELSE @]
  IN  trackDX(countNode(trackLink(owned, e), e), e)
----------------------------------------------------------------------------
(* What SaveNode writes and LoadNodes reads of a node.                      *)
RowFields == {"heard", "rssi", "snr", "limit", "attrs", "neighbors", "neighborsAt"}

(* Faulty variant: only the time of the neighbour table is written.         *)
RowWithoutNeighbors(n) == Over([neighbors |-> <<>>], Restrict(n, RowFields))

Row(n) == Restrict(n, RowFields)

LoadNodes(m, table) == [m EXCEPT !.nodes = [n \in DOMAIN table |-> Over(table[n], NewNode)]]

(* The time of a neighbour table; rows of an older version have none, and   *)
(* the node's own time stands in.                                           *)
TableTime(n) == IF n.neighborsAt = 0 THEN n.heard ELSE n.neighborsAt

(* RebuildLinksFromNeighbors: of the tables young enough (or without a time *)
(* of their own) that name a link, the freshest gives it; which of two      *)
(* equally fresh ones, the order of the map decides.                        *)
Rebuilt(m) ==
  LET fresh == {n \in DOMAIN m.nodes :
                  m.nodes[n].neighborsAt = 0 \/ now - m.nodes[n].neighborsAt <= MaxAge}
      tells == {t \in fresh \X Nodes :
                  t[2] # t[1] /\ t[2] \in DOMAIN m.nodes[t[1]].neighbors}
      best  == {t \in tells : <<t[2], t[1]>> \in tells =>
                  TableTime(m.nodes[t[2]]) <= TableTime(m.nodes[t[1]])}
      Link(t) == [NewLink EXCEPT !.snr = m.nodes[t[1]].neighbors[t[2]], !.count = 1,
                    !.at = TableTime(m.nodes[t[1]]), !.neighbor = TRUE]
      keys  == {{t[1], t[2]} : t \in best}
  IN  {[m EXCEPT !.links = [k \in keys |-> Link(pick[k])]] :
         pick \in {f \in [keys -> best] : \A k \in keys : k = {f[k][1], f[k][2]}}}

LoadTraceroutes(m, table) == [m EXCEPT !.traceroutes = LastN(@ \o table, MaxTraceroutes)]

(* The newest rows, as many as the ring has slots.                          *)
LoadRecentEvents(table) == LastN(table, RingSize)

LoadEvents(m, table) ==
  LET after[i \in 0 .. Len(table)] ==
        IF i = 0 THEN m ELSE Replay(after[i - 1], table[i])
  IN  after[Len(table)]
----------------------------------------------------------------------------
(* Every measurement between two nodes that e reports.                      *)
Evidence(e) ==
  (IF e.from # None /\ HasSignal(e) /\ e.start \in 1 .. e.limit
   THEN {[ends |-> {e.from, IF e.to = Broadcast THEN Self ELSE e.to}, snr |-> e.snr, at |-> e.at]}
   ELSE {})
  \cup
  (IF e.type = "NEIGHBOR_INFO"
   THEN {[ends |-> {e.body.reporter, p}, snr |-> e.body.neighbors[p], at |-> e.at] :
           p \in DOMAIN e.body.neighbors}
   ELSE {})

Init ==
  /\ mem = Empty
  /\ configuring = TRUE
  /\ myNode = None
  /\ ignored = None
  /\ todo = <<>>
  /\ nodeRows = <<>>
  /\ eventRows = <<>>
  /\ routeRows = <<>>
  /\ now = 1
  /\ faults = 0
  /\ restarts = 0
  /\ gaps = {}
  /\ observed = {}

(* A packet arrives and is stamped with the time.                           *)
Arrival(p, e) ==
  /\ todo = <<>>
  /\ now < MaxTime
  /\ e = Over([at |-> now], p)
  /\ now' = now + 1
  /\ myNode' = IF e.type = "MY_INFO" THEN e.from ELSE myNode
  /\ ignored' = IF ignored = None /\ e.type = "NODE_INFO" /\ IgnoreName # None
                    /\ At(e.body, "name", None) = IgnoreName
                 THEN e.from ELSE ignored
  /\ observed' = observed \cup Evidence(e)
  /\ UNCHANGED <<rows, faults, restarts, gaps>>

SaveOf(e) == IF e.from = None THEN <<>> ELSE <<[write |-> "node", e |-> e]>>

(* Config phase: AddSilent, then the sender's row; no event row.            *)
Silent(p) ==
  \E e \in {Over([at |-> now], p)} :
    /\ configuring
    /\ Arrival(p, e)
    /\ mem' = updateNode(mem, e)
    /\ todo' = SaveOf(e)
    /\ UNCHANGED configuring

(* Our own telemetry and positions are dropped, and the telemetry of the    *)
(* node to ignore, known once its name was heard.                           *)
Discarded(p) ==
  \/ ~NotIgnoreSelf /\ myNode # None /\ p.from = myNode /\ p.type \in {"TELEMETRY", "POSITION"}
  \/ ignored # None /\ p.from = ignored /\ p.type = "TELEMETRY"

(* Live: Add, then the rows of the event, its sender and its traceroute.    *)
Receive(p) ==
  \E e \in {Over([at |-> now], p)} :
    /\ ~configuring
    /\ ~Discarded(p)
    /\ Arrival(p, e)
    /\ mem' = AddEvent(mem, e)
    /\ todo' = <<[write |-> "event", e |-> e]>> \o SaveOf(e)
                 \o (IF e.type = "TRACEROUTE" THEN <<[write |-> "route", e |-> e]>> ELSE <<>>)
    /\ UNCHANGED configuring

(* The next write is done, or it fails, which is only logged.               *)
Written(kind, table, new) ==
  /\ todo # <<>>
  /\ todo[1].write = kind
  /\ todo' = Tail(todo)
  /\ \/ table' = new /\ UNCHANGED faults
     \/ faults < MaxFaults /\ faults' = faults + 1 /\ UNCHANGED table
  /\ UNCHANGED <<mem, configuring, myNode, ignored, now, restarts, gaps, observed>>

InsertEvent ==
  /\ Written("event", eventRows, Append(eventRows, todo[1].e))
  /\ UNCHANGED <<nodeRows, routeRows>>

SaveNode ==
  /\ Written("node", nodeRows, Put(nodeRows, todo[1].e.from, Row(mem.nodes[todo[1].e.from])))
  /\ UNCHANGED <<eventRows, routeRows>>

InsertTraceroute ==
  /\ Written("route", routeRows, Append(routeRows, todo[1].e.at))
  /\ UNCHANGED <<nodeRows, eventRows>>

(* The config phase ends, or a reconnect begins another; Connection has the *)
(* conditions.                                                              *)
SwitchPhase ==
  /\ todo = <<>>
  /\ configuring' = ~configuring
  /\ UNCHANGED <<mem, myNode, ignored, todo, rows, now, faults, restarts, gaps, observed>>

Tick ==
  /\ now < MaxTime
  /\ now' = now + 1
  /\ UNCHANGED <<mem, configuring, myNode, ignored, todo, rows, faults, restarts, gaps, observed>>

(* The process dies, between two writes perhaps, and starts again with      *)
(* loadHistory.  A query that fails yields nothing.                         *)
Restart ==
  /\ restarts < MaxRestarts
  /\ restarts' = restarts + 1
  /\ \E fails \in SUBSET {"nodes", "routes", "events"} :
       /\ faults + Cardinality(fails) <= MaxFaults
       /\ faults' = faults + Cardinality(fails)
       /\ LET table  == IF "nodes" \in fails THEN <<>> ELSE nodeRows
              routes == IF "routes" \in fails THEN <<>> ELSE routeRows
              events == IF "events" \in fails THEN <<>> ELSE LoadRecentEvents(eventRows)
          IN  /\ \E m \in Rebuilt(LoadNodes(Empty, table)) :
                   mem' = LoadEvents(LoadTraceroutes(m, routes), events)
              /\ gaps' = (DOMAIN nodeRows \cup {eventRows[i].from : i \in DOMAIN eventRows})
                           \ DOMAIN table
  /\ configuring' = TRUE
  /\ myNode' = None
  /\ ignored' = None
  /\ todo' = <<>>
  /\ UNCHANGED <<rows, now, observed>>

Next ==
  \/ \E p \in Packets : Silent(p) \/ Receive(p)
  \/ InsertEvent
  \/ SaveNode
  \/ InsertTraceroute
  \/ SwitchPhase
  \/ Tick
  \/ Restart

Spec == Init /\ [][Next]_vars
----------------------------------------------------------------------------
Known == DOMAIN mem.nodes

(* No link is made up: its SNR and time are those of one packet that no     *)
(* relay had touched, with the link's ends as sender and destination, or    *)
(* those of one neighbour table, across replays and rebuilt tables          *)
(* (store.go:1022-1061, 1249-1325, 1437-1484).                              *)
LinksAreObserved ==
  \A k \in DOMAIN mem.links :
    [ends |-> k, snr |-> mem.links[k].snr, at |-> mem.links[k].at] \in observed

Counted(n, t) ==
  Cardinality({i \in DOMAIN mem.log : mem.log[i].from = n /\ mem.log[i].type = t})

(* The per-node packet counters are never stored and never taken back: a    *)
(* start replays the newest rows into them, and each packet since adds one. *)
(* They agree with these packets exactly, of which the ring holds the       *)
(* newest - until it wraps the counters are those of the ring, from then on *)
(* they exceed it by what it overwrote.  A node whose row the start did not *)
(* find lacks at most what was replayed (store.go:702-708, 1196-1206,       *)
(* 1500-1540; the event row is written before the node row).                *)
CountsMatchLog ==
  /\ mem.events = LastN(mem.log, RingSize)
  /\ \A n \in Nodes, t \in Types :
       /\ n \in Known => mem.nodes[n].byType[t] <= Counted(n, t)
       /\ n \notin gaps => Counted(n, t) = IF n \in Known THEN mem.nodes[n].byType[t] ELSE 0

(* Each unicast packet since the start is in exactly one conversation, on   *)
(* the side of its sender, and in exactly one class that is not broadcast   *)
(* (store.go:1076-1130): pairs and classes, counted apart, agree, but for   *)
(* packets a node sent itself, which have a class and no conversation; what *)
(* the ring has overwritten since counts as well.                           *)
PairsMatchClasses ==
  LET counts == [k \in DOMAIN mem.pairs |-> mem.pairs[k].count]
      toSelf == {i \in DOMAIN mem.log : mem.log[i].from = mem.log[i].to}
      unicasts == mem.classes["personal"] + mem.classes["from_me"] + mem.classes["transit"]
  IN
  /\ \A k \in DOMAIN mem.pairs :
       /\ k \subseteq Nodes /\ Cardinality(k) = 2
       /\ mem.pairs[k].count = SumFunctionOnSet(mem.pairs[k].tx, k)
       /\ mem.pairs[k].encrypted <= mem.pairs[k].count
  /\ unicasts - SumFunction(counts) \in 0 .. Cardinality(toSelf)

(* A row as fresh as the node in memory is that node: nothing the table     *)
(* stores is dropped on the way out or back in, whichever packet touched    *)
(* the node last and wherever the process died (db.go:376-485).             *)
RowsAreFaithful ==
  \A n \in Known \cap DOMAIN nodeRows :
    /\ nodeRows[n].heard = mem.nodes[n].heard
    /\ nodeRows[n].neighborsAt = mem.nodes[n].neighborsAt
    => \A f \in RowFields : nodeRows[n][f] = mem.nodes[n][f]

(* What was learned of a node (its name, its position) stays in its row     *)
(* through crashes and reloads, unless the start did not find the row: then *)
(* the node's next packet overwrites it with nothing (db.go:376-410,        *)
(* app.go:279-287).                                                         *)
NothingForgotten ==
  [][\A n \in DOMAIN nodeRows \ gaps :
       DOMAIN nodeRows[n].attrs \subseteq DOMAIN nodeRows'[n].attrs]_vars

(* The traceroutes in memory are in order and none of the stored ones       *)
(* between the oldest remembered and now is missing (store.go:980-983,      *)
(* 1488-1495).                                                              *)
TraceroutesAreNewest ==
  LET held == mem.traceroutes IN
  /\ \A i, j \in DOMAIN held : i < j => held[i] < held[j]
  /\ \A i \in DOMAIN held, j \in DOMAIN routeRows :
       held[i] <= routeRows[j] => \E k \in DOMAIN held : held[k] = routeRows[j]

DeviceModels == {p.body.hw_model : p \in {q \in Packets : q.type = "METADATA"}}

OfDevice(local) == "hw_model" \in DOMAIN local /\ local["hw_model"] \in DeviceModels

(* "DeviceMetadata is authoritative if present" (store.go:852): whatever    *)
(* the order of NodeInfo and metadata, the hardware model shown for our own *)
(* node is the metadata's once it came.                                     *)
MetadataWins ==
  [][restarts' = restarts /\ OfDevice(mem.local) => OfDevice(mem'.local)]_vars

(* A record of a relayed reception stands only as long as no direct one of  *)
(* that node was heard, and a direct record is of a direct reception (the   *)
(* header of dx.go: "If no direct reception is known we fall back").        *)
DXPrefersDirect ==
  \A n \in DOMAIN mem.dx, i \in DOMAIN mem.log :
    LET e == mem.log[i] IN
    e.from = n /\ HasSignal(e) =>
      /\ e.at > mem.dx[n].at /\ SingleHop(e) => mem.dx[n].direct
      /\ e.at = mem.dx[n].at => mem.dx[n].direct = SingleHop(e)
=============================================================================
