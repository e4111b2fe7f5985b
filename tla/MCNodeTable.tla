----------------------------- MODULE MCNodeTable -----------------------------
(* Our node, two others and one packet of every kind that takes a branch of *)
(* its own: relayed and direct, broadcast and unicast, a neighbour table of *)
(* the sender's and one passed on for another node.                         *)
EXTENDS NodeTable

CONSTANTS me, a, b, none, all

VARIABLE mix  (* the packets a behaviour draws from                         *)

ThreeNodes == {me, a, b}

Packet(type, from, to, snr, limit, body) ==
  [type |-> type, from |-> from, to |-> to, rssi |-> snr, snr |-> snr,
   start |-> IF snr = 0 THEN 0 ELSE 3, limit |-> limit, body |-> body]

Metadata  == Packet("METADATA", none, all, 0, 0, [hw_model |-> "device"])
Me        == Packet("MY_INFO", me, all, 0, 0, [reboots |-> 1])
MyName    == Packet("NODE_INFO", me, all, 0, 0, [name |-> "me", hw_model |-> "node", pos |-> 1])
MyPlace   == Packet("POSITION", me, all, 0, 0, [pos |-> 2])
Name      == Packet("NODE_INFO", a, all, 2, 3, [name |-> "a", pos |-> 3])
Place     == Packet("POSITION", a, all, 1, 2, [pos |-> 4])
Battery   == Packet("TELEMETRY", a, all, 1, 2, [battery |-> 5])
Overheard == Packet("ENCRYPTED", b, a, 1, 2, <<>>)
Reply     == Packet("ENCRYPTED", a, b, 2, 3, <<>>)
Table     == Packet("NEIGHBOR_INFO", a, all, 1, 1, [reporter |-> a, neighbors |-> (b :> 3)])
PassedOn  == Packet("NEIGHBOR_INFO", a, all, 1, 3, [reporter |-> b, neighbors |-> (a :> 4 @@ me :> 3)])
Trace     == Packet("TRACEROUTE", a, me, 2, 2, <<>>)
Sent      == Packet("TRACEROUTE", me, b, 0, 0, <<>>)
Loop      == Packet("ENCRYPTED", me, me, 0, 0, <<>>)

(* A behaviour is about who and where the nodes are, or about what they say *)
(* to each other.                                                           *)
Identity == {Metadata, Me, MyName, MyPlace, Name, Place, Battery}
Talk     == {Me, Overheard, Reply, Table, PassedOn, Trace, Sent, Loop}

AllPackets == Identity \cup Talk
AllTypes == {p.type : p \in AllPackets}

(* The store once the config phase told who and where we are, in time for   *)
(* the few packets of a run to make long-distance records: what two silent  *)
(* packets, the write of our row and the end of the phase lead to.          *)
Prepared ==
  LET m == updateNode(updateNode(Empty, [at |-> 1] @@ Me), [at |-> 2] @@ MyName) IN
  /\ mem = m
  /\ nodeRows = (me :> Row(m.nodes[me]))
  /\ configuring = FALSE
  /\ myNode = me

MCInit ==
  /\ mix \in {Identity, Talk}
  /\ ignored = None /\ todo = <<>> /\ eventRows = <<>> /\ routeRows = <<>>
  /\ now = 3 /\ faults = 0 /\ restarts = 0 /\ gaps = {} /\ observed = {}
  /\ \/ Prepared
     \/ mix = Identity /\ mem = Empty /\ nodeRows = <<>> /\ configuring = TRUE /\ myNode = None

MCNext ==
  /\ UNCHANGED mix
  /\ \/ \E p \in mix : Silent(p) \/ Receive(p)
     \/ InsertEvent \/ SaveNode \/ InsertTraceroute
     \/ SwitchPhase \/ Tick \/ Restart

MCSpec == MCInit /\ [][MCNext]_<<vars, mix>>

(* Positions on a line, 1 and 2 for us, 3 and 4 for others (at distance 0   *)
(* the code keeps no record); 0 is no position.                             *)
OnALine == [p, q \in 0 .. 4 |-> IF p < q THEN q - p ELSE p - q]
=============================================================================
