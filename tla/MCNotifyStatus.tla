--------------------------- MODULE MCNotifyStatus ---------------------------
(* Four kinds of behaviour in one run: both nodes and the scheduler alone;  *)
(* one node and a notify-now request beside the scheduler; one node and the *)
(* requests that reset it, clear the log or change the settings; one node   *)
(* and a scheduler with a grace period that is switched off and on.         *)
(* Queries fail in the first kind only, routing errors come in the first    *)
(* two.                                                                     *)
EXTENDS MCAutoNotify

VARIABLES
  part,    (* which of the four                                            *)
  alone    (* the one node that misbehaves, or NoNode: both                *)

MCInit ==
  /\ Init
  /\ \/ part = "scheduler" /\ alone = NoNode /\ cfg = Live
     \/ part = "notify"    /\ alone \in Nodes /\ cfg = Patient
     \/ part = "operator"  /\ alone \in Nodes /\ cfg \in Changing
     \/ part = "switch"    /\ alone \in Nodes /\ cfg \in Switching

LastTick == [scheduler |-> 5, notify |-> 5, operator |-> 3, switch |-> 4]
Ops      == [scheduler |-> {"idle"}, notify |-> {"idle", "send", "insert"},
             operator |-> {"idle", "delete", "save"}, switch |-> {"idle"}]

Faults   == [scheduler |-> Reasons, notify |-> {"insert", "crash"},
             operator |-> {"operator", "crash"}, switch |-> {"crash"}]

MCNext ==
  /\ Next
  /\ UNCHANGED <<part, alone>>
  /\ clock' <= LastTick[part]
  /\ \A r \in Requests : req'[r].op \in Ops[part] /\ req'[r].node \in {alone, NoNode}
  /\ part # "scheduler" => over' \subseteq {alone}
  /\ part \in {"scheduler", "notify"} => cfg' = cfg
  /\ part = "operator" => cfg' \in Changing
  /\ part = "switch" => cfg' \in Switching
  /\ \A x \in excuses' : x[2] \in Faults[part]

MCSpec == MCInit /\ [][MCNext]_<<vars, part, alone>>
=============================================================================
