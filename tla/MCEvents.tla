------------------------------- MODULE MCEvents -------------------------------
(* Where an event goes, in three parts that share no state: the ring and   *)
(* the events table (EventRing), the dashboard (Stream), and the schema of  *)
(* the database it is kept in (Schema).  A behaviour is about one part; the *)
(* others stay in their initial state.                                      *)
(*                                                                         *)
(* A ring of three slots and three kinds of event: enough to wrap twice, to *)
(* overwrite loaded events and to tell any two orders apart.                *)
EXTENDS EventRing

CONSTANTS e1, e2, e3, nil

ThreeEvents == {e1, e2, e3}

VARIABLE part  (* what this behaviour is about                              *)

(* Stream: a channel of one slot, so that a burst overflows it.             *)
CONSTANTS ChannelSlots, Limit, Rows, MaxErrors, StreamEvents, MaxFaults

VARIABLES added, pub, handler, chan, wire, source, errors, fetch, view, overview,
          streamFaults, seen, dropped
Live == INSTANCE Stream WITH
  Slots <- ChannelSlots, MaxEvents <- StreamEvents, n <- added, faults <- streamFaults

ASSUME ChannelAssumption == Live!StreamAssumption

VARIABLES tables, indexes, version, opening, outcome
D == INSTANCE Schema
----------------------------------------------------------------------------
streamVars == <<added, pub, handler, chan, wire, source, errors, fetch, view, overview,
                streamFaults, seen, dropped>>
schemaVars == <<tables, indexes, version, opening, outcome>>
allVars    == <<part, vars, streamVars, schemaVars>>

MCInit ==
  /\ part \in {"ring", "stream", "schema"}
  /\ Init /\ Live!Init
  /\ D!Init
  /\ part # "schema" => tables = <<>> /\ version = 0

MCNext ==
  /\ UNCHANGED part
  /\ \/ part = "ring" /\ Next /\ UNCHANGED <<streamVars, schemaVars>>
     \/ part = "stream" /\ Live!Next /\ UNCHANGED <<vars, schemaVars>>
     \/ part = "schema" /\ D!Next /\ UNCHANGED <<vars, streamVars>>

(* Stream's fairness.  Only behaviours about the stream are fair: that      *)
(* matters to ViewConverges alone, the other properties need no fairness.   *)
MCSpec == MCInit /\ [][MCNext]_allVars /\ Live!Fairness
----------------------------------------------------------------------------
(* Type correctness of ring, table, channel and browser.                    *)
TypesOK == TypeOK /\ Live!TypeOK

(* Stream: a subscription carries what was added since, in order and once.  *)
StreamInOrder == Live!StreamInOrder

(* Stream: the dashboard ends up showing the store's total and its newest   *)
(* events.                                                                  *)
ViewConverges == Live!ViewConverges

(* Schema: an Open that succeeds leaves nothing out.                        *)
OpenIsComplete == D!OpenIsComplete

(* Schema: no file of an earlier release is refused for good.               *)
NeverRefused == D!NeverRefused
=============================================================================
