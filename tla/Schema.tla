-------------------------------- MODULE Schema --------------------------------
(***************************************************************************)
(* Opening the database: migrate brings a file written by any earlier      *)
(* release to the current schema, statement by statement, each committed   *)
(* on its own.  The process may die, or a statement fail, between any two. *)
(*                                                                         *)
(* "base" stands for the columns a table always had; the tables no         *)
(* migration touches are one, "others".                                    *)
(***************************************************************************)
EXTENDS Integers, Sequences, SequencesExt

VARIABLES
  tables,      (* the tables of the file, each with its columns            *)
  indexes,     (* the columns an index was made on by a migration          *)
  version,     (* PRAGMA user_version                                      *)
  opening,     (* statements left in migrate; <<>> when it is not running  *)
  outcome      (* what the last Open of this process came to               *)

vars == <<tables, indexes, version, opening, outcome>>
----------------------------------------------------------------------------
schemaVersion == 6

Create(t, cs)  == [op |-> "create", table |-> t, columns |-> cs]
Column(t, c)   == [op |-> "column", table |-> t, columns |-> {c}]
Index(t, c)    == [op |-> "index", table |-> t, columns |-> {c}]
Read           == [op |-> "read", table |-> "", columns |-> {}]
SetVersion     == [op |-> "set", table |-> "", columns |-> {}]

CreateEvents == <<Create("events", {"base"}), Index("events", "base")>>
CreateOthers == <<
  Create("nodes", {"base", "role"}),
  Create("traceroutes", {"base", "snr_towards", "snr_back"}),
  Create("others", {"base"}), Index("others", "base") >>

(* Faulty variant: all indexes on the events are made in one place.         *)
Part1WithIndexes == CreateEvents \o <<Index("events", "class")>> \o CreateOthers

Part1 == CreateEvents \o CreateOthers

(* The statements a database older than v needs.                            *)
Alter(v) ==
  CASE v = 2 -> <<Column("traceroutes", "snr_towards"), Column("traceroutes", "snr_back")>>
    [] v = 3 -> <<Column("events", "hop_start"), Column("events", "packet_id")>>
    [] v = 4 -> <<Column("events", "channel"), Column("events", "via_mqtt"),
                  Column("events", "relay_node"), Column("events", "class"),
                  Index("events", "class"), Index("events", "base"), Index("events", "channel")>>
    [] v = 5 -> <<Column("nodes", "role")>>
    [] v = 6 -> <<Column("nodes", "neighbors_json"), Column("nodes", "neighbors_at"),
                  Column("nodes", "neighbor_broadcast_secs")>>

(* What a database of version v lacks; no statement is for version 1.       *)
AltersSince(v) ==
  LET u == IF v < 1 THEN 1 ELSE v IN
  FlattenSeq([i \in 1 .. schemaVersion - u |-> Alter(u + i)])

(* Faulty variant: the new version is written first.                        *)
Part2VersionFirst(v) == <<SetVersion>> \o AltersSince(v)

(* The rest of migrate once the version is read, Parts 2 and 3.             *)
Part2(v) == AltersSince(v) \o <<SetVersion>>

Altered(v, t) ==
  UNION {s.columns : s \in {q \in UNION {Range(Alter(u)) : u \in 2 .. v} :
                              q.op = "column" /\ q.table = t}}

(* What a complete database of version v has.                               *)
Columns(v) == [t \in {"events", "nodes", "traceroutes", "others"} |-> {"base"} \cup Altered(v, t)]
----------------------------------------------------------------------------
(* The file is new, or a release of an earlier version left it, with the    *)
(* version written or not, or a later one, whose columns we do not know.    *)
Init ==
  /\ \/ tables = <<>> /\ version = 0
     \/ \E v \in 1 .. schemaVersion : tables = Columns(v) /\ version \in {0, v}
     \/ tables = Columns(schemaVersion) /\ version = schemaVersion + 1
     \/ \E v \in 1 .. 4 : tables = [t \in DOMAIN Columns(v) \ {"others"} |-> Columns(v)[t]] /\ version = v
  /\ indexes = {}
  /\ opening = <<>>
  /\ outcome = "closed"

(* The multi-statement Exec of Part 1 first.                                *)
Open ==
  /\ outcome = "closed"
  /\ opening' = Part1 \o <<Read>>
  /\ outcome' = "opening"
  /\ UNCHANGED <<tables, indexes, version>>

(* One statement: a table is created unless it is there, a column added     *)
(* unless it is there (execMigrate), an index needs its column.  A version  *)
(* that cannot be read counts as 0.                                         *)
Execute ==
  /\ outcome = "opening"
  /\ LET s == Head(opening)
         refused == \/ s.op = "index" /\ ~(s.columns \subseteq tables[s.table])
                    \/ s.op = "column" /\ s.table \notin DOMAIN tables IN
       /\ tables' = CASE s.op = "create" /\ s.table \notin DOMAIN tables ->
                           [t \in DOMAIN tables \cup {s.table} |->
                             IF t = s.table THEN s.columns ELSE tables[t]]
                      [] s.op = "column" /\ ~refused ->
                           [tables EXCEPT ![s.table] = @ \cup s.columns]
                      [] OTHER -> tables
       /\ indexes' = IF s.op = "index" /\ ~refused THEN indexes \cup s.columns ELSE indexes
       /\ version' = IF s.op = "set" THEN schemaVersion ELSE version
       /\ \/ /\ s.op = "read"
             /\ \E v \in {version, 0} : opening' = Part2(v)
             /\ UNCHANGED outcome
          \/ /\ s.op # "read"
             /\ opening' = IF refused THEN <<>> ELSE Tail(opening)
             /\ outcome' = IF refused THEN "refused"
                           ELSE IF Len(opening) = 1 THEN "open" ELSE outcome

(* The disk is full, the file locked: migrate returns, and main gives up.   *)
(* Or the process dies.  Somebody starts it again.                          *)
Stop ==
  /\ outcome \in {"opening", "open"}
  /\ opening' = <<>>
  /\ outcome' = "closed"
  /\ UNCHANGED <<tables, indexes, version>>

Next == Open \/ Execute \/ Stop

Spec == Init /\ [][Next]_vars
----------------------------------------------------------------------------
(* Whatever release wrote the file, and however many attempts were cut      *)
(* short, an Open that succeeds leaves every column the queries name        *)
(* (db.go:63-275, 342-410).  So the version on file never promises a column *)
(* that is not there: the next Open would leave it out.                     *)
OpenIsComplete ==
  outcome = "open" =>
    /\ \A t \in DOMAIN Columns(schemaVersion) : Columns(schemaVersion)[t] \subseteq tables[t]
    /\ version = schemaVersion

(* No file an earlier release left makes a statement fail for good          *)
(* (db.go:66-204 names no column that only Part 2 adds).                    *)
NeverRefused == outcome # "refused"
=============================================================================
