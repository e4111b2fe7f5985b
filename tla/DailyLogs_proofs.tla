-------------------------- MODULE DailyLogs_proofs --------------------------
(***************************************************************************)
(* Proofs about the daily logs, for every length of a day, flush interval  *)
(* and age of compression, and for every number of lines and faults.  At   *)
(* the end, logs and availability side by side, as MCDays has them: what   *)
(* Availability_proofs shows of the nodes holds there.                     *)
(***************************************************************************)
EXTENDS MCDays, TLAPS, FiniteSetTheorems

----------------------------------------------------------------------------
(* Days.                                                                    *)

(* A day is a natural number, not above the time it holds, and days follow  *)
(* each other as times do.                                                  *)
LEMMA DayType ==
  ASSUME NEW t \in Nat
  PROVE  Day(t) \in Nat /\ Day(t) <= t
BY LogAssumption DEF Day

LEMMA DayMonotone ==
  ASSUME NEW t \in Nat, NEW u \in Nat, t <= u
  PROVE  Day(t) <= Day(u)
BY LogAssumption DEF Day

(* A moment within the bound is in a day within the bound.                  *)
LEMMA DayInDays ==
  ASSUME NEW t \in 0 .. MaxTime
  PROVE  Day(t) \in Days /\ Day(t) \in 0 .. MaxTime
BY DayType, DayMonotone, LogAssumption DEF Days

(* A line belongs to a file.                                                *)
LEMMA HomeType ==
  ASSUME NEW l \in Line
  PROVE  Home(l) \in Files
BY DayInDays DEF Line, Home, Files

----------------------------------------------------------------------------
(* The invariant.                                                           *)

(* A buffer holds accepted lines of its own stream and of the day its file  *)
(* is named after, none older than the last flush; only one whose file is   *)
(* open and in the directory has anything in its buffer; one that is stuck  *)
(* lost a flush to that file; one left without a file is behind the day.    *)
WriterInv(s) ==
  /\ writer[s].date <= Day(now)
  /\ writer[s].buf \subseteq lines
  /\ writer[s].buf # {} => writer[s].handle = "open"
  /\ writer[s].handle = "open" => Target(s) \in files
  /\ writer[s].handle = "dead" => writer[s].date < Day(now)
  /\ writer[s].handle = "open" /\ writer[s].stuck => Target(s) \in failed
  /\ \A l \in writer[s].buf :
       l.stream = s /\ Home(l) = Target(s) /\ l.time >= lastSync

(* The dates the compressor took under the lock are stale as soon as a      *)
(* stream rotates; they still leave out every file written to, because what *)
(* rotated since is not older than the cutoff.                              *)
SnapshotInv ==
  cpc # "idle" =>
    /\ cutoff <= Day(now)
    /\ \A s \in Streams : writer[s].date \in busy \/ writer[s].date >= cutoff

(* The file being compressed is one nobody writes to; an archive is filled  *)
(* once, and the original goes away only when the archive holds all of it.  *)
ArchiveInv ==
  /\ \A f \in Files \ archives : packed[f] = {}
  /\ cpc \in {"copy", "remove"} =>
       file \in archives /\ file[2] < cutoff /\ file[2] \notin busy
  /\ cpc = "copy" => packed[file] = {}
  /\ cpc = "remove" => text[file] \subseteq packed[file]

(* A line that left its buffer is accounted for.                            *)
Kept(l) ==
  \/ l \in text[Home(l)] \cup packed[Home(l)]
  \/ l \in lost
  \/ Home(l) \in failed

LogInv ==
  /\ TypeOK
  /\ IsFiniteSet(lines)
  /\ lastSync <= now
  /\ \A s \in Streams : WriterInv(s)
  /\ SnapshotInv
  /\ ArchiveInv
  /\ LinesKept

----------------------------------------------------------------------------
(* What the operations have in common.                                      *)

(* Operations that fail are counted.                                        *)
LEMMA FaultsType ==
  ASSUME faults \in 0 .. MaxFaults, NEW bad, IsFiniteSet(bad), Faults(bad)
  PROVE  faults' \in 0 .. MaxFaults
BY FS_CardinalityType, LogAssumption DEF Faults

LEMMA StreamsFinite ==
  ASSUME NEW bad \in SUBSET Streams
  PROVE  IsFiniteSet(bad)
<1>1. IsFiniteSet({"main"})
  BY FS_EmptySet, FS_AddElement, {"main"} = {} \cup {"main"}
<1>2. IsFiniteSet({"main", "raw"})
  BY <1>1, FS_AddElement, {"main", "raw"} = {"main"} \cup {"raw"}
<1>3. IsFiniteSet(Streams)
  BY <1>2, FS_AddElement, Streams = {"main", "raw"} \cup {"fw"} DEF Streams
<1> QED BY <1>3, FS_Subset

(* A flush only adds to files of the streams it is about, and those that    *)
(* are written to; what was in their buffers is in the files of its day, or *)
(* that flush is known to have failed.                                      *)
LEMMA FlushKeeps ==
  ASSUME TypeOK, \A s \in Streams : WriterInv(s),
         NEW S \in SUBSET Streams, NEW bad \in SUBSET Streams, Flush(S, bad)
  PROVE  /\ text' \in [Files -> SUBSET Line]
         /\ \A f \in Files : text[f] \subseteq text'[f]
         /\ \A f \in Files : \/ f = Target(f[1]) /\ writer[f[1]].handle = "open"
                             \/ text'[f] = text[f]
         /\ failed \subseteq failed'
         /\ failed' \subseteq Files \cup (Streams \X {NoDay})
         /\ \A s \in S : \A l \in writer[s].buf :
              l \in text'[Home(l)] \/ Home(l) \in failed'
<1> USE DEF TypeOK
<1>1. \A s \in Streams : writer[s] \in Writer /\ writer[s].buf \subseteq Line
  BY DEF Writer
<1>2. \A f \in Files : f[1] \in Streams
  BY DEF Files
<1>3. \A f \in Files : text'[f] =
        IF f[1] \in S \ bad /\ f = Target(f[1]) /\ f \in files
        THEN text[f] \cup writer[f[1]].buf ELSE text[f]
  BY DEF Flush
<1>4. text' \in [Files -> SUBSET Line]
  BY <1>1, <1>2 DEF Flush
<1>5. \A f \in Files : \/ f = Target(f[1]) /\ writer[f[1]].handle = "open"
                       \/ text'[f] = text[f]
  <2> SUFFICES ASSUME NEW f \in Files, text'[f] # text[f]
               PROVE  f = Target(f[1]) /\ writer[f[1]].handle = "open"
    OBVIOUS
  <2>1. f = Target(f[1]) /\ writer[f[1]].buf # {}
    BY <1>3
  <2> QED BY <1>2, <2>1 DEF WriterInv
<1>6. \A s \in Streams : Target(s) \in Files \cup (Streams \X {NoDay})
  BY <1>1 DEF Target, Files, Writer
<1>7. failed \subseteq failed' /\ failed' \subseteq Files \cup (Streams \X {NoDay})
  BY <1>6 DEF Flush
<1>8. ASSUME NEW s \in S, NEW l \in writer[s].buf
      PROVE  l \in text'[Home(l)] \/ Home(l) \in failed'
  <2>1. Home(l) = Target(s) /\ Target(s) \in files /\ Target(s) \in Files
    BY DEF WriterInv
  <2>2. Target(s)[1] = s
    BY DEF Target
  <2>3. CASE s \in bad
    BY <2>1, <2>3 DEF Flush
  <2>4. CASE s \notin bad
    BY <1>3, <2>1, <2>2, <2>4
  <2> QED BY <2>3, <2>4
<1> QED BY <1>3, <1>4, <1>5, <1>7, <1>8

----------------------------------------------------------------------------
(* The steps.                                                               *)

(* A new logger keeps the invariant.                                        *)
LEMMA LogInit == Init => LogInv
<1> SUFFICES ASSUME Init PROVE LogInv
  OBVIOUS
<1>1. TypeOK
  <2>1. now \in 0 .. MaxTime /\ lastSync \in Never .. MaxTime /\ faults \in 0 .. MaxFaults
    BY LogAssumption DEF Init, Never
  <2>2. cutoff \in -1 - OlderThan .. MaxTime
    BY LogAssumption DEF Init, NoDay
  <2>3. writer \in [Streams -> Writer]
    BY DEF Init, Writer, Unused
  <2> QED BY <2>1, <2>2, <2>3 DEF Init, TypeOK
<1>2. \A s \in Streams : WriterInv(s)
  BY DayType DEF Init, WriterInv, Unused, NoDay
<1>3. lastSync <= now /\ IsFiniteSet(lines) /\ SnapshotInv /\ ArchiveInv /\ LinesKept
  BY FS_EmptySet, LogAssumption DEF Init, Never, SnapshotInv, ArchiveInv, LinesKept
<1> QED BY <1>1, <1>2, <1>3 DEF LogInv

(* Steps that leave writers, files and lines alone.                         *)
LEMMA AsideKeeps ==
  ASSUME LogInv, TypeOK', SnapshotInv', ArchiveInv',
         UNCHANGED <<now, writer, lastSync, files, lines, lost, failed>>,
         \A f \in Files : text[f] \cup packed[f] \subseteq text'[f] \cup packed'[f]
  PROVE  LogInv'
<1>1. \A s \in Streams : WriterInv(s)'
  BY DEF LogInv, WriterInv, Target
<1>2. \A l \in lines : Home(l) \in Files
  BY HomeType DEF LogInv, TypeOK
<1>3. LinesKept'
  BY <1>2 DEF LogInv, LinesKept
<1> QED BY <1>1, <1>3 DEF LogInv

LEMMA SnapshotKeeps ==
  ASSUME LogInv, Snapshot
  PROVE  LogInv'
<1> USE DEF Snapshot, disk, history
<1>1. Day(now) \in 0 .. MaxTime
  BY DayInDays DEF LogInv, TypeOK
<1>2. TypeOK'
  BY <1>1, LogAssumption DEF LogInv, TypeOK, Writer
<1>3. SnapshotInv'
  BY <1>1, LogAssumption DEF SnapshotInv
<1>4. ArchiveInv'
  BY DEF LogInv, ArchiveInv
<1> QED BY <1>2, <1>3, <1>4, AsideKeeps

LEMMA ListKeeps ==
  ASSUME LogInv, List
  PROVE  LogInv'
<1> USE DEF List, disk, history
<1>1. faults' \in 0 .. MaxFaults
  BY FaultsType, FS_EmptySet, FS_AddElement, {"list"} = {} \cup {"list"}
     DEF LogInv, TypeOK
<1>2. TypeOK'
  BY <1>1 DEF LogInv, TypeOK
<1>3. SnapshotInv'
  BY DEF LogInv, SnapshotInv
<1>4. ArchiveInv'
  BY DEF LogInv, ArchiveInv
<1> QED BY <1>2, <1>3, <1>4, AsideKeeps

LEMMA PickKeeps ==
  ASSUME LogInv, NEW f \in todo, Pick(f)
  PROVE  LogInv'
<1> USE DEF Pick, history
<1>1. faults' \in 0 .. MaxFaults
  BY FaultsType, FS_EmptySet, FS_AddElement, {"open"} = {} \cup {"open"}
     DEF LogInv, TypeOK
<1>2. f \in Files
  BY DEF LogInv, TypeOK
<1>3. TypeOK'
  BY <1>1, <1>2 DEF LogInv, TypeOK
<1>4. SnapshotInv'
  BY DEF LogInv, SnapshotInv
<1>5. ArchiveInv'
  BY <1>2 DEF LogInv, ArchiveInv, Due
<1> QED BY <1>3, <1>4, <1>5, AsideKeeps

LEMMA CopyKeeps ==
  ASSUME LogInv, Copy
  PROVE  LogInv'
<1> USE DEF Copy, history
<1>1. faults' \in 0 .. MaxFaults
  <2>1. IsFiniteSet({"copy"})
    BY FS_Singleton
  <2>2. faults \in 0 .. MaxFaults
    BY DEF LogInv, TypeOK
  <2>3. faults' = faults \/ Faults({"copy"})
    OBVIOUS
  <2> QED BY <2>1, <2>2, <2>3, FaultsType
<1>2. file \in Files
  BY DEF LogInv, ArchiveInv, TypeOK
<1>3. TypeOK'
  BY <1>1, <1>2 DEF LogInv, TypeOK
<1>4. SnapshotInv'
  BY DEF LogInv, SnapshotInv
<1>5. file \in archives
  BY DEF LogInv, ArchiveInv
<1>6. ArchiveInv'
  BY <1>2, <1>5 DEF LogInv, ArchiveInv, TypeOK
<1>7. \A f \in Files : text[f] \cup packed[f] \subseteq text'[f] \cup packed'[f]
  BY <1>2 DEF LogInv, ArchiveInv, TypeOK
<1> QED BY <1>3, <1>4, <1>6, <1>7, AsideKeeps

(* Nobody writes to the file being compressed, whatever the writers did     *)
(* since the snapshot of their dates.                                       *)
LEMMA FileIsIdle ==
  ASSUME LogInv, cpc \in {"copy", "remove"}
  PROVE  \A s \in Streams : Target(s) # file
<1> SUFFICES ASSUME NEW s \in Streams, Target(s) = file PROVE FALSE
  OBVIOUS
<1>1. file[2] = writer[s].date
  BY DEF Target
<1>2. writer[s].date \in Int /\ cutoff \in Int
  BY LogAssumption DEF LogInv, TypeOK, Writer, Days, NoDay
<1> QED BY <1>1, <1>2 DEF LogInv, SnapshotInv, ArchiveInv

LEMMA RemoveKeeps ==
  ASSUME LogInv, Remove
  PROVE  LogInv'
<1> USE DEF Remove, history
<1>1. faults' \in 0 .. MaxFaults
  <2>1. IsFiniteSet({"remove"})
    BY FS_Singleton
  <2>2. faults \in 0 .. MaxFaults
    BY DEF LogInv, TypeOK
  <2>3. faults' = faults \/ Faults({"remove"})
    OBVIOUS
  <2> QED BY <2>1, <2>2, <2>3, FaultsType
<1>2. file \in Files
  BY DEF LogInv, ArchiveInv, TypeOK
<1>3. TypeOK'
  BY <1>1, <1>2 DEF LogInv, TypeOK
<1>4. SnapshotInv' /\ ArchiveInv'
  BY DEF LogInv, SnapshotInv, ArchiveInv
<1>5. \A s \in Streams : Target(s) # file
  BY FileIsIdle
<1>6. \A s \in Streams : WriterInv(s)'
  BY <1>5 DEF LogInv, WriterInv, Target
<1>7. \A f \in Files : text[f] \cup packed[f] \subseteq text'[f] \cup packed'[f]
  BY <1>2 DEF LogInv, ArchiveInv, TypeOK
<1>8. \A l \in lines : Home(l) \in Files
  BY HomeType DEF LogInv, TypeOK
<1>9. LinesKept'
  BY <1>7, <1>8 DEF LogInv, LinesKept
<1> QED BY <1>3, <1>4, <1>6, <1>9 DEF LogInv

LEMMA EndRunKeeps ==
  ASSUME LogInv, EndRun
  PROVE  LogInv'
<1> USE DEF EndRun, disk, history
<1>1. TypeOK'
  BY DEF LogInv, TypeOK
<1>2. SnapshotInv' /\ ArchiveInv'
  BY DEF LogInv, SnapshotInv, ArchiveInv
<1> QED BY <1>1, <1>2, AsideKeeps

LEMMA TickKeeps ==
  ASSUME LogInv, Tick
  PROVE  LogInv'
<1> USE DEF Tick, disk, compressor, history
<1>1. now \in Nat /\ now' \in Nat /\ now <= now'
  BY LogAssumption DEF LogInv, TypeOK
<1>2. Day(now) \in Nat /\ Day(now') \in Nat /\ Day(now) <= Day(now')
  BY <1>1, DayType, DayMonotone
<1>3. TypeOK'
  BY LogAssumption DEF LogInv, TypeOK
<1>4. \A s \in Streams : writer[s].date \in Int
  BY DEF LogInv, TypeOK, Writer, Days, NoDay
<1>5. \A s \in Streams : WriterInv(s)'
  BY <1>2, <1>4 DEF LogInv, WriterInv, Target
<1>6. cutoff \in Int
  BY LogAssumption DEF LogInv, TypeOK
<1>7. SnapshotInv' /\ ArchiveInv'
  BY <1>2, <1>6 DEF LogInv, SnapshotInv, ArchiveInv
<1>8. lastSync <= now'
  BY <1>1, LogAssumption DEF LogInv, TypeOK, Never
<1>9. LinesKept'
  BY DEF LogInv, LinesKept
<1> QED BY <1>3, <1>5, <1>7, <1>8, <1>9 DEF LogInv

LEMMA RestartKeeps ==
  ASSUME LogInv, Restart
  PROVE  LogInv'
<1> USE DEF Restart, disk, history
<1>1. faults' \in 0 .. MaxFaults
  <2>1. IsFiniteSet({"end"})
    BY FS_Singleton
  <2>2. faults \in 0 .. MaxFaults
    BY DEF LogInv, TypeOK
  <2>3. Faults({"end"})
    OBVIOUS
  <2> QED BY <2>1, <2>2, <2>3, FaultsType
<1>2. \A l \in lines : l.stream \in Streams
  BY DEF LogInv, TypeOK, Line
<1>3. \A s \in Streams : writer[s].buf \subseteq lines
  BY DEF LogInv, WriterInv
<1>4. TypeOK'
  <2>1. lost' \subseteq lines /\ writer' \in [Streams -> Writer]
    BY <1>3 DEF LogInv, TypeOK, Writer, Unused
  <2>2. cutoff' \in -1 - OlderThan .. MaxTime /\ lastSync' \in Never .. MaxTime
    BY LogAssumption DEF NoDay, Never
  <2> QED BY <1>1, <2>1, <2>2 DEF LogInv, TypeOK
<1>5. now \in Nat /\ Never <= now
  BY LogAssumption DEF LogInv, TypeOK, Never
<1>6. \A s \in Streams : WriterInv(s)'
  BY <1>5, DayType DEF WriterInv, Unused, NoDay
<1>7. SnapshotInv' /\ ArchiveInv'
  BY DEF LogInv, SnapshotInv, ArchiveInv
<1>8. LinesKept'
  BY <1>2 DEF LogInv, LinesKept
<1> QED BY <1>4, <1>5, <1>6, <1>7, <1>8 DEF LogInv

(* How a step keeps the invariant that flushes the streams of S, or none,   *)
(* and leaves the archives and the compressor alone.                        *)
LEMMA FlushStep ==
  ASSUME LogInv, NEW S \in SUBSET Streams, NEW bad \in SUBSET Streams,
         Flush(S, bad), UNCHANGED <<archives, packed, compressor, lost>>
  PROVE  /\ ArchiveInv'
         /\ \A l \in lines : \/ l.stream \notin S /\ l \in writer[l.stream].buf
                             \/ Kept(l)'
<1>1. TypeOK /\ \A s \in Streams : WriterInv(s)
  BY DEF LogInv
<1>2. ArchiveInv'
  <2>1. ASSUME cpc \in {"copy", "remove"} PROVE text'[file] = text[file]
    <3>1. file \in Files /\ file[1] \in Streams
      BY <2>1 DEF LogInv, ArchiveInv, TypeOK, Files
    <3>2. file # Target(file[1])
      BY <2>1, <3>1, FileIsIdle
    <3> QED BY <1>1, <3>1, <3>2, FlushKeeps
  <2> QED BY <2>1 DEF LogInv, ArchiveInv, compressor
<1>3. \A l \in lines : l.stream \in Streams /\ Home(l) \in Files
  BY <1>1, HomeType DEF TypeOK, Line
<1>4. ASSUME NEW l \in lines, l.stream \in S, l \in writer[l.stream].buf
      PROVE  Kept(l)'
  BY <1>1, <1>4, FlushKeeps DEF Kept
<1>5. ASSUME NEW l \in lines, Kept(l)
      PROVE  Kept(l)'
  BY <1>1, <1>3, <1>5, FlushKeeps DEF Kept
<1> QED BY <1>2, <1>4, <1>5 DEF LogInv, LinesKept, Kept

(* The counted failures of a flush and of an open.                          *)
LEMMA FlushFaults ==
  ASSUME LogInv, NEW bad \in SUBSET Streams,
         Faults(bad) \/ Faults(bad \cup {"open"})
  PROVE  faults' \in 0 .. MaxFaults
<1>1. IsFiniteSet(bad) /\ IsFiniteSet(bad \cup {"open"})
  BY StreamsFinite, FS_AddElement
<1> QED BY <1>1, FaultsType DEF LogInv, TypeOK

(* The line a call adds, on the day it is added.                            *)
LEMMA NewLineType ==
  ASSUME LogInv, NEW s \in Streams, Cardinality(lines) < MaxLines
  PROVE  /\ NewLine(s) \in Line
         /\ Home(NewLine(s)) = <<s, Day(now)>> /\ <<s, Day(now)>> \in Files
         /\ IsFiniteSet(lines \cup {NewLine(s)})
<1>1. Cardinality(lines) \in Nat
  BY FS_CardinalityType DEF LogInv
<1>2. NewLine(s) \in Line
  BY <1>1, LogAssumption DEF NewLine, Line, LogInv, TypeOK
<1>3. IsFiniteSet(lines \cup {NewLine(s)})
  BY FS_AddElement DEF LogInv
<1> QED BY <1>2, <1>3, HomeType DEF Home, NewLine

LEMMA AppendKeeps ==
  ASSUME LogInv, NEW s \in Streams, Append(s)
  PROVE  LogInv'
<1> DEFINE l == NewLine(s)
<1> USE DEF Append, disk, compressor, Then, Ready
<1>1. /\ l \in Line /\ Home(l) = <<s, Day(now)>> /\ IsFiniteSet(lines')
      /\ l.stream = s /\ l.time = now
  BY NewLineType DEF NewLine
<1>2. WriterInv(s) /\ writer[s] \in Writer
  BY DEF LogInv, TypeOK
<1>3. writer[s].handle = "open" /\ Home(l) = Target(s)
  <2>1. writer[s].date \in Int
    BY <1>2 DEF Writer, Days, NoDay
  <2> QED BY <1>1, <1>2, <2>1 DEF WriterInv, Writer, Target
<1> HIDE DEF l
<1>4. TypeOK'
  <2>1. writer' \in [Streams -> Writer]
    BY <1>1 DEF LogInv, TypeOK, Writer, l
  <2> QED BY <1>1, <2>1 DEF LogInv, TypeOK, l
<1>5. \A t \in Streams : WriterInv(t)'
  BY <1>1, <1>3 DEF LogInv, TypeOK, WriterInv, Target, l
<1>6. SnapshotInv' /\ ArchiveInv'
  BY DEF LogInv, TypeOK, SnapshotInv, ArchiveInv
<1>7. LinesKept'
  BY <1>1, <1>2, <1>3 DEF LogInv, TypeOK, LinesKept, WriterInv, l
<1> QED BY <1>1, <1>4, <1>5, <1>6, <1>7 DEF LogInv

LEMMA RotateKeeps ==
  ASSUME LogInv, NEW s \in Streams, Rotate(s)
  PROVE  LogInv'
<1> DEFINE l == NewLine(s)
<1> PICK bad \in SUBSET {s} : Flush({s}, bad) /\ Faults(bad)
  BY DEF Rotate
<1> USE DEF compressor, Then
<1>1. /\ l \in Line /\ Home(l) = <<s, Day(now)>> /\ <<s, Day(now)>> \in Files
      /\ IsFiniteSet(lines \cup {l}) /\ l.stream = s /\ l.time = now
  BY NewLineType DEF NewLine, Rotate
<1> HIDE DEF l
<1>2. /\ writer' = [writer EXCEPT ![s] =
            [date |-> Day(now), handle |-> "open", buf |-> {l}, stuck |-> FALSE]]
      /\ lines' = lines \cup {l} /\ files' = files \cup {<<s, Day(now)>>}
      /\ UNCHANGED <<now, lastSync, archives, packed, compressor, closed, lost>>
      /\ lpc' \in {"raw", "sync"}
  BY DEF Rotate, l
<1>3. Day(now) \in Days
  BY DayInDays DEF LogInv, TypeOK
<1>4. TypeOK /\ \A t \in Streams : WriterInv(t)
  BY DEF LogInv
<1>5. TypeOK'
  <2>1. writer' \in [Streams -> Writer]
    BY <1>1, <1>2, <1>3, <1>4 DEF TypeOK, Writer
  <2>2. faults' \in 0 .. MaxFaults
    BY FlushFaults
  <2>3. text' \in [Files -> SUBSET Line] /\ failed' \subseteq Files \cup (Streams \X {NoDay})
    BY <1>4, FlushKeeps
  <2> QED BY <1>1, <1>2, <1>4, <2>1, <2>2, <2>3 DEF TypeOK
<1>6. failed \subseteq failed'
  BY <1>4, FlushKeeps
<1>7. \A t \in Streams : WriterInv(t)'
  <2>1. WriterInv(s)'
    BY <1>1, <1>2, <1>3, <1>4 DEF LogInv, TypeOK, WriterInv, Target, Days
  <2>2. ASSUME NEW t \in Streams, t # s PROVE WriterInv(t)'
    BY <1>2, <1>4, <1>6, <2>2 DEF TypeOK, WriterInv, Target
  <2> QED BY <2>1, <2>2
<1>8. SnapshotInv'
  BY <1>2, <1>3, <1>4 DEF LogInv, TypeOK, SnapshotInv, Days
<1>9. /\ ArchiveInv'
      /\ \A m \in lines : \/ m.stream # s /\ m \in writer[m.stream].buf
                          \/ Kept(m)'
  BY <1>2, FlushStep
<1>10. LinesKept'
  <2>1. \A m \in lines : m.stream # s => writer'[m.stream] = writer[m.stream]
    BY <1>2, <1>4 DEF TypeOK, Line
  <2>2. l \in writer'[l.stream].buf
    BY <1>1, <1>2, <1>4 DEF TypeOK
  <2> QED BY <1>2, <1>9, <2>1, <2>2 DEF LinesKept, Kept
<1> QED BY <1>1, <1>2, <1>5, <1>7, <1>8, <1>9, <1>10 DEF LogInv

LEMMA RotateFailsKeeps ==
  ASSUME LogInv, NEW s \in Streams, RotateFails(s)
  PROVE  LogInv'
<1> PICK bad \in SUBSET {s} : Flush({s}, bad) /\ Faults(bad \cup {"open"})
  BY DEF RotateFails
<1> USE DEF compressor
<1>1. /\ writer' = [writer EXCEPT ![s].buf = {},
                                  ![s].handle = IF @ = "nil" THEN "nil" ELSE "dead"]
      /\ UNCHANGED <<now, lastSync, files, archives, packed, compressor, closed, lines, lost>>
      /\ lpc' = "idle"
  BY DEF RotateFails
<1>2. TypeOK /\ \A t \in Streams : WriterInv(t)
  BY DEF LogInv
<1>w. /\ writer' \in [Streams -> Writer]
      /\ writer'[s].date = writer[s].date /\ writer'[s].buf = {}
      /\ writer'[s].handle = IF writer[s].handle = "nil" THEN "nil" ELSE "dead"
  <2> DEFINE w == [writer[s] EXCEPT !.buf = {},
                                    !.handle = IF @ = "nil" THEN "nil" ELSE "dead"]
  <2>1. writer' = [writer EXCEPT ![s] = w]
    BY <1>1, <1>2 DEF TypeOK
  <2>2. writer[s] \in Writer
    BY <1>2 DEF TypeOK
  <2>3. /\ w \in Writer /\ w.date = writer[s].date /\ w.buf = {}
        /\ w.handle = IF writer[s].handle = "nil" THEN "nil" ELSE "dead"
    BY <2>2 DEF Writer
  <2> HIDE DEF w
  <2> QED BY <1>2, <2>1, <2>3 DEF TypeOK
<1>3. TypeOK'
  <2>2. faults' \in 0 .. MaxFaults
    BY FlushFaults
  <2>3. text' \in [Files -> SUBSET Line] /\ failed' \subseteq Files \cup (Streams \X {NoDay})
    BY <1>2, FlushKeeps
  <2> QED BY <1>1, <1>2, <1>w, <2>2, <2>3 DEF TypeOK
<1>4. failed \subseteq failed'
  BY <1>2, FlushKeeps
<1>5. \A t \in Streams : WriterInv(t)'
  <2>1. ASSUME writer[s].handle # "nil" PROVE writer[s].date < Day(now)
    <3>1. ~ Ready(s) /\ writer[s].date \in Int /\ Day(now) \in Int
      BY <1>2, DayInDays DEF RotateFails, TypeOK, Writer, Days, NoDay
    <3> QED BY <1>2, <2>1, <3>1 DEF Ready, WriterInv
  <2>2. WriterInv(s)'
    BY <1>1, <1>2, <1>w, <2>1 DEF WriterInv
  <2>3. ASSUME NEW t \in Streams, t # s PROVE WriterInv(t)'
    BY <1>1, <1>2, <1>4, <2>3 DEF TypeOK, WriterInv, Target
  <2> QED BY <2>2, <2>3
<1>6. SnapshotInv'
  BY <1>1, <1>2 DEF LogInv, TypeOK, SnapshotInv
<1>7. /\ ArchiveInv'
      /\ \A m \in lines : \/ m.stream # s /\ m \in writer[m.stream].buf
                          \/ Kept(m)'
  BY <1>1, FlushStep
<1>8. LinesKept'
  <2>1. \A m \in lines : m.stream # s => writer'[m.stream] = writer[m.stream]
    BY <1>1, <1>2 DEF TypeOK, Line
  <2> QED BY <1>1, <1>7, <2>1 DEF LinesKept, Kept
<1> QED BY <1>1, <1>3, <1>5, <1>6, <1>7, <1>8 DEF LogInv

(* The flush of all streams at the end of a call and on Close.              *)
LEMMA FlushAllKeeps ==
  ASSUME LogInv, NEW bad \in SUBSET Streams, Flush(Streams, bad),
         faults' \in 0 .. MaxFaults, lpc' = "idle", closed' \in BOOLEAN,
         writer' \in [Streams -> Writer],
         \A s \in Streams : /\ writer'[s].date = writer[s].date
                            /\ writer'[s].buf = {}
                            /\ writer'[s].handle \in {writer[s].handle, "nil"}
                            /\ writer'[s].stuck => writer[s].stuck \/ s \in bad,
         lastSync' \in {lastSync, now},
         UNCHANGED <<now, files, archives, packed, compressor, lines, lost>>
  PROVE  LogInv'
<1> USE DEF compressor
<1>1. TypeOK /\ (\A t \in Streams : WriterInv(t)) /\ lastSync <= now /\ now \in Nat
  BY LogAssumption DEF LogInv, TypeOK
<1>2. TypeOK'
  <2>1. text' \in [Files -> SUBSET Line] /\ failed' \subseteq Files \cup (Streams \X {NoDay})
    BY <1>1, FlushKeeps
  <2>2. lastSync' \in Never .. MaxTime
    BY <1>1, LogAssumption DEF TypeOK, Never
  <2> QED BY <1>1, <2>1, <2>2 DEF TypeOK
<1>3. failed \subseteq failed' /\ \A s \in bad : Target(s) \in failed'
  BY <1>1, FlushKeeps DEF Flush
<1>4. \A s \in Streams : WriterInv(s)'
  BY <1>1, <1>3 DEF WriterInv, Target
<1>5. SnapshotInv' /\ lastSync' <= now'
  BY <1>1 DEF LogInv, SnapshotInv
<1>6. ArchiveInv' /\ \A l \in lines : l.stream \in Streams /\ Kept(l)'
  BY <1>1, FlushStep DEF TypeOK, Line
<1>7. LinesKept'
  BY <1>6 DEF LinesKept, Kept
<1> QED BY <1>2, <1>4, <1>5, <1>6, <1>7 DEF LogInv

LEMMA MaybeSyncKeeps ==
  ASSUME LogInv, MaybeSync
  PROVE  LogInv'
<1>1. CASE now - lastSync <= SyncEvery
  <2>1. TypeOK'
    BY <1>1 DEF LogInv, TypeOK, MaybeSync, compressor
  <2>2. SnapshotInv' /\ ArchiveInv'
    BY <1>1 DEF LogInv, MaybeSync, SnapshotInv, ArchiveInv, compressor
  <2> QED BY <1>1, <2>1, <2>2, AsideKeeps DEF MaybeSync
<1>2. CASE ~ (now - lastSync <= SyncEvery)
  <2> PICK bad \in SUBSET Pending(Streams) :
             Flush(Streams, bad) /\ Faults(bad) /\ writer' = AfterFlush(bad)
    BY <1>2 DEF MaybeSync
  <2>1. bad \in SUBSET Streams
    BY DEF Pending
  <2>2. faults' \in 0 .. MaxFaults
    BY <2>1, FlushFaults
  <2>3. /\ writer' \in [Streams -> Writer]
        /\ \A s \in Streams : /\ writer'[s].date = writer[s].date
                              /\ writer'[s].buf = {}
                              /\ writer'[s].handle = writer[s].handle
                              /\ writer'[s].stuck => writer[s].stuck \/ s \in bad
    BY <2>1 DEF LogInv, TypeOK, Writer, AfterFlush
  <2>4. /\ lpc' = "idle" /\ lastSync' = now /\ closed' \in BOOLEAN
        /\ UNCHANGED <<now, files, archives, packed, compressor, lines, lost>>
    BY <1>2 DEF MaybeSync, LogInv, TypeOK
  <2> QED BY <2>1, <2>2, <2>3, <2>4, FlushAllKeeps
<1> QED BY <1>1, <1>2

LEMMA CloseKeeps ==
  ASSUME LogInv, Close
  PROVE  LogInv'
<1> PICK bad \in SUBSET Pending(Streams) : Flush(Streams, bad) /\ Faults(bad)
  BY DEF Close
<1>1. bad \in SUBSET Streams
  BY DEF Pending
<1>2. faults' \in 0 .. MaxFaults
  BY <1>1, FlushFaults
<1>3. /\ writer' \in [Streams -> Writer]
      /\ \A s \in Streams : /\ writer'[s].date = writer[s].date
                            /\ writer'[s].buf = {}
                            /\ writer'[s].handle = "nil"
                            /\ writer'[s].stuck = writer[s].stuck
  BY DEF LogInv, TypeOK, Writer, Close
<1> QED BY <1>1, <1>2, <1>3, FlushAllKeeps DEF Close

LEMMA LogStep ==
  ASSUME LogInv, [Next]_vars
  PROVE  LogInv'
<1>1. CASE Log
  BY <1>1, AppendKeeps, RotateKeeps, RotateFailsKeeps, MaybeSyncKeeps DEF Log
<1>2. CASE Compress
  BY <1>2, SnapshotKeeps, ListKeeps, PickKeeps, CopyKeeps, RemoveKeeps, EndRunKeeps
     DEF Compress
<1>3. CASE Close \/ Restart \/ Tick
  BY <1>3, CloseKeeps, RestartKeeps, TickKeeps
<1>4. CASE UNCHANGED vars
  <2> USE <1>4 DEF vars, disk, compressor, history
  <2>1. TypeOK' /\ SnapshotInv' /\ ArchiveInv'
    BY DEF LogInv, TypeOK, SnapshotInv, ArchiveInv
  <2> QED BY <2>1, AsideKeeps
<1> QED BY <1>1, <1>2, <1>3, <1>4 DEF Next

----------------------------------------------------------------------------
(* The theorems.                                                            *)

(* For every value of the constants writers, directory and compressor stay  *)
(* within their types (logger.go:29-88, 93-154).                            *)
THEOREM TypeCorrect == Spec => []TypeOK
<1>1. Init => LogInv
  BY LogInit
<1>2. LogInv /\ [Next]_vars => LogInv'
  BY LogStep
<1>3. LogInv => TypeOK
  BY DEF LogInv
<1> QED BY <1>1, <1>2, <1>3, PTL DEF Spec

(* For every value of the constants no line is lost silently                *)
(* (logger.go:93-154, 203-312, 389-416): whatever the compressor, rotation, *)
(* failing operations, Close and crashes do in between, an accepted line is *)
(* in its buffer, its file or that file's archive, was in a buffer when the *)
(* process ended, or had a flush to its file fail.                          *)
THEOREM LinesCorrect == Spec => []LinesKept
<1>1. Init => LogInv
  BY LogInit
<1>2. LogInv /\ [Next]_vars => LogInv'
  BY LogStep
<1>3. LogInv => LinesKept
  BY DEF LogInv
<1> QED BY <1>1, <1>2, <1>3, PTL DEF Spec

(* For every flush interval: when a Log call has come to its end, nothing   *)
(* older than the interval is still buffered (logger.go:316-341).           *)
THEOREM LossCorrect == Spec => LossBounded
<1> DEFINE Bounded == lpc = "sync" /\ lpc' = "idle" =>
             \A s \in Streams : \A l \in writer'[s].buf : l.time >= now - SyncEvery
<1>1. Init => LogInv
  BY LogInit
<1>2. LogInv /\ [Next]_vars => LogInv'
  BY LogStep
<1>3. LogInv /\ [Next]_vars => [Bounded]_vars
  <2> SUFFICES ASSUME LogInv, Next, lpc = "sync", lpc' = "idle",
                      NEW s \in Streams, NEW l \in writer'[s].buf
               PROVE  l.time >= now - SyncEvery
    BY DEF vars
  <2>1. CASE MaybeSync
    <3>1. writer' = writer /\ now - lastSync <= SyncEvery
      <4>1. \A bad : AfterFlush(bad)[s].buf = {}
        BY DEF AfterFlush, LogInv, TypeOK, Writer
      <4> QED BY <2>1, <4>1 DEF MaybeSync
    <3>2. l \in Line /\ l.time >= lastSync
      BY <3>1 DEF LogInv, TypeOK, WriterInv, Writer
    <3> QED BY <3>1, <3>2, LogAssumption DEF LogInv, TypeOK, Line, Never
  <2>2. CASE Restart
    BY <2>2 DEF Restart, Unused
  <2> QED BY <2>1, <2>2 DEF Next, Log, Append, Rotate, RotateFails, Turn, Compress,
               Snapshot, List, Pick, Copy, Remove, EndRun, Close, Tick
<1> QED BY <1>1, <1>2, <1>3, PTL DEF Spec, LossBounded
----------------------------------------------------------------------------
(* Logs and nodes side by side.  A step of one leaves the others' variables *)
(* alone.                                                                   *)
A == INSTANCE Availability_proofs WITH MaxTime <- LastTick

LEMMA LogsOfDays == MCSpec => []TypeOK
<1>1. MCInit => Init
  BY DEF MCInit
<1>2. [MCNext]_allVars => [Next]_vars
  BY DEF MCNext, allVars, vars
<1>3. LogInv => TypeOK
  BY DEF LogInv
<1> QED BY <1>1, <1>2, <1>3, LogInit, LogStep, PTL DEF MCSpec

(* Two readings of one table.                                               *)
LEMMA SameUptime ==
  \A r, x, y : N!NodeUptime(r, x, y) = A!NodeUptime(r, x, y)
BY DEF N!NodeUptime, A!NodeUptime, N!Walk, A!Walk

LEMMA SamePruned == \A r, x : N!Pruned(r, x) = A!Pruned(r, x)
BY DEF N!Pruned, A!Pruned

LEMMA SameLast == \A s : N!Last(s) = A!Last(s)
BY DEF N!Last, A!Last

LEMMA SameCardinality == \A S : N!Cardinality(S) = A!Cardinality(S)
BY DEF N!Cardinality, A!Cardinality

LEMMA NodesOfDays == MCSpec => A!Spec
<1> USE DEF N!NoFrame, A!NoFrame, N!NoRow, A!NoRow
<1>1. MCInit => A!Init
  BY DEF MCInit, N!Init, A!Init
<1>2. [MCNext]_allVars => [A!Next]_A!vars
  <2> SUFFICES ASSUME [MCNext]_allVars PROVE [A!Next]_A!vars
    OBVIOUS
  <2>1. CASE N!Next
    <3>1. \A n \in Nodes : N!Decode(n) => A!Decode(n)
      BY DEF N!Decode, A!Decode
    <3>2. N!MarkNodeHeard => A!MarkNodeHeard
      BY DEF N!MarkNodeHeard, A!MarkNodeHeard, N!Overtaken, A!Overtaken
    <3>3. N!InsertOnline => A!InsertOnline
      BY DEF N!InsertOnline, A!InsertOnline
    <3>4. N!ScanOffline => A!ScanOffline
      BY DEF N!ScanOffline, A!ScanOffline
    <3>5. \A row \in closing : N!InsertOffline(row) => A!InsertOffline(row)
      BY DEF N!InsertOffline, A!InsertOffline
    <3>6. N!Cleanup => A!Cleanup
      BY SamePruned DEF N!Cleanup, A!Cleanup
    <3>7. N!Restart => A!Restart
      BY DEF N!Restart, A!Restart
    <3>8. N!Tick => A!Tick
      BY DEF N!Tick, A!Tick
    <3> QED
      BY <2>1, <3>1, <3>2, <3>3, <3>4, <3>5, <3>6, <3>7, <3>8
         DEF N!Next, A!Next, N!ReadLoop, A!ReadLoop, N!Scanner, A!Scanner
  <2>2. CASE UNCHANGED nodeVars
    BY <2>2 DEF nodeVars, A!vars
  <2> QED BY <2>1, <2>2 DEF MCNext, allVars
<1> QED BY <1>1, <1>2, PTL DEF MCSpec, A!Spec

LEMMA NodesFit == A!AvailabilityAssumption
BY NodesAssumption DEF N!AvailabilityAssumption, A!AvailabilityAssumption

(* Type correctness of writers, directory and compressor, of tracker, rows  *)
(* in flight and table.                                                     *)
THEOREM DaysTypeCorrect == MCSpec => []TypesOK
<1>1. A!Spec => []A!TypeOK
  BY NodesFit, A!TypeCorrect
<1>2. A!TypeOK => N!TypeOK
  BY DEF A!TypeOK, N!TypeOK, A!Frame, N!Frame, A!NoFrame, N!NoFrame, A!Row, N!Row,
         A!NoRow, N!NoRow, A!Reasons, N!Reasons
<1> QED BY <1>1, <1>2, LogsOfDays, NodesOfDays, PTL DEF TypesOK

(* Tracker and table agree: once the rows of a node are in, and none of     *)
(* them was lost or inserted out of order, its newest row says what the     *)
(* tracker says (diagnostics.go:39-58, 63-82), for all thresholds, periods  *)
(* and retentions.                                                          *)
THEOREM TrackerCorrect == MCSpec => []LogMatchesTracker
<1>1. A!Spec => []A!LogMatchesTracker
  BY NodesFit, A!TrackerCorrect
<1>2. A!LogMatchesTracker => LogMatchesTracker
  BY SameLast
     DEF LogMatchesTracker, A!LogMatchesTracker, N!LogMatchesTracker, A!Settled, N!Settled,
         A!Excused, N!Excused, A!Reasons, N!Reasons
<1> QED BY <1>1, <1>2, NodesOfDays, PTL

(* Uptime is never understated: every tick of a window that falls within    *)
(* the threshold of a report is counted, unless a row of the node was lost  *)
(* or inserted out of order (diagnostics.go:84-129).                        *)
THEOREM UptimeComplete == MCSpec => []UptimeCounted
<1>1. A!Spec => []A!UptimeCounted
  BY NodesFit, A!UptimeComplete
<1>2. A!UptimeCounted => UptimeCounted
  BY SameUptime, SameCardinality
     DEF UptimeCounted, A!UptimeCounted, N!UptimeCounted, A!Settled, N!Settled,
         A!Excused, N!Excused, A!Reasons, N!Reasons, A!Windows, N!Windows, A!Heard, N!Heard
<1> QED BY <1>1, <1>2, NodesOfDays, PTL

(* Uptime is never overstated: a tick that is counted is within the         *)
(* threshold of a report or in a silence too short for a scan to see.       *)
THEOREM UptimeSound == MCSpec => []UptimeNotInflated
<1>1. A!Spec => []A!UptimeNotInflated
  BY NodesFit, A!UptimeSound
<1>2. A!UptimeNotInflated => UptimeNotInflated
  BY SameUptime, SameCardinality
     DEF UptimeNotInflated, A!UptimeNotInflated, N!UptimeNotInflated, A!NotInflatedExcept,
         N!NotInflatedExcept, A!Settled, N!Settled, A!Excused, N!Excused, A!Reasons,
         N!Reasons, A!Windows, N!Windows, A!Heard, N!Heard, A!Bridged, N!Bridged
<1> QED BY <1>1, <1>2, NodesOfDays, PTL
=============================================================================
