------------------------------ MODULE DailyLogs ------------------------------
(***************************************************************************)
(* The daily log files and their compression.  The read loop appends lines *)
(* through buffered writers, one per stream, that rotate at midnight; a    *)
(* background loop turns old files into archives; both meet failing I/O,   *)
(* shutdown and crashes.                                                   *)
(*                                                                         *)
(* A Log call holds l.mu, and so do Close and the compressor's snapshot of *)
(* the dates.  The compressor's work on the files is outside the lock: it  *)
(* may come between any two steps of a Log call.                           *)
(***************************************************************************)
EXTENDS Integers, FiniteSets

CONSTANTS
  RawLog,      (* --raw-log: mesh events are also logged raw               *)
  DayLength,   (* clock ticks per day                                      *)
  SyncEvery,   (* maybeSyncLocked: ticks between two flushes               *)
  OlderThan,   (* --log-compress-days                                      *)
  MaxTime,     (* bound: last value of the clock                           *)
  MaxLines,    (* bound: lines logged                                      *)
  MaxFaults    (* bound: failing file operations and ends of the process   *)

(* A day has a length; flush interval and --log-compress-days are not       *)
(* negative.                                                                *)
ASSUME LogAssumption ==
  /\ DayLength \in Nat \ {0}
  /\ SyncEvery \in Nat /\ OlderThan \in Nat
  /\ MaxTime \in Nat /\ MaxLines \in Nat /\ MaxFaults \in Nat

VARIABLES
  now,        (* time.Now()                                                *)
  lpc,        (* what the Log call in progress does next                   *)
  writer,     (* per stream: date, handle, buffer and its sticky error     *)
  lastSync,   (* lastSync                                                  *)
  files,      (* the plain files in the directory                          *)
  text,       (* their lines                                               *)
  archives,   (* the .gz files in the directory                            *)
  packed,     (* their lines; none when the archive is incomplete          *)
  cpc,        (* where CompressOldLogs is                                  *)
  cutoff,     (* its cutoffDate                                            *)
  busy,       (* its snapshot of the writers' dates                        *)
  todo,       (* files of its directory listing not looked at yet          *)
  file,       (* the file it is at                                         *)
  closed,     (* Close has been called                                     *)
  faults,     (* bound: failures and ends so far                           *)
  lines,      (* history: lines accepted by a Log call                     *)
  lost,       (* history: lines in a buffer when the process ended         *)
  failed      (* history: files some flush to which failed                 *)

disk       == <<files, text, archives, packed>>
compressor == <<cpc, cutoff, busy, todo, file>>
history    == <<lines, lost, failed>>
vars == <<now, lpc, writer, lastSync, disk, compressor, closed, faults, history>>

----------------------------------------------------------------------------
Streams == {"main", "raw", "fw"}
Day(t)  == t \div DayLength
Days    == 0 .. Day(MaxTime)
NoDay   == -1
Files   == Streams \X Days
NoFile  == <<"main", NoDay>>
Never   == -1 - SyncEvery
Line    == [id : 1 .. MaxLines, stream : Streams, time : 0 .. MaxTime]
Home(l) == <<l.stream, Day(l.time)>>

(* A handle is nil, open, or closed by a rotation that could not open the   *)
(* next file.  A buffer that once failed to flush takes no more lines.      *)
Writer == [date : Days \cup {NoDay}, handle : {"nil", "open", "dead"},
           buf : SUBSET Line, stuck : BOOLEAN]
Unused == [date |-> NoDay, handle |-> "nil", buf |-> {}, stuck |-> FALSE]

(* The file a stream's handle was opened on.                                *)
Target(s) == <<s, writer[s].date>>

(* The streams of S with something to flush, of which those in bad fail.    *)
(* A handle on a file that is no longer in the directory writes to nowhere. *)
Pending(S) == {s \in S : writer[s].buf # {}}
Flush(S, bad) ==
  /\ bad \subseteq Pending(S)
  /\ text' = [f \in Files |->
       IF f[1] \in S \ bad /\ f = Target(f[1]) /\ f \in files
       THEN text[f] \cup writer[f[1]].buf ELSE text[f]]
  /\ failed' = failed \cup {Target(s) : s \in bad}

(* Every operation in bad fails.                                            *)
Faults(bad) ==
  /\ faults' = faults + Cardinality(bad)
  /\ faults' <= MaxFaults

----------------------------------------------------------------------------
Init ==
  /\ now = 0
  /\ lpc = "idle"
  /\ writer = [s \in Streams |-> Unused]
  /\ lastSync = Never
  /\ files = {}
  /\ text = [f \in Files |-> {}]
  /\ archives = {}
  /\ packed = [f \in Files |-> {}]
  /\ cpc = "idle"
  /\ cutoff = NoDay
  /\ busy = {}
  /\ todo = {}
  /\ file = NoFile
  /\ closed = FALSE
  /\ faults = 0
  /\ lines = {}
  /\ lost = {}
  /\ failed = {}

----------------------------------------------------------------------------
(* Log.                                                                     *)

(* A LogRecord goes to the firmware log, a mesh event to the main log and   *)
(* then, if enabled, to the raw log.                                        *)
Turn(s) ==
  \/ lpc = "idle" /\ s \in {"fw", "main"}
  \/ lpc = "raw" /\ s = "raw"

(* What a call does after the line of stream s.                             *)
Then(s) == IF s = "main" /\ RawLog THEN "raw" ELSE "sync"

NewLine(s) == [id |-> Cardinality(lines) + 1, stream |-> s, time |-> now]

Ready(s) == writer[s].date = Day(now) /\ writer[s].handle # "nil"

(* The right file is open: the line goes to the buffer, or nowhere if the   *)
(* buffer is stuck.                                                         *)
Append(s) ==
  /\ Turn(s)
  /\ Ready(s)
  /\ Cardinality(lines) < MaxLines
  /\ writer' = IF writer[s].stuck THEN writer
               ELSE [writer EXCEPT ![s].buf = @ \cup {NewLine(s)}]
  /\ lines' = lines \cup {NewLine(s)}
  /\ lpc' = Then(s)
  /\ UNCHANGED <<now, lastSync, disk, compressor, closed, faults, lost, failed>>

(* ensureFile, ensureRawFile, ensureFwFile with a new day or after Close:   *)
(* flush and close the old file whatever comes of it, open the new one, and *)
(* append the line to a new buffer.                                         *)
Rotate(s) ==
  /\ Turn(s)
  /\ ~ Ready(s)
  /\ Cardinality(lines) < MaxLines
  /\ \E bad \in SUBSET {s} : Flush({s}, bad) /\ Faults(bad)
  /\ writer' = [writer EXCEPT ![s] =
       [date |-> Day(now), handle |-> "open", buf |-> {NewLine(s)}, stuck |-> FALSE]]
  /\ files' = files \cup {<<s, Day(now)>>}
  /\ lines' = lines \cup {NewLine(s)}
  /\ lpc' = Then(s)
  /\ UNCHANGED <<now, lastSync, archives, packed, compressor, closed, lost>>

(* The new file cannot be opened: Log returns with the old file closed and  *)
(* its date kept, and without the flush at its end.                         *)
RotateFails(s) ==
  /\ Turn(s)
  /\ ~ Ready(s)
  /\ \E bad \in SUBSET {s} : Flush({s}, bad) /\ Faults(bad \cup {"open"})
  /\ writer' = [writer EXCEPT ![s].buf = {},
                              ![s].handle = IF @ = "nil" THEN "nil" ELSE "dead"]
  /\ lpc' = "idle"
  /\ UNCHANGED <<now, lastSync, files, archives, packed, compressor, closed,
                 lines, lost>>

AfterFlush(bad) ==
  [s \in Streams |-> [writer[s] EXCEPT !.buf = {}, !.stuck = @ \/ s \in bad]]

(* Faulty variant: the firmware log is forgotten.                           *)
MaybeSyncMesh ==
  /\ lpc = "sync"
  /\ lpc' = "idle"
  /\ IF now - lastSync <= SyncEvery
     THEN UNCHANGED <<writer, lastSync, text, faults, failed>>
     ELSE /\ \E bad \in SUBSET Pending({"main", "raw"}) :
               /\ Flush({"main", "raw"}, bad)
               /\ Faults(bad)
               /\ writer' = [AfterFlush(bad) EXCEPT !["fw"] = writer["fw"]]
          /\ lastSync' = now
  /\ UNCHANGED <<now, files, archives, packed, compressor, closed, lines, lost>>

(* maybeSyncLocked at the end of the call, for all three streams.           *)
MaybeSync ==
  /\ lpc = "sync"
  /\ lpc' = "idle"
  /\ IF now - lastSync <= SyncEvery
     THEN UNCHANGED <<writer, lastSync, text, faults, failed>>
     ELSE /\ \E bad \in SUBSET Pending(Streams) :
               Flush(Streams, bad) /\ Faults(bad) /\ writer' = AfterFlush(bad)
          /\ lastSync' = now
  /\ UNCHANGED <<now, files, archives, packed, compressor, closed, lines, lost>>

Log ==
  \/ \E s \in Streams : Append(s) \/ Rotate(s) \/ RotateFails(s)
  \/ MaybeSync

----------------------------------------------------------------------------
(* CompressOldLogs.                                                         *)

(* Under the lock: the cutoff and the dates being written.                  *)
Snapshot ==
  /\ cpc = "idle"
  /\ lpc = "idle"
  /\ cutoff' = Day(now) - OlderThan
  /\ busy' = {writer[s].date : s \in Streams}
  /\ cpc' = "list"
  /\ UNCHANGED <<now, lpc, writer, lastSync, disk, todo, file, closed, faults, history>>

(* os.ReadDir, without the lock.                                            *)
List ==
  /\ cpc = "list"
  /\ \/ todo' = files /\ cpc' = "scan" /\ UNCHANGED faults
     \/ todo' = {} /\ cpc' = "idle" /\ Faults({"list"})
  /\ UNCHANGED <<now, lpc, writer, lastSync, disk, cutoff, busy, file, closed, history>>

(* Faulty variant: files being written are not left out.                    *)
DueAny(f) == f[2] < cutoff /\ f \notin archives

(* A file to compress: old enough, not being written, not compressed yet.   *)
Due(f) == f[2] < cutoff /\ f[2] \notin busy /\ f \notin archives

(* The next file of the listing; gzipFile opens it and creates the archive. *)
Pick(f) ==
  /\ cpc = "scan"
  /\ f \in todo
  /\ todo' = todo \ {f}
  /\ \/ /\ Due(f)
        /\ archives' = archives \cup {f}
        /\ file' = f
        /\ cpc' = "copy"
        /\ UNCHANGED faults
     \/ /\ Due(f)
        /\ Faults({"open"})
        /\ UNCHANGED <<archives, file, cpc>>
     \/ ~ Due(f) /\ UNCHANGED <<archives, file, cpc, faults>>
  /\ UNCHANGED <<now, lpc, writer, lastSync, files, text, packed, cutoff, busy,
                 closed, history>>

(* Copy and close the archive; an error leaves it behind incomplete.        *)
Copy ==
  /\ cpc = "copy"
  /\ \/ /\ packed' = [packed EXCEPT ![file] = text[file]]
        /\ cpc' = "remove"
        /\ UNCHANGED faults
     \/ UNCHANGED packed /\ cpc' = "scan" /\ Faults({"copy"})
  /\ UNCHANGED <<now, lpc, writer, lastSync, files, text, archives, cutoff, busy,
                 todo, file, closed, history>>

(* Remove the original, or log that it could not be removed.                *)
Remove ==
  /\ cpc = "remove"
  /\ \/ /\ files' = files \ {file}
        /\ text' = [text EXCEPT ![file] = {}]
        /\ UNCHANGED faults
     \/ UNCHANGED <<files, text>> /\ Faults({"remove"})
  /\ cpc' = "scan"
  /\ UNCHANGED <<now, lpc, writer, lastSync, archives, packed, cutoff, busy, todo,
                 file, closed, history>>

EndRun ==
  /\ cpc = "scan"
  /\ todo = {}
  /\ cpc' = "idle"
  /\ UNCHANGED <<now, lpc, writer, lastSync, disk, cutoff, busy, todo, file, closed,
                 faults, history>>

Compress == Snapshot \/ List \/ (\E f \in todo : Pick(f)) \/ Copy \/ Remove \/ EndRun

----------------------------------------------------------------------------
(* Close, on the goroutine of Shutdown: the read loop may still log, which  *)
(* opens the files again.                                                   *)
Close ==
  /\ lpc = "idle"
  /\ ~ closed
  /\ \E bad \in SUBSET Pending(Streams) : Flush(Streams, bad) /\ Faults(bad)
  /\ writer' = [s \in Streams |-> [writer[s] EXCEPT !.handle = "nil", !.buf = {}]]
  /\ closed' = TRUE
  /\ UNCHANGED <<now, lpc, lastSync, files, archives, packed, compressor, lines, lost>>

(* The process ends after Close, or dies, and another one starts: what was  *)
(* buffered is gone.                                                        *)
Restart ==
  /\ Faults({"end"})
  /\ lost' = lost \cup UNION {writer[s].buf : s \in Streams}
  /\ lpc' = "idle"
  /\ writer' = [s \in Streams |-> Unused]
  /\ lastSync' = Never
  /\ cpc' = "idle" /\ cutoff' = NoDay /\ busy' = {} /\ todo' = {} /\ file' = NoFile
  /\ closed' = FALSE
  /\ UNCHANGED <<now, disk, lines, failed>>

(* Time passes, but not within a Log call: an event is logged in the tick   *)
(* it is decoded in.                                                        *)
Tick ==
  /\ lpc = "idle"
  /\ now < MaxTime
  /\ now' = now + 1
  /\ UNCHANGED <<lpc, writer, lastSync, disk, compressor, closed, faults, history>>

Next == Log \/ Compress \/ Close \/ Restart \/ Tick

Spec == Init /\ [][Next]_vars

(* The compressor's goroutine is scheduled, its daily ticker goes on, and   *)
(* Log calls end.                                                           *)
FairSpec == Spec /\ WF_vars(Compress) /\ WF_vars(Log /\ lpc # "idle")
----------------------------------------------------------------------------
(* Type correctness of writers, directory and compressor.                   *)
TypeOK ==
  /\ now \in 0 .. MaxTime
  /\ lpc \in {"idle", "raw", "sync"}
  /\ writer \in [Streams -> Writer]
  /\ lastSync \in Never .. MaxTime
  /\ files \subseteq Files /\ archives \subseteq Files
  /\ text \in [Files -> SUBSET Line] /\ packed \in [Files -> SUBSET Line]
  /\ cpc \in {"idle", "list", "scan", "copy", "remove"}
  /\ cutoff \in -1 - OlderThan .. MaxTime
  /\ busy \subseteq Days \cup {NoDay}
  /\ todo \subseteq Files
  /\ file \in Files \cup {NoFile}
  /\ closed \in BOOLEAN
  /\ faults \in 0 .. MaxFaults
  /\ lines \subseteq Line /\ lost \subseteq lines /\ failed \subseteq Files \cup
       (Streams \X {NoDay})

(* No line is lost silently (logger.go:93-154, 203-312, 389-416): through   *)
(* rotation, compression beside the writer, failing opens and removes,      *)
(* Close and restarts, a line a Log call accepted is in its buffer, in the  *)
(* file of its own day, or in that file's complete archive, unless the      *)
(* process ended before it was flushed or a flush to that very file failed. *)
LinesKept ==
  \A l \in lines :
    \/ l \in writer[l.stream].buf
    \/ l \in text[Home(l)] \cup packed[Home(l)]
    \/ l \in lost
    \/ Home(l) \in failed

(* What a crash can cost (logger.go:316-341): when a Log call has come to   *)
(* its end, no line of any stream is still buffered that is older than the  *)
(* flush interval, calls that returned early in between included.           *)
LossBounded ==
  [][lpc = "sync" /\ lpc' = "idle" =>
       \A s \in Streams : \A l \in writer'[s].buf : l.time >= now - SyncEvery]_vars

(* logger.go:90-92: CompressOldLogs "gzips any .log/.jsonl files older than *)
(* olderThanDays days", only "the currently open files are never touched".  *)
(* Here an archive that a failed run left behind is no excuse.              *)
OldLogsCompressed ==
  \A f \in Files :
    (f \in files /\ f[2] < Day(now) - OlderThan) ~>
      (f \notin files \/ \E s \in Streams : writer[s].date = f[2])
=============================================================================
