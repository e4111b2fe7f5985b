------------------------------- MODULE Framing -------------------------------
(***************************************************************************)
(* Frames on the line to the radio: several goroutines write frames under  *)
(* one mutex, the other end looks for the two magic bytes, reads a length  *)
(* and then that many bytes.  A read that waits too long gives up the      *)
(* frame and looks for the next one; so does a length out of range.        *)
(*                                                                         *)
(* The framing is the same in both directions: writer and reader of the    *)
(* code stand at the two ends of one line here.                            *)
(***************************************************************************)
EXTENDS Integers, Sequences, SequencesExt

CONSTANTS
  Writers,     (* goroutines that call WriteFrame                          *)
  Payloads,    (* what they send: sequences of bytes                       *)
  Noise,       (* bytes the line carries between frames                    *)
  MaxPacket,   (* longest payload: 512                                     *)
  MaxFrames,   (* bound: frames written                                    *)
  MaxFaults    (* bound: bytes of noise, lost bytes and timeouts           *)

VARIABLES
  wmu,         (* the goroutine that holds r.wmu, or none                  *)
  rest,        (* what each goroutine still has to write of its frame      *)
  line,        (* bytes written and not read                               *)
  reader,      (* where ReadPacket is                                      *)
  delivered,   (* the packets it returned                                  *)
  frames,      (* bound on frames, counted                                 *)
  lineFaults,  (* bound on faults, counted                                 *)
  expected,    (* history: the payloads that have to come out, in order    *)
  confused     (* history: the reader may be misled by a damaged frame     *)

history == <<expected, confused>>
vars == <<wmu, rest, line, reader, delivered, frames, lineFaults, history>>
----------------------------------------------------------------------------
Magic1 == 148
Magic2 == 195
Free   == "free"
Bytes  == 0 .. 255

(* Payloads are encoded messages, which are never empty, of any length that *)
(* fits the header; chatter is text, which has no second magic byte.        *)
FramingAssumption ==
  /\ Free \notin Writers
  /\ Payloads \subseteq Seq(Bytes) \ {<<>>}
  /\ Noise \subseteq Bytes \ {Magic2}
  /\ MaxPacket \in Nat \ {0} /\ MaxPacket < 256 * 256
  /\ MaxFrames \in Nat /\ MaxFaults \in Nat

Frame(p) == <<Magic1, Magic2, Len(p) \div 256, Len(p) % 256>> \o p

(* A frame with a frame's beginning in it, after its own.                   *)
LooksLikeFrame(p) ==
  \E i \in 3 .. Len(Frame(p)) - 1 : Frame(p)[i] = Magic1 /\ Frame(p)[i + 1] = Magic2

(* syncMagic, with sawMagic1; readFull for the length and for the payload.  *)
Hunting(saw) == [state |-> "hunt", saw |-> saw, got |-> <<>>, need |-> 0]
InLength     == [state |-> "length", saw |-> FALSE, got |-> <<>>, need |-> 2]
InPayload(n) == [state |-> "payload", saw |-> FALSE, got |-> <<>>, need |-> n]

Fault == lineFaults < MaxFaults /\ lineFaults' = lineFaults + 1

Init ==
  /\ wmu = Free
  /\ rest = [w \in Writers |-> <<>>]
  /\ line = <<>>
  /\ reader = Hunting(FALSE)
  /\ delivered = <<>>
  /\ frames = 0
  /\ lineFaults = 0
  /\ expected = <<>>
  /\ confused = FALSE
----------------------------------------------------------------------------
(* Faulty variant: without the mutex.                                       *)
WriteFrameUnlocked(w, p) ==
  /\ frames < MaxFrames
  /\ rest[w] = <<>>
  /\ rest' = [rest EXCEPT ![w] = IF Len(p) > MaxPacket THEN <<>> ELSE Frame(p)]
  /\ frames' = frames + 1
  /\ expected' = IF Len(p) > MaxPacket THEN expected ELSE Append(expected, p)
  /\ UNCHANGED <<wmu, line, reader, delivered, lineFaults, confused>>

(* WriteFrame up to the lock; a packet too large is refused.                *)
WriteFrame(w, p) ==
  /\ frames < MaxFrames
  /\ wmu = Free
  /\ frames' = frames + 1
  /\ IF Len(p) > MaxPacket
     THEN UNCHANGED <<wmu, rest, expected>>
     ELSE /\ wmu' = w
          /\ rest' = [rest EXCEPT ![w] = Frame(p)]
          /\ expected' = Append(expected, p)
  /\ UNCHANGED <<line, reader, delivered, lineFaults, confused>>

(* port.Write reaches the line byte by byte; the last one frees the lock.   *)
PutByte(w) ==
  /\ rest[w] # <<>>
  /\ line' = Append(line, Head(rest[w]))
  /\ rest' = [rest EXCEPT ![w] = Tail(rest[w])]
  /\ wmu' = IF Len(rest[w]) = 1 THEN Free ELSE wmu
  /\ UNCHANGED <<reader, delivered, frames, lineFaults, history>>

(* Boot chatter between two frames.                                         *)
Chatter ==
  /\ wmu = Free
  /\ Fault
  /\ \E b \in Noise : line' = Append(line, b)
  /\ UNCHANGED <<wmu, rest, reader, delivered, frames, history>>

LoseByte ==
  /\ line # <<>>
  /\ Fault
  /\ line' = Tail(line)
  /\ confused' = TRUE
  /\ UNCHANGED <<wmu, rest, reader, delivered, frames, expected>>
----------------------------------------------------------------------------
(* Faulty variant: a second first magic byte is taken for an ordinary byte. *)
SyncedForgetful(b) ==
  IF b = Magic2 /\ reader.saw THEN InLength ELSE Hunting(b = Magic1 /\ ~reader.saw)

(* syncMagic with the next byte.                                            *)
Synced(b) ==
  IF b = Magic2 /\ reader.saw THEN InLength ELSE Hunting(b = Magic1)

(* The bytes of the part being read, with b.                                *)
With(b) == [reader EXCEPT !.got = Append(reader.got, b), !.need = reader.need - 1]

ReadByte ==
  /\ line # <<>>
  /\ line' = Tail(line)
  /\ LET b == Head(line)
         r == With(b)
         length == r.got[1] * 256 + r.got[2] IN
       \/ /\ reader.state = "hunt"
          /\ reader' = Synced(b)
          /\ UNCHANGED delivered
       \/ /\ reader.state # "hunt" /\ r.need > 0
          /\ reader' = r
          /\ UNCHANGED delivered
       \/ /\ reader.state = "length" /\ r.need = 0
          /\ reader' = IF length \in 1 .. MaxPacket THEN InPayload(length) ELSE Hunting(FALSE)
          /\ UNCHANGED delivered
       \/ /\ reader.state = "payload" /\ r.need = 0
          /\ reader' = Hunting(FALSE)
          /\ delivered' = Append(delivered, r.got)
  /\ UNCHANGED <<wmu, rest, frames, lineFaults, history>>

(* Nothing arrives for 500 ms, on a serial line.  syncMagic goes on with    *)
(* what it has; a frame begun is given up.                                  *)
Timeout ==
  /\ line = <<>>
  /\ Fault
  /\ reader' = IF reader.state = "hunt" THEN reader ELSE Hunting(FALSE)
  /\ LET hit == ~confused /\ reader.state # "hunt"
         lost == expected[Len(delivered) + 1] IN
       /\ expected' = IF confused /\ wmu = Free THEN delivered
                      ELSE IF hit THEN RemoveAt(expected, Len(delivered) + 1)
                      ELSE expected
       /\ confused' = IF confused THEN wmu # Free
                      ELSE hit /\ LooksLikeFrame(lost)
  /\ UNCHANGED <<wmu, rest, line, delivered, frames>>

Next ==
  \/ \E w \in Writers, p \in Payloads : WriteFrame(w, p)
  \/ \E w \in Writers : PutByte(w)
  \/ Chatter \/ LoseByte
  \/ ReadByte \/ Timeout

Spec == Init /\ [][Next]_vars
----------------------------------------------------------------------------
(* Whole frames come out unchanged and in the order they were written:      *)
(* whoever wrote them, whatever chatter came before them, and although a    *)
(* pause in the middle of a frame makes the reader drop it.  Only that one  *)
(* is lost, unless another frame seems to begin in it; after that, or after *)
(* a lost byte, one pause between frames puts the reader back in step       *)
(* (reader.go:183-285, the mutex of WriteFrame; the runs of first magic     *)
(* bytes are reader.go:259).                                                *)
FramesSurvive ==
  ~confused =>
    /\ IsPrefix(delivered, expected)
    /\ line = <<>> /\ wmu = Free => delivered = expected
=============================================================================
