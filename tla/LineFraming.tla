----------------------------- MODULE LineFraming -----------------------------
(***************************************************************************)
(* How dump1090::processMessages() (dump1090.cpp) cuts the byte stream     *)
(* into lines: the accumulator, the loop over the terminators a chunk      *)
(* brought, and the limit that drops a run without one.  A byte is its     *)
(* position in the stream of everything ever received, over all            *)
(* connections; of its value only what the loop tests is kept: whether it  *)
(* is a terminator (CR or LF).                                             *)
(***************************************************************************)
EXTENDS Integers, Sequences

CONSTANTS
  BufferLength,  (* buffer_length                                         *)
  MaxBytes,      (* bound of the model: bytes received                    *)
  Time,          (* values of the monotonic clock                         *)
  Heads          (* where a text begins that processMessage() would accept
                    as a message if it were handed it as a line           *)

ASSUME FramingAssumption ==
  /\ BufferLength \in Nat \ {0} /\ MaxBytes \in Nat
  /\ Time \subseteq Nat /\ 0 \in Time

VARIABLES
  received,     (* how many bytes have been received                      *)
  terminators,  (* which of them are CR or LF                             *)
  arrival,      (* when recv() returned each of them                      *)
  opened,       (* how many had been received when each connection opened *)
  rpc,          (* the receive thread: "recv", "lines", "closed"          *)
  base,         (* how many bytes precede the accumulator's first         *)
  start,        (* the loop's offset into the accumulator                 *)
  stamp,        (* the chunk's stamp                                      *)
  now,          (* CLOCK_MONOTONIC                                        *)
  lines         (* what was handed to processMessage(), in order          *)

streamVars == <<received, terminators, arrival>>
vars == <<streamVars, opened, rpc, base, start, stamp, now, lines>>

(* The accumulator holds the bytes base + 1 .. received. *)
Size == received - base

Init ==
  /\ received = 0 /\ terminators = {} /\ arrival = [i \in 1..0 |-> 0]
  /\ opened = {0}
  /\ rpc = "recv" /\ base = 0 /\ start = 0
  /\ stamp = 0 /\ now = 0
  /\ lines = <<>>

Tick ==
  /\ \E t \in Time : t > now /\ now' = t
  /\ UNCHANGED <<streamVars, opened, rpc, base, start, stamp, lines>>

-----------------------------------------------------------------------------
(* A chunk of k bytes arrives, is appended to the accumulator and stamped. *)
Receive ==
  /\ rpc = "recv"
  /\ \E k \in 1..BufferLength :
       /\ received + k <= MaxBytes
       /\ received' = received + k
       /\ \E new \in SUBSET (received + 1 .. received + k) :
            terminators' = terminators \cup new
       /\ arrival' = [i \in 1..received + k |->
                        IF i <= received THEN arrival[i] ELSE now]
  /\ stamp' = now
  /\ rpc' = "lines"
  /\ UNCHANGED <<opened, base, start, now, lines>>

(* accumulator.find_first_of("\r\n", start) finds position p. *)
FindsTerminator(p) ==
  /\ p > base + start
  /\ \A q \in terminators : q > base + start => p <= q

(* What the loop hands to processMessage(). *)
Line(p) ==
  [from |-> base + start + 1, to |-> p - 1, stamp |-> stamp,
   called |-> base + start + 1 \in Heads]

(* Mutant: the loop resumes at the terminator, not behind it. *)
HandleLineResumesAtIt ==
  /\ rpc = "lines"
  /\ \E p \in terminators :
       /\ FindsTerminator(p)
       /\ lines' = IF p > base + start + 1 THEN Append(lines, Line(p)) ELSE lines
       /\ start' = p - base - 1
  /\ UNCHANGED <<streamVars, opened, rpc, base, stamp, now>>

(* Nothing is handed over for the empty line between CR and LF. *)
HandleLine ==
  /\ rpc = "lines"
  /\ \E p \in terminators :
       /\ FindsTerminator(p)
       /\ lines' = IF p > base + start + 1 THEN Append(lines, Line(p)) ELSE lines
       /\ start' = p - base
  /\ UNCHANGED <<streamVars, opened, rpc, base, stamp, now>>

(* Mutants: the limit is already applied to a line that fills the buffer; *)
(* the handled lines stay in the accumulator; the offset is not reset.    *)
EndChunkClearsEarly ==
  /\ rpc = "lines"
  /\ \A q \in terminators : q <= base + start
  /\ base' = IF Size - start >= BufferLength THEN received ELSE base + start
  /\ start' = 0
  /\ rpc' = "recv"
  /\ UNCHANGED <<streamVars, opened, stamp, now, lines>>
EndChunkKeepsLines ==
  /\ rpc = "lines"
  /\ \A q \in terminators : q <= base + start
  /\ base' = IF Size - start > BufferLength THEN received ELSE base
  /\ start' = 0
  /\ rpc' = "recv"
  /\ UNCHANGED <<streamVars, opened, stamp, now, lines>>
EndChunkKeepsStart ==
  /\ rpc = "lines"
  /\ \A q \in terminators : q <= base + start
  /\ base' = IF Size - start > BufferLength THEN received ELSE base + start
  /\ start' = start
  /\ rpc' = "recv"
  /\ UNCHANGED <<streamVars, opened, stamp, now, lines>>

(* No terminator is left: the handled lines are erased, and what remains   *)
(* is dropped if it is longer than a buffer.                               *)
EndChunk ==
  /\ rpc = "lines"
  /\ \A q \in terminators : q <= base + start
  /\ base' = IF Size - start > BufferLength THEN received ELSE base + start
  /\ start' = 0
  /\ rpc' = "recv"
  /\ UNCHANGED <<streamVars, opened, stamp, now, lines>>

(* recv() returns no data, or the descriptor is gone: the thread ends. *)
ConnectionEnds ==
  /\ rpc = "recv"
  /\ rpc' = "closed"
  /\ UNCHANGED <<streamVars, opened, base, start, stamp, now, lines>>

(* Mutant: the accumulator outlives its connection. *)
ConnectKeepsRest ==
  /\ rpc = "closed"
  /\ rpc' = "recv"
  /\ opened' = opened \cup {received}
  /\ UNCHANGED <<streamVars, base, start, stamp, now, lines>>

(* A new connection's thread starts with an accumulator of its own. *)
Connect ==
  /\ rpc = "closed"
  /\ rpc' = "recv"
  /\ base' = received /\ start' = 0
  /\ opened' = opened \cup {received}
  /\ UNCHANGED <<streamVars, stamp, now, lines>>

Next == Tick \/ Receive \/ HandleLine \/ EndChunk \/ ConnectionEnds \/ Connect

Spec == Init /\ [][Next]_vars /\ WF_vars(HandleLine \/ EndChunk)

-----------------------------------------------------------------------------
LineRecord == [from : Nat, to : Nat, stamp : Time, called : BOOLEAN]

(* Type invariant; between chunks the loop's offset is back at 0, and the  *)
(* accumulator never holds more than two buffers.                          *)
TypeOK ==
  /\ received \in 0..MaxBytes
  /\ terminators \subseteq 1..received
  /\ arrival \in [1..received -> Time]
  /\ opened \subseteq 0..received
  /\ rpc \in {"recv", "lines", "closed"}
  /\ base \in 0..received /\ start \in 0..Size
  /\ rpc # "lines" => start = 0 /\ Size <= BufferLength
  /\ Size <= 2 * BufferLength
  /\ stamp \in Time /\ now \in Time
  /\ lines \in Seq(LineRecord)

(* Where a line may begin: after s bytes, if these end in a terminator or  *)
(* a connection.  A run is the bytes from there to the next terminator.    *)
LineStarts == terminators \cup opened
IsRun(s, p) ==
  /\ s \in LineStarts /\ p \in terminators /\ s < p
  /\ \A q \in LineStarts : q <= s \/ q >= p

(* The line a run is to be handled as: its bytes, at the time its last     *)
(* byte was received (comment at the stamp in processMessages()).          *)
HandledAs(s, p, l) == l.from = s + 1 /\ l.to = p - 1 /\ l.stamp = arrival[p]

(* However the stream was chunked, every line of up to a buffer's length   *)
(* whose terminator the loop has passed was handed over, whole and with    *)
(* the stamp of its terminator's chunk: the limit only ever costs longer   *)
(* ones, and dropping one costs none of its successors.                    *)
WholeLinesHandled ==
  \A s \in LineStarts, p \in terminators :
    IsRun(s, p) /\ p <= base + start /\ p - s - 1 \in 1..BufferLength
      => \E i \in 1..Len(lines) : HandledAs(s, p, lines[i])

(* Nothing else is handed over: a line ends where a terminator follows,    *)
(* has none inside and is never glued from two connections, it is shorter  *)
(* than the 4 KB max_callsign_length's comment counts on, and it begins    *)
(* where a line does or is the tail of a run that was too long.            *)
Sound(l) ==
  /\ l.from <= l.to /\ l.to - l.from + 1 < 2 * BufferLength
  /\ \E s \in LineStarts, p \in terminators :
       /\ IsRun(s, p) /\ s < l.from /\ l.to = p - 1 /\ l.stamp = arrival[p]
       /\ s # l.from - 1 => l.from - 1 - s > BufferLength

LinesSound == \A i \in 1..Len(lines) : Sound(lines[i])

(* Lines are handled in the order they came in, no byte of them twice. *)
HandledInOrder ==
  \A i, j \in 1..Len(lines) : i < j => lines[i].to < lines[j].from

(* Every chunk's lines are handled and the thread returns to recv(). *)
ChunkHandled == rpc = "lines" ~> rpc = "recv"

(* What the framing test's comment says: the part of an overlong run the   *)
(* loop resumes into never reaches the callback.                           *)
FragmentsNotDelivered ==
  \A i \in 1..Len(lines) : lines[i].called => lines[i].from - 1 \in LineStarts
=============================================================================
