-------------------------- MODULE LineFramingProofs --------------------------
(***************************************************************************)
(* What LineFraming guarantees for every buffer length and every stream:   *)
(* complete lines are neither lost, merged, split, reordered nor handled   *)
(* twice, however the bytes were cut into chunks.  The argument is about   *)
(* the cursor, the last byte the loop is done with.                        *)
(***************************************************************************)
EXTENDS LineFraming, TLAPS

Cursor == base + start

(* The cursor is at the start of a line, or so deep in a run that the run  *)
(* is too long already.                                                    *)
CursorPlaced ==
  \E s \in LineStarts :
    /\ s <= Cursor /\ \A q \in LineStarts : q <= Cursor => q <= s
    /\ s = Cursor \/ Cursor - s > BufferLength

(* What lies beyond the cursor came with the current chunk, on the current *)
(* connection.                                                             *)
BeyondCursor ==
  /\ \A c \in opened : c <= base
  /\ \A q \in terminators : q > Cursor => rpc = "lines" /\ arrival[q] = stamp

(* What was handed over lies before the cursor. *)
BehindCursor == \A i \in 1..Len(lines) : lines[i].to < Cursor

FramingInv ==
  /\ TypeOK /\ CursorPlaced /\ BeyondCursor /\ BehindCursor
  /\ WholeLinesHandled /\ LinesSound /\ HandledInOrder

LEMMA InitFraming == Init => FramingInv
BY FramingAssumption
   DEF Init, FramingInv, TypeOK, CursorPlaced, BeyondCursor, BehindCursor, Cursor,
       WholeLinesHandled, LinesSound, Sound, HandledInOrder, LineStarts, IsRun, Size

(* The type invariant, step by step. *)
LEMMA TypeStep == TypeOK /\ [Next]_vars => TypeOK'
<1> SUFFICES ASSUME TypeOK, [Next]_vars PROVE TypeOK'
  OBVIOUS
<1> USE FramingAssumption DEF TypeOK, Size, streamVars
<1>1. CASE Tick
  BY <1>1 DEF Tick
<1>2. CASE Receive
  <2> PICK k \in 1..BufferLength :
        /\ received + k <= MaxBytes
        /\ received' = received + k
        /\ \E new \in SUBSET (received + 1 .. received + k) :
             terminators' = terminators \cup new
        /\ arrival' = [i \in 1..received + k |->
                         IF i <= received THEN arrival[i] ELSE now]
    BY <1>2 DEF Receive
  <2>1. arrival' \in [1..received' -> Time]
    OBVIOUS
  <2>2. terminators' \subseteq 1..received'
    OBVIOUS
  <2>3. QED
    BY <1>2, <2>1, <2>2 DEF Receive
<1>3. CASE HandleLine
  <2> PICK p \in terminators :
        /\ FindsTerminator(p)
        /\ lines' = IF p > base + start + 1 THEN Append(lines, Line(p)) ELSE lines
        /\ start' = p - base
    BY <1>3 DEF HandleLine
  <2>1. p > base + start + 1 => Line(p) \in LineRecord
    BY DEF Line, LineRecord, FindsTerminator
  <2>2. lines' \in Seq(LineRecord)
    BY <2>1
  <2>3. QED
    BY <1>3, <2>2 DEF HandleLine, FindsTerminator
<1>4. CASE EndChunk
  BY <1>4 DEF EndChunk
<1>5. CASE ConnectionEnds
  BY <1>5 DEF ConnectionEnds
<1>6. CASE Connect
  BY <1>6 DEF Connect
<1>7. CASE UNCHANGED vars
  BY <1>7 DEF vars
<1>8. QED
  BY <1>1, <1>2, <1>3, <1>4, <1>5, <1>6, <1>7 DEF Next

-----------------------------------------------------------------------------
(* A step that leaves the bytes there are alone, and lets no line start    *)
(* among them that did not.                                                *)
StreamGrows ==
  /\ terminators \subseteq terminators' /\ LineStarts \subseteq LineStarts'
  /\ \A q \in LineStarts' : q \in Nat /\ (q \notin LineStarts => q >= received)
  /\ \A q \in 1..received : arrival'[q] = arrival[q]

(* A line start is a position of the stream. *)
LEMMA StartsArePositions ==
  ASSUME TypeOK
  PROVE  LineStarts \subseteq 0..received /\ terminators \subseteq 1..received
         /\ received \in Nat
BY FramingAssumption DEF TypeOK, LineStarts

LEMMA LinesAreRecords ==
  ASSUME TypeOK
  PROVE  \A i \in 1..Len(lines) : lines[i] \in LineRecord /\ lines[i].to \in Nat
<1>1. lines \in Seq(LineRecord)
  BY DEF TypeOK
<1>2. \A i \in 1..Len(lines) : lines[i] \in LineRecord
  BY <1>1
<1>3. QED
  BY <1>2 DEF LineRecord

(* Such a step makes no run of the bytes there are, and breaks none. *)
LEMMA RunsKept ==
  ASSUME TypeOK, StreamGrows, NEW s \in Nat, NEW p \in terminators
  PROVE  /\ IsRun(s, p) => IsRun(s, p)'
         /\ IsRun(s, p)' => IsRun(s, p)
BY StartsArePositions DEF StreamGrows, IsRun

LEMMA SoundKept ==
  ASSUME TypeOK, StreamGrows, NEW l \in LineRecord, Sound(l)
  PROVE  Sound(l)'
<1>1. PICK s \in LineStarts, p \in terminators :
        /\ IsRun(s, p) /\ s < l.from /\ l.to = p - 1 /\ l.stamp = arrival[p]
        /\ s # l.from - 1 => l.from - 1 - s > BufferLength
  BY DEF Sound
<1>2. s \in Nat /\ p \in 1..received
  BY StartsArePositions
<1>3. IsRun(s, p)' /\ arrival'[p] = arrival[p]
  BY <1>1, <1>2, RunsKept DEF StreamGrows
<1>4. s \in LineStarts' /\ p \in terminators'
  BY DEF StreamGrows
<1>5. QED
  BY <1>1, <1>3, <1>4 DEF Sound

(* What is handed over already is what the properties ask for, after such  *)
(* a step too.                                                             *)
LEMMA LinesSoundKept ==
  ASSUME TypeOK, StreamGrows, LinesSound, UNCHANGED lines
  PROVE  LinesSound'
<1> SUFFICES ASSUME NEW i \in 1..Len(lines) PROVE Sound(lines[i])'
  BY DEF LinesSound
<1>1. lines[i] \in LineRecord /\ Sound(lines[i])
  BY DEF TypeOK, LinesSound
<1>2. \A l \in LineRecord : Sound(l) => Sound(l)'
  BY SoundKept
<1> DEFINE l == lines[i]
<1>3. Sound(l) /\ l \in LineRecord /\ l' = l
  BY <1>1
<1> HIDE DEF l
<1>4. Sound(l)'
  BY <1>2, <1>3 DEF Sound
<1>5. QED
  BY <1>4 DEF Sound, l

LEMMA WholeLinesKept ==
  ASSUME TypeOK, StreamGrows, WholeLinesHandled, UNCHANGED lines,
         \A p \in terminators' : p <= Cursor' => p \in terminators /\ p <= Cursor
  PROVE  WholeLinesHandled'
<1> SUFFICES ASSUME NEW s \in LineStarts', NEW p \in terminators', IsRun(s, p)',
                    p <= Cursor', p - s - 1 \in 1..BufferLength
             PROVE  (\E i \in 1..Len(lines) : HandledAs(s, p, lines[i]))'
  BY DEF WholeLinesHandled, Cursor
<1>1. p \in terminators /\ p <= Cursor /\ p \in 1..received
  BY StartsArePositions
<1>2. s \in LineStarts /\ s \in Nat
  BY <1>1, StartsArePositions DEF StreamGrows, IsRun
<1>3. IsRun(s, p) /\ arrival'[p] = arrival[p]
  BY <1>1, <1>2, RunsKept DEF StreamGrows
<1>4. PICK i \in 1..Len(lines) : HandledAs(s, p, lines[i])
  BY <1>1, <1>2, <1>3 DEF WholeLinesHandled, Cursor
<1>5. QED
  BY <1>3, <1>4 DEF HandledAs

(* A chunk lies beyond every run there was. *)
LEMMA ReceiveStep ==
  ASSUME FramingInv, TypeOK', Receive
  PROVE  FramingInv'
<1> USE FramingAssumption DEF FramingInv
<1>1. PICK k \in 1..BufferLength :
        /\ received' = received + k
        /\ \E new \in SUBSET (received + 1 .. received + k) :
             terminators' = terminators \cup new
        /\ arrival' = [i \in 1..received + k |->
                         IF i <= received THEN arrival[i] ELSE now]
  BY DEF Receive
<1>2. /\ UNCHANGED <<opened, base, start, now, lines>> /\ Cursor' = Cursor
      /\ stamp' = now /\ rpc = "recv" /\ rpc' = "lines"
      /\ Cursor = base /\ base \in 0..received /\ received \in Nat
  BY DEF Receive, Cursor, TypeOK, Size
<1>3. /\ \A q \in terminators' : q \notin terminators => q \in received + 1 .. received'
      /\ terminators \subseteq terminators' /\ terminators \subseteq 1..received
  BY <1>1 DEF TypeOK
<1>4. StreamGrows
  BY <1>1, <1>2, <1>3 DEF StreamGrows, LineStarts, TypeOK
<1>5. CursorPlaced'
  <2>1. PICK s \in LineStarts :
          /\ s <= Cursor /\ \A q \in LineStarts : q <= Cursor => q <= s
          /\ s = Cursor \/ Cursor - s > BufferLength
    BY DEF CursorPlaced
  <2>2. s \in LineStarts' /\ \A q \in LineStarts' : q <= Cursor => q <= s
    BY <1>2, <1>3, <2>1, StartsArePositions DEF LineStarts
  <2>3. QED
    BY <1>2, <2>1, <2>2 DEF CursorPlaced
<1>6. BeyondCursor'
  BY <1>1, <1>2, <1>3 DEF BeyondCursor, TypeOK
<1>7. BehindCursor' /\ HandledInOrder'
  BY <1>2 DEF BehindCursor, HandledInOrder
<1>8. WholeLinesHandled'
  BY <1>2, <1>3, <1>4, WholeLinesKept
<1>9. LinesSound'
  BY <1>2, <1>4, LinesSoundKept
<1>10. QED
  BY <1>5, <1>6, <1>7, <1>8, <1>9

(* The line found is the rest of the only run that ends where it does. *)
LEMMA HandleLineStep ==
  ASSUME FramingInv, TypeOK', HandleLine
  PROVE  FramingInv'
<1> USE FramingAssumption DEF FramingInv
<1>1. PICK p \in terminators :
        /\ FindsTerminator(p)
        /\ lines' = IF p > base + start + 1 THEN Append(lines, Line(p)) ELSE lines
        /\ start' = p - base
  BY DEF HandleLine
<1>2. /\ UNCHANGED <<streamVars, opened, rpc, base, stamp, now>>
      /\ rpc = "lines" /\ UNCHANGED <<received, terminators, arrival>>
  BY DEF HandleLine, streamVars
<1>3. /\ base \in Nat /\ start \in Nat /\ received \in Nat /\ Cursor \in Nat
      /\ base <= Cursor /\ received - base <= 2 * BufferLength
      /\ p \in Nat /\ p \in 1..received /\ p > Cursor
  BY <1>1 DEF TypeOK, Size, Cursor, FindsTerminator
<1>4. Cursor' = p /\ LineStarts' = LineStarts
  BY <1>1, <1>2, <1>3 DEF Cursor, LineStarts
<1>5. PICK s \in LineStarts :
        /\ s <= Cursor /\ \A q \in LineStarts : q <= Cursor => q <= s
        /\ s = Cursor \/ Cursor - s > BufferLength
  BY DEF CursorPlaced
<1>6. \A q \in LineStarts : q \in Nat /\ (q <= s \/ q >= p)
  BY <1>1, <1>3, <1>5, StartsArePositions
     DEF FindsTerminator, LineStarts, BeyondCursor, Cursor
<1>7. IsRun(s, p) /\ \A r \in LineStarts : IsRun(r, p) => r = s
  BY <1>3, <1>5, <1>6 DEF IsRun
<1>8. CursorPlaced'
  BY <1>3, <1>4, <1>6 DEF CursorPlaced, LineStarts
<1>9. BeyondCursor'
  BY <1>2, <1>3, <1>4 DEF BeyondCursor, TypeOK
<1>10. StreamGrows
  BY <1>2, <1>4, <1>6 DEF StreamGrows
<1>11. \A i \in 1..Len(lines) : lines[i] \in LineRecord /\ lines[i].to \in Nat
  BY LinesAreRecords
<1>12. \A r \in LineStarts', q \in terminators' :
         IsRun(r, q)' /\ q <= Cursor' =>
           \/ q <= Cursor /\ r \in LineStarts /\ IsRun(r, q)
           \/ q = p /\ r = s
  <2> TAKE r \in LineStarts', q \in terminators'
  <2> HAVE IsRun(r, q)' /\ q <= Cursor'
  <2>1. r \in LineStarts /\ r \in Nat /\ q \in terminators /\ q \in Nat /\ IsRun(r, q)
    BY <1>2, <1>4, <1>10, RunsKept, StartsArePositions
  <2>2. q <= Cursor \/ q = p
    BY <1>1, <1>3, <1>4, <2>1 DEF FindsTerminator, Cursor
  <2>3. QED
    BY <1>7, <2>1, <2>2
<1>13. CASE p = Cursor + 1
  <2>1. lines' = lines
    BY <1>1, <1>13, <1>3 DEF Cursor
  <2>2. BehindCursor' /\ HandledInOrder'
    BY <2>1, <1>3, <1>4, <1>11 DEF BehindCursor, HandledInOrder
  <2>3. LinesSound'
    BY <2>1, <1>10, LinesSoundKept
  <2>4. p - s - 1 \notin 1..BufferLength
    BY <1>3, <1>5, <1>13, StartsArePositions
  <2>5. WholeLinesHandled'
    BY <1>2, <1>12, <2>1, <2>4 DEF WholeLinesHandled, HandledAs, Cursor
  <2>6. QED
    BY <1>8, <1>9, <2>2, <2>3, <2>5
<1>14. CASE p > Cursor + 1
  <2> DEFINE new == Line(p)  n == Len(lines) + 1
  <2>1. lines' = Append(lines, new)
    BY <1>1, <1>14, <1>3 DEF Cursor
  <2>2. /\ new.from = Cursor + 1 /\ new.to = p - 1 /\ new.stamp = arrival[p]
        /\ new \in LineRecord
    BY <1>1, <1>3 DEF Line, Cursor, BeyondCursor, LineRecord, TypeOK
  <2> HIDE DEF new
  <2>3. /\ Len(lines') = n /\ n \in Nat /\ lines'[n] = new
        /\ \A i \in 1..Len(lines) : lines'[i] = lines[i] /\ i < n
        /\ \A i \in 1..n : i \in 1..Len(lines) \/ i = n
    BY <2>1, <2>2 DEF TypeOK
  <2> HIDE DEF n
  <2>4. BehindCursor' /\ HandledInOrder'
    <3>1. \A i \in 1..Len(lines) : lines'[i].to \in Nat /\ lines'[i].to < Cursor
      BY <2>3, <1>11 DEF BehindCursor
    <3>2. lines'[n].to = p - 1 /\ lines'[n].from = Cursor + 1
      BY <2>2, <2>3
    <3>3. \A i \in 1..n : lines'[i].to < p
      BY <3>1, <3>2, <2>3, <1>3
    <3>4. ASSUME NEW i \in 1..n, NEW j \in 1..n, i < j
          PROVE  lines'[i].to < lines'[j].from
      <4>1. i \in 1..Len(lines)
        BY <2>3, <3>4
      <4>2. CASE j \in 1..Len(lines)
        BY <4>1, <4>2, <2>3, <3>4 DEF HandledInOrder
      <4>3. CASE j = n
        BY <4>1, <4>3, <3>1, <3>2, <1>3
      <4>4. QED
        BY <4>2, <4>3, <2>3
    <3>5. QED
      BY <3>3, <3>4, <2>3, <1>4 DEF BehindCursor, HandledInOrder
  <2>5. LinesSound'
    <3>1. Sound(new)
      BY <1>3, <1>5, <1>7, <2>2, <1>14, StartsArePositions DEF Sound
    <3>2. \A i \in 1..n : lines'[i] \in LineRecord /\ Sound(lines'[i])
      BY <3>1, <2>2, <2>3, <1>11 DEF LinesSound
    <3>3. \A l \in LineRecord : Sound(l) => Sound(l)'
      BY <1>10, SoundKept
    <3>4. \A i \in 1..n : Sound(lines[i])'
      <4> TAKE i \in 1..n
      <4> DEFINE l == lines'[i]
      <4>1. l \in LineRecord /\ Sound(l)
        BY <3>2
      <4> HIDE DEF l
      <4>2. \E r \in LineStarts', q \in terminators' :
              /\ IsRun(r, q)' /\ r < l.from /\ l.to = q - 1 /\ l.stamp = arrival'[q]
              /\ r # l.from - 1 => l.from - 1 - r > BufferLength
        BY <3>3, <4>1 DEF Sound
      <4>3. l.from <= l.to /\ l.to - l.from + 1 < 2 * BufferLength
        BY <4>1 DEF Sound
      <4>4. QED
        BY <4>2, <4>3 DEF Sound, l
    <3>5. QED
      BY <3>4, <2>3 DEF LinesSound
  <2>6. p - s - 1 \in 1..BufferLength => s = Cursor
    BY <1>3, <1>5, <1>14, StartsArePositions
  <2>7. WholeLinesHandled'
    <3> SUFFICES ASSUME NEW r \in LineStarts', NEW q \in terminators', IsRun(r, q)',
                        q <= Cursor', q - r - 1 \in 1..BufferLength
                 PROVE  \E i \in 1..n : HandledAs(r, q, lines[i])'
      BY <2>3 DEF WholeLinesHandled, Cursor
    <3>1. CASE q <= Cursor /\ r \in LineStarts /\ IsRun(r, q)
      <4>1. PICK i \in 1..Len(lines) : HandledAs(r, q, lines[i])
        BY <1>2, <3>1 DEF WholeLinesHandled, Cursor
      <4>2. HandledAs(r, q, lines[i])' /\ i \in 1..n
        BY <4>1, <1>2, <2>3 DEF HandledAs, TypeOK
      <4>3. QED
        BY <4>2
    <3>2. CASE q = p /\ r = s
      <4>1. n \in 1..n
        BY <2>3 DEF n
      <4>2. \A i \in {n} : HandledAs(r, q, lines[i])'
        BY <3>2, <1>2, <2>2, <2>3, <2>6 DEF HandledAs
      <4>3. QED
        BY <4>1, <4>2
    <3>3. QED
      BY <1>12, <3>1, <3>2
  <2>8. QED
    BY <1>8, <1>9, <2>4, <2>5, <2>7
<1>15. QED
  BY <1>3, <1>13, <1>14

(* The cursor stays, or skips a rest without a terminator that is longer   *)
(* than a buffer.                                                          *)
LEMMA EndChunkStep ==
  ASSUME FramingInv, TypeOK', EndChunk
  PROVE  FramingInv'
<1> USE FramingAssumption DEF FramingInv
<1>1. /\ UNCHANGED <<received, terminators, arrival, opened, lines>>
      /\ LineStarts' = LineStarts
  BY DEF EndChunk, streamVars, LineStarts
<1>2. /\ Cursor \in Nat /\ received \in Nat /\ Cursor <= received /\ base <= Cursor
      /\ base \in Nat
      /\ Cursor' = Cursor \/ (Cursor' = received /\ received - Cursor > BufferLength)
      /\ base' = Cursor' /\ \A q \in terminators : q \in Nat /\ q <= Cursor
  BY DEF EndChunk, Cursor, TypeOK, Size
<1>3. StreamGrows
  BY <1>1, StartsArePositions DEF StreamGrows
<1>4. \A q \in LineStarts : q \in Nat /\ q <= Cursor
  BY <1>2, StartsArePositions DEF LineStarts, BeyondCursor
<1>5. CursorPlaced'
  BY <1>1, <1>2, <1>4 DEF CursorPlaced
<1>6. BeyondCursor'
  BY <1>1, <1>2, <1>4 DEF BeyondCursor, LineStarts
<1>7. BehindCursor'
  BY <1>1, <1>2, LinesAreRecords DEF BehindCursor
<1>8. WholeLinesHandled'
  BY <1>1, <1>2, <1>3, WholeLinesKept
<1>9. LinesSound' /\ HandledInOrder'
  BY <1>1, <1>3, LinesSoundKept DEF HandledInOrder
<1>10. QED
  BY <1>5, <1>6, <1>7, <1>8, <1>9

(* What the old connection left behind the last terminator is skipped. *)
LEMMA ConnectStep ==
  ASSUME FramingInv, TypeOK', Connect
  PROVE  FramingInv'
<1> USE FramingAssumption DEF FramingInv
<1>1. /\ UNCHANGED <<received, terminators, arrival, lines>>
      /\ opened' = opened \cup {received} /\ LineStarts' = LineStarts \cup {received}
  BY DEF Connect, streamVars, LineStarts
<1>2. /\ Cursor \in Nat /\ received \in Nat /\ Cursor <= received
      /\ Cursor' = received /\ base' = received
      /\ \A q \in terminators : q \in Nat /\ q <= Cursor
  BY DEF Connect, Cursor, TypeOK, Size, BeyondCursor
<1>3. StreamGrows
  BY <1>1, <1>2, StartsArePositions DEF StreamGrows
<1>4. CursorPlaced'
  BY <1>1, <1>2, StartsArePositions DEF CursorPlaced
<1>5. BeyondCursor'
  BY <1>1, <1>2, StartsArePositions DEF BeyondCursor, LineStarts
<1>6. BehindCursor'
  BY <1>1, <1>2, LinesAreRecords DEF BehindCursor
<1>7. WholeLinesHandled'
  BY <1>1, <1>2, <1>3, WholeLinesKept
<1>8. LinesSound' /\ HandledInOrder'
  BY <1>1, <1>3, LinesSoundKept DEF HandledInOrder
<1>9. QED
  BY <1>4, <1>5, <1>6, <1>7, <1>8

(* Steps that touch neither the stream, the accumulator nor the lines. *)
LEMMA OtherStep ==
  ASSUME FramingInv, TypeOK', Tick \/ ConnectionEnds \/ UNCHANGED vars
  PROVE  FramingInv'
<1> USE FramingAssumption DEF FramingInv
<1>1. /\ UNCHANGED <<received, terminators, arrival, opened, base, start, stamp, lines>>
      /\ LineStarts' = LineStarts /\ Cursor' = Cursor
      /\ rpc' # rpc => rpc # "lines"
  BY DEF Tick, ConnectionEnds, vars, streamVars, LineStarts, Cursor
<1>2. StreamGrows
  BY <1>1, StartsArePositions DEF StreamGrows
<1>3. CursorPlaced' /\ BeyondCursor' /\ BehindCursor' /\ HandledInOrder'
  BY <1>1 DEF CursorPlaced, BeyondCursor, BehindCursor, HandledInOrder
<1>4. WholeLinesHandled' /\ LinesSound'
  BY <1>1, <1>2, WholeLinesKept, LinesSoundKept
<1>5. QED
  BY <1>3, <1>4

-----------------------------------------------------------------------------
(* Type correctness; the accumulator never outgrows two buffers, whatever  *)
(* dump1090 sends.                                                         *)
THEOREM FramingTypes == Spec => []TypeOK
<1>1. Init => TypeOK
  BY InitFraming DEF FramingInv
<1>2. QED
  BY <1>1, TypeStep, PTL DEF Spec

LEMMA FramingInvariant == Spec => []FramingInv
<1>1. FramingInv /\ [Next]_vars => FramingInv'
  <2> SUFFICES ASSUME FramingInv, [Next]_vars PROVE FramingInv'
    OBVIOUS
  <2>1. TypeOK'
    BY TypeStep DEF FramingInv
  <2>2. QED
    BY <2>1, ReceiveStep, HandleLineStep, EndChunkStep, ConnectStep, OtherStep DEF Next
<1>2. QED
  BY InitFraming, <1>1, PTL DEF Spec

(* Every line of up to a buffer's length is handed to processMessage()     *)
(* whole and with the stamp of its terminator's chunk, for every buffer    *)
(* length and however recv() cut the stream.                               *)
THEOREM WholeLines == Spec => []WholeLinesHandled
BY FramingInvariant, PTL DEF FramingInv

(* Whatever is handed over is a line of one connection, or the tail of one *)
(* that was too long, and is shorter than two buffers.                     *)
THEOREM SoundLines == Spec => []LinesSound
BY FramingInvariant, PTL DEF FramingInv

(* The lines are handled in the order of the stream, each byte once. *)
THEOREM OrderedLines == Spec => []HandledInOrder
BY FramingInvariant, PTL DEF FramingInv

-----------------------------------------------------------------------------
(* What ChunkHandled rests on besides the thread being scheduled: each     *)
(* step of the loop over a chunk's lines returns to recv() or leaves it    *)
(* fewer bytes, so those beyond the cursor bound the steps to come.        *)
LoopShrinks ==
  [][rpc = "lines" =>
       \/ rpc' = "recv"
       \/ UNCHANGED rpc /\ received' - Cursor' \in 0 .. received - Cursor - 1
       \/ Tick]_vars

(* The loop over a chunk's lines takes at most as many turns as there are  *)
(* bytes in the accumulator, whatever they are.                            *)
THEOREM LoopTerminates == Spec => LoopShrinks
<1> DEFINE Shrinks == rpc = "lines" =>
              \/ rpc' = "recv"
              \/ UNCHANGED rpc /\ received' - Cursor' \in 0 .. received - Cursor - 1
              \/ Tick
<1>1. TypeOK /\ TypeOK' /\ [Next]_vars => [Shrinks]_vars
  <2> SUFFICES ASSUME TypeOK, TypeOK', Next, rpc = "lines" PROVE Shrinks
    OBVIOUS
  <2>1. CASE HandleLine
    <3>1. PICK p \in terminators : FindsTerminator(p) /\ start' = p - base
      BY <2>1 DEF HandleLine
    <3>2. UNCHANGED <<received, base, rpc>>
      BY <2>1 DEF HandleLine, streamVars
    <3>3. /\ received \in Nat /\ base \in 0..received /\ start \in 0..received - base
          /\ p \in 1..received /\ start' \in 0..received - base
      BY <3>2, FramingAssumption DEF TypeOK, Size
    <3>4. p > base + start
      BY <3>1 DEF FindsTerminator
    <3>5. QED
      BY <3>1, <3>2, <3>3, <3>4 DEF Cursor
  <2>2. CASE EndChunk
    BY <2>2 DEF EndChunk
  <2>3. QED
    BY <2>1, <2>2 DEF Next, Receive, ConnectionEnds, Connect
<1>2. Spec => [][Shrinks]_vars
  BY <1>1, FramingTypes, PTL DEF Spec
<1>3. QED
  BY <1>2 DEF LoopShrinks
=============================================================================
