------------------------- MODULE ReportQueueProofs -------------------------
(***************************************************************************)
(* What holds of report_queue for every set of aircraft, every capacity    *)
(* and every sequence of push(), pop(), shutdown() and clear().            *)
(***************************************************************************)
EXTENDS ReportQueue, FiniteSetTheorems, SequenceTheorems, TLAPS

(* Dropping the front of a sequence without repetitions drops one element. *)
LEMMA TailOfOrder ==
  ASSUME NEW S, NEW s \in Seq(S), s # <<>>, IsInjective(s)
  PROVE  /\ Tail(s) \in Seq(S)
         /\ Len(Tail(s)) = Len(s) - 1
         /\ Head(s) \in Range(s)
         /\ IsInjective(Tail(s))
         /\ Range(Tail(s)) = Range(s) \ {Head(s)}
<1>1. /\ Tail(s) \in Seq(S)
      /\ Len(Tail(s)) = Len(s) - 1
      /\ \A i \in 1..Len(Tail(s)) : Tail(s)[i] = s[i+1]
      /\ Head(s) = s[1]
      /\ Len(s) \in Nat \ {0}
  OBVIOUS
<1>2. DOMAIN s = 1..Len(s) /\ DOMAIN Tail(s) = 1..(Len(s) - 1)
  BY <1>1
<1>3. Head(s) \in Range(s)
  BY <1>1, <1>2 DEF Range
<1>4. IsInjective(Tail(s))
  BY <1>1, <1>2 DEF IsInjective
<1>5. Range(Tail(s)) \subseteq Range(s) \ {Head(s)}
  BY <1>1, <1>2 DEF Range, IsInjective
<1>6. Range(s) \ {Head(s)} \subseteq Range(Tail(s))
  <2> SUFFICES ASSUME NEW i \in 1..Len(s), s[i] # Head(s)
               PROVE  s[i] \in Range(Tail(s))
    BY <1>2 DEF Range
  <2>1. i - 1 \in 1..Len(Tail(s)) /\ Tail(s)[i-1] = s[i]
    BY <1>1
  <2> QED BY <2>1, <1>1, <1>2 DEF Range
<1> QED BY <1>1, <1>3, <1>4, <1>5, <1>6

(* Queueing a new element adds that element, at the end. *)
LEMMA AppendToOrder ==
  ASSUME NEW S, NEW s \in Seq(S), NEW a \in S, IsInjective(s), a \notin Range(s)
  PROVE  /\ Append(s, a) \in Seq(S)
         /\ Len(Append(s, a)) = Len(s) + 1
         /\ IsInjective(Append(s, a))
         /\ Range(Append(s, a)) = Range(s) \cup {a}
<1>1. /\ Append(s, a) \in Seq(S)
      /\ Len(Append(s, a)) = Len(s) + 1
      /\ \A i \in 1..Len(s) : Append(s, a)[i] = s[i]
      /\ Append(s, a)[Len(s) + 1] = a
      /\ Len(s) \in Nat
  OBVIOUS
<1>2. DOMAIN s = 1..Len(s) /\ DOMAIN Append(s, a) = 1..(Len(s) + 1)
  BY <1>1
<1>3. \A i \in 1..Len(s) : s[i] # a
  BY <1>2 DEF Range
<1>4. IsInjective(Append(s, a))
  <2> SUFFICES ASSUME NEW i \in 1..(Len(s) + 1), NEW j \in 1..(Len(s) + 1),
                      Append(s, a)[i] = Append(s, a)[j]
               PROVE  i = j
    BY <1>2 DEF IsInjective
  <2>1. CASE i \in 1..Len(s) /\ j \in 1..Len(s)
    BY <2>1, <1>1, <1>2 DEF IsInjective
  <2>2. CASE i = Len(s) + 1 \/ j = Len(s) + 1
    BY <2>2, <1>1, <1>3
  <2> QED BY <2>1, <2>2, <1>1
<1>5. Range(Append(s, a)) = Range(s) \cup {a}
  BY <1>1, <1>2 DEF Range
<1> QED BY <1>1, <1>4, <1>5

(* A sequence without repetitions has as many elements as it is long. *)
LEMMA OrderCounts ==
  ASSUME NEW S, NEW s \in Seq(S), IsInjective(s)
  PROVE  IsFiniteSet(Range(s)) /\ Cardinality(Range(s)) = Len(s)
<1>1. Len(s) \in Nat /\ DOMAIN s = 1..Len(s) /\ s \in [1..Len(s) -> Range(s)]
  BY LenProperties DEF Range
<1>2. s \in Bijection(1..Len(s), Range(s))
  BY <1>1 DEF Bijection, Injection, Surjection, IsInjective, Range
<1>3. ExistsBijection(1..Len(s), Range(s))
  BY <1>2 DEF ExistsBijection
<1>4. IsFiniteSet(1..Len(s)) /\ Cardinality(1..Len(s)) = Len(s)
  BY <1>1, FS_Interval
<1> QED BY <1>3, <1>4, FS_Bijection

-----------------------------------------------------------------------------
(* The invariant that is inductive: the queue's size is bounded only       *)
(* because the FIFO and the map hold the same aircraft, so that dropping   *)
(* the FIFO's front always frees a place in the map.                       *)
QueueInv == QueueTypeOK /\ OrderMatchesItems /\ Bounded

(* Under the invariant, size() is the FIFO's length, and a queue at        *)
(* capacity has a front to drop.                                           *)
LEMMA SizeIsLength ==
  ASSUME QueueTypeOK, OrderMatchesItems
  PROVE  /\ Size = Len(order)
         /\ Len(order) \in Nat
         /\ Full <=> Len(order) >= Capacity
BY OrderCounts, CapacityAssumption
   DEF QueueTypeOK, OrderMatchesItems, Size, Full

LEMMA InitQueueInv == QueueInit => QueueInv
<1> SUFFICES ASSUME QueueInit PROVE QueueInv
  OBVIOUS
<1>1. QueueTypeOK
  <2>1. DOMAIN items = {} /\ items \in [{} -> PendingReport]
    BY DEF QueueInit
  <2>2. order \in Seq(Address)
    BY EmptySeq DEF QueueInit
  <2> QED BY <2>1, <2>2 DEF QueueInit, QueueTypeOK
<1>2. OrderMatchesItems
  BY DEF QueueInit, OrderMatchesItems, IsInjective, Range
<1>3. Bounded
  BY <1>1, <1>2, SizeIsLength, CapacityAssumption DEF QueueInit, Bounded
<1> QED BY <1>1, <1>2, <1>3 DEF QueueInv

(* Replacing a queued aircraft's report. *)
LEMMA CoalesceKeepsInv ==
  ASSUME QueueInv, NEW r \in PendingReport, Coalesce(r.icao, r)
  PROVE  QueueInv'
<1> USE DEF QueueInv
<1>1. r.icao \in DOMAIN items /\ DOMAIN items' = DOMAIN items
  BY DEF Coalesce
<1>2. QueueTypeOK'
  BY <1>1 DEF Coalesce, QueueTypeOK
<1>3. OrderMatchesItems'
  BY <1>1 DEF Coalesce, OrderMatchesItems
<1>4. Bounded'
  BY <1>1 DEF Coalesce, Bounded, Size, QueueTypeOK
<1> QED BY <1>2, <1>3, <1>4

(* Queueing a new aircraft while there is room. *)
LEMMA Append1KeepsInv ==
  ASSUME QueueInv, NEW r \in PendingReport, Append1(r.icao, r)
  PROVE  QueueInv'
<1> USE DEF QueueInv
<1>1. r.icao \in Address /\ r.icao \notin Range(order)
  BY DEF PendingReport, Append1, OrderMatchesItems
<1>2. /\ order' \in Seq(Address)
      /\ Len(order') = Len(order) + 1
      /\ IsInjective(order')
      /\ Range(order') = Range(order) \cup {r.icao}
  BY <1>1, AppendToOrder DEF Append1, QueueTypeOK, OrderMatchesItems
<1>3. QueueTypeOK'
  BY <1>1, <1>2 DEF Append1, Inserted, QueueTypeOK
<1>4. OrderMatchesItems'
  BY <1>2 DEF Append1, Inserted, OrderMatchesItems
<1>5. Len(order') <= Capacity
  BY <1>2, SizeIsLength, CapacityAssumption DEF Append1
<1>6. Size' = Len(order')
  BY <1>2, <1>4, OrderCounts DEF Size, OrderMatchesItems
<1>7. \A a \in DOMAIN items' : items'[a].icao = a
  BY DEF Append1, Inserted, Bounded
<1> QED BY <1>3, <1>4, <1>5, <1>6, <1>7 DEF Bounded

(* Queueing a new aircraft at capacity. *)
LEMMA DisplaceKeepsInv ==
  ASSUME QueueInv, NEW r \in PendingReport, Displace(r.icao, r)
  PROVE  QueueInv'
<1> USE DEF QueueInv
<1>1. r.icao \in Address /\ r.icao \notin Range(order) /\ order # <<>>
  BY DEF PendingReport, Displace, OrderMatchesItems, Full
<1>2. /\ Tail(order) \in Seq(Address)
      /\ Len(Tail(order)) = Len(order) - 1
      /\ IsInjective(Tail(order))
      /\ Range(Tail(order)) = Range(order) \ {Head(order)}
  BY <1>1, TailOfOrder DEF QueueTypeOK, OrderMatchesItems
<1>3. /\ order' \in Seq(Address)
      /\ Len(order') = Len(Tail(order)) + 1
      /\ IsInjective(order')
      /\ Range(order') = Range(Tail(order)) \cup {r.icao}
  BY <1>1, <1>2, AppendToOrder DEF Displace
<1>4. QueueTypeOK'
  BY <1>1, <1>3 DEF Displace, Inserted, Erased, Restrict, QueueTypeOK
<1>5. OrderMatchesItems'
  BY <1>2, <1>3 DEF Displace, Inserted, Erased, Restrict, OrderMatchesItems
<1>6. Len(order') <= Capacity
  BY <1>2, <1>3, SizeIsLength DEF Bounded
<1>7. Size' = Len(order')
  BY <1>3, <1>5, OrderCounts DEF Size, OrderMatchesItems
<1>8. \A a \in DOMAIN items' : items'[a].icao = a
  BY DEF Displace, Inserted, Erased, Restrict, Bounded
<1> QED BY <1>4, <1>5, <1>6, <1>7, <1>8 DEF Bounded

(* pop() of the front. *)
LEMMA PopItemKeepsInv ==
  ASSUME QueueInv, PopItem
  PROVE  QueueInv' /\ Head(order) \in DOMAIN items
<1> USE DEF QueueInv
<1>1. /\ Head(order) \in Range(order)
      /\ order' \in Seq(Address)
      /\ Len(order') = Len(order) - 1
      /\ IsInjective(order')
      /\ Range(order') = Range(order) \ {Head(order)}
  BY TailOfOrder DEF PopItem, QueueTypeOK, OrderMatchesItems
<1>2. Head(order) \in DOMAIN items
  BY <1>1 DEF OrderMatchesItems
<1>3. QueueTypeOK'
  BY <1>1, <1>2 DEF PopItem, Erased, Restrict, QueueTypeOK
<1>4. OrderMatchesItems'
  BY <1>1 DEF PopItem, Erased, Restrict, OrderMatchesItems
<1>5. Len(order') <= Capacity
  BY <1>1, SizeIsLength, CapacityAssumption DEF Bounded
<1>6. Size' = Len(order')
  BY <1>1, <1>4, OrderCounts DEF Size, OrderMatchesItems
<1>7. \A a \in DOMAIN items' : items'[a].icao = a
  BY DEF PopItem, Erased, Restrict, Bounded
<1> QED BY <1>2, <1>3, <1>4, <1>5, <1>6, <1>7 DEF Bounded

(* clear(). *)
LEMMA ClearKeepsInv ==
  ASSUME QueueInv, Clear
  PROVE  QueueInv'
<1> USE DEF QueueInv
<1>1. QueueTypeOK'
  BY DEF Clear, QueueTypeOK
<1>2. OrderMatchesItems'
  BY DEF Clear, OrderMatchesItems, IsInjective, Range
<1>3. Size' = 0 /\ Len(order') = 0
  BY FS_EmptySet DEF Clear, Size
<1>4. Bounded'
  BY <1>3, CapacityAssumption DEF Clear, Bounded
<1> QED BY <1>1, <1>2, <1>4

(* Every operation of the queue keeps the invariant. *)
LEMMA QueueStep ==
  ASSUME QueueInv, [QueueNext]_queueVars
  PROVE  QueueInv'
<1>1. ASSUME NEW r \in PendingReport, Push(r.icao, r) PROVE QueueInv'
  BY <1>1, CoalesceKeepsInv, Append1KeepsInv, DisplaceKeepsInv DEF Push
<1>2. CASE Pop
  <2>1. CASE PopItem
    BY <2>1, PopItemKeepsInv
  <2>2. CASE PopNullopt
    BY <2>2 DEF PopNullopt, QueueInv, QueueTypeOK, OrderMatchesItems, Bounded, Size
  <2> QED BY <1>2, <2>1, <2>2 DEF Pop
<1>3. CASE Shutdown
  BY <1>3 DEF Shutdown, QueueInv, QueueTypeOK, OrderMatchesItems, Bounded, Size
<1>4. CASE Clear
  BY <1>4, ClearKeepsInv
<1>5. CASE UNCHANGED queueVars
  BY <1>5 DEF queueVars, QueueInv, QueueTypeOK, OrderMatchesItems, Bounded, Size
<1> QED BY <1>1, <1>2, <1>3, <1>4, <1>5 DEF QueueNext

LEMMA QueueInvariant == QueueSpec => []QueueInv
<1>1. QueueInit => QueueInv
  BY InitQueueInv
<1>2. QueueInv /\ [QueueNext]_queueVars => QueueInv'
  BY QueueStep
<1> QED BY <1>1, <1>2, PTL DEF QueueSpec

(* The queue's members always have their types. *)
THEOREM QueueTypes == QueueSpec => []QueueTypeOK
<1>1. QueueInv => QueueTypeOK
  BY DEF QueueInv
<1> QED BY <1>1, QueueInvariant, PTL

(* pop() may dereference the map's entry for the FIFO's front unchecked:   *)
(* the two containers never disagree.                                      *)
THEOREM QueueConsistent == QueueSpec => []OrderMatchesItems
<1>1. QueueInv => OrderMatchesItems
  BY DEF QueueInv
<1> QED BY <1>1, QueueInvariant, PTL

(* Worst-case memory is Capacity entries, whatever is pushed.              *)
THEOREM QueueBounded == QueueSpec => []Bounded
<1>1. QueueInv => Bounded
  BY DEF QueueInv
<1> QED BY <1>1, QueueInvariant, PTL

-----------------------------------------------------------------------------
(* Positions are kept by Append and shifted down by one by Tail.           *)
LEMMA BeforeAfterAppend ==
  ASSUME NEW S, NEW s \in Seq(S), NEW c \in S, NEW a, NEW b, Before(s, a, b)
  PROVE  Before(Append(s, c), a, b)
<1>1. PICK i \in 1..Len(s), j \in 1..Len(s) : i < j /\ s[i] = a /\ s[j] = b
  BY DEF Before
<1>2. /\ Len(Append(s, c)) = Len(s) + 1
      /\ Append(s, c)[i] = a /\ Append(s, c)[j] = b
  BY <1>1
<1> QED BY <1>1, <1>2 DEF Before

LEMMA BeforeAfterTail ==
  ASSUME NEW S, NEW s \in Seq(S), s # <<>>, NEW a, NEW b,
         Before(s, a, b), a # Head(s), b # Head(s)
  PROVE  Before(Tail(s), a, b)
<1>1. PICK i \in 1..Len(s), j \in 1..Len(s) : i < j /\ s[i] = a /\ s[j] = b
  BY DEF Before
<1>2. /\ Len(Tail(s)) = Len(s) - 1
      /\ Head(s) = s[1]
      /\ i # 1 /\ j # 1
      /\ Len(s) \in Nat
  BY <1>1
<1>3. /\ i - 1 \in 1..Len(Tail(s)) /\ j - 1 \in 1..Len(Tail(s))
      /\ Tail(s)[i - 1] = a /\ Tail(s)[j - 1] = b
      /\ i - 1 < j - 1
  BY <1>1, <1>2
<1> QED BY <1>3 DEF Before

(* No sequence of operations ever lets one aircraft overtake another while *)
(* both stay queued, so a noisy aircraft cannot jump the queue.            *)
THEOREM QueueFifo == QueueSpec => NoOvertaking
<1> DEFINE Keeps == \A a, b \in DOMAIN items \cap DOMAIN items' :
                      Before(order, a, b) => Before(order', a, b)
<1>1. QueueInv /\ [QueueNext]_queueVars => [Keeps]_queueVars
  <2> SUFFICES ASSUME QueueInv, QueueNext PROVE Keeps
    OBVIOUS
  <2> USE DEF QueueInv
  <2>1. ASSUME NEW r \in PendingReport, Push(r.icao, r) PROVE Keeps
    <3>1. CASE Coalesce(r.icao, r)
      BY <3>1 DEF Coalesce
    <3>2. CASE Append1(r.icao, r)
      BY <3>2, BeforeAfterAppend DEF Append1, QueueTypeOK, PendingReport
    <3>3. CASE Displace(r.icao, r)
      <4> SUFFICES ASSUME NEW a \in DOMAIN items \cap DOMAIN items',
                          NEW b \in DOMAIN items \cap DOMAIN items',
                          Before(order, a, b)
                   PROVE  Before(order', a, b)
        OBVIOUS
      <4>1. order # <<>> /\ Tail(order) \in Seq(Address) /\ r.icao \in Address
        BY <3>3 DEF Displace, Full, QueueTypeOK, PendingReport
      <4>2. a # Head(order) /\ b # Head(order)
        BY <3>3 DEF Displace, Inserted, Erased, Restrict
      <4>3. Before(Tail(order), a, b)
        BY <4>1, <4>2, BeforeAfterTail DEF QueueTypeOK
      <4> QED BY <3>3, <4>1, <4>3, BeforeAfterAppend DEF Displace
    <3> QED BY <2>1, <3>1, <3>2, <3>3 DEF Push
  <2>2. CASE PopItem
    BY <2>2, BeforeAfterTail DEF PopItem, Erased, Restrict, QueueTypeOK
  <2>3. CASE PopNullopt
    BY <2>3 DEF PopNullopt
  <2>4. CASE Shutdown
    BY <2>4 DEF Shutdown
  <2>5. CASE Clear
    BY <2>5 DEF Clear
  <2> QED BY <2>1, <2>2, <2>3, <2>4, <2>5 DEF QueueNext, Pop
<1>2. QueueSpec => [][Keeps]_queueVars
  BY <1>1, QueueInvariant, PTL DEF QueueSpec
<1> QED BY <1>2 DEF NoOvertaking

(* A queued report is only ever lost from the front and for a reason: it   *)
(* was handed to the worker, it was the oldest of a full queue when a new  *)
(* aircraft appeared, or clear() emptied the whole queue.                  *)
THEOREM QueueLeavesInTurn == QueueSpec => LeavesInTurn
<1> DEFINE InTurn == \A a \in DOMAIN items \ DOMAIN items' :
       \/ a = Head(order) /\ popped' = items[a]
       \/ a = Head(order) /\ Size = Capacity /\ DOMAIN items' \ DOMAIN items # {}
       \/ items' = [x \in {} |-> Nullopt] /\ UNCHANGED popped
<1>1. QueueInv /\ [QueueNext]_queueVars => [InTurn]_queueVars
  <2> SUFFICES ASSUME QueueInv, QueueNext PROVE InTurn
    OBVIOUS
  <2> USE DEF QueueInv
  <2>1. ASSUME NEW r \in PendingReport, Push(r.icao, r) PROVE InTurn
    <3>1. CASE Coalesce(r.icao, r)
      BY <3>1 DEF Coalesce
    <3>2. CASE Append1(r.icao, r)
      BY <3>2 DEF Append1, Inserted
    <3>3. CASE Displace(r.icao, r)
      <4>1. Size = Capacity
        BY <3>3, SizeIsLength, CapacityAssumption DEF Displace, Full, Bounded
      <4>2. DOMAIN items' = (DOMAIN items \ {Head(order)}) \cup {r.icao}
        BY <3>3 DEF Displace, Inserted, Erased, Restrict
      <4>3. r.icao \in DOMAIN items' \ DOMAIN items
        BY <3>3, <4>2 DEF Displace
      <4> QED BY <4>1, <4>2, <4>3
    <3> QED BY <2>1, <3>1, <3>2, <3>3 DEF Push
  <2>2. CASE PopItem
    BY <2>2 DEF PopItem, Erased, Restrict
  <2>3. CASE PopNullopt
    BY <2>3 DEF PopNullopt
  <2>4. CASE Shutdown
    BY <2>4 DEF Shutdown
  <2>5. CASE Clear
    BY <2>5 DEF Clear
  <2> QED BY <2>1, <2>2, <2>3, <2>4, <2>5 DEF QueueNext, Pop
<1>2. QueueSpec => [][InTurn]_queueVars
  BY <1>1, QueueInvariant, PTL DEF QueueSpec
<1> QED BY <1>2 DEF LeavesInTurn

-----------------------------------------------------------------------------
(* What HandoffSpec's freedom from starvation rests on besides the worker  *)
(* being scheduled: a queued aircraft never falls back in the FIFO, and    *)
(* each pop() that leaves it there brings it one place nearer the front,   *)
(* so a queue of n entries sends any of them within n pops.                *)
AdvancesInTurn ==
  [][\A i \in 1..Len(order) : order[i] \in DOMAIN items' =>
       \/ ~PopItem /\ i \in 1..Len(order') /\ order'[i] = order[i]
       \/ i - 1 \in 1..Len(order') /\ order'[i - 1] = order[i]]_queueVars

(* Under the invariant, what stays of a FIFO that loses its front moves up. *)
LEMMA TailMovesUp ==
  ASSUME NEW S, NEW s \in Seq(S), s # <<>>, NEW i \in 1..Len(s), s[i] # Head(s)
  PROVE  i - 1 \in 1..Len(Tail(s)) /\ Tail(s)[i - 1] = s[i]
<1>1. /\ Len(Tail(s)) = Len(s) - 1 /\ Len(s) \in Nat
      /\ \A j \in 1..Len(Tail(s)) : Tail(s)[j] = s[j + 1]
      /\ Head(s) = s[1] /\ i # 1
  OBVIOUS
<1> QED BY <1>1

(* No traffic of other aircraft delays a queued report: its place in the   *)
(* FIFO only ever falls, by one with every pop().                          *)
THEOREM QueueAdvances == QueueSpec => AdvancesInTurn
<1> DEFINE Advances == \A i \in 1..Len(order) : order[i] \in DOMAIN items' =>
             \/ ~PopItem /\ i \in 1..Len(order') /\ order'[i] = order[i]
             \/ i - 1 \in 1..Len(order') /\ order'[i - 1] = order[i]
<1>1. QueueInv /\ [QueueNext]_queueVars => [Advances]_queueVars
  <2> SUFFICES ASSUME QueueInv, QueueNext, NEW i \in 1..Len(order),
                      order[i] \in DOMAIN items'
               PROVE  \/ ~PopItem /\ i \in 1..Len(order') /\ order'[i] = order[i]
                      \/ i - 1 \in 1..Len(order') /\ order'[i - 1] = order[i]
    OBVIOUS
  <2> USE DEF QueueInv
  <2>1. order \in Seq(Address) /\ Len(order) \in Nat
    BY DEF QueueTypeOK
  <2>2. PopItem => Len(order') = Len(order) - 1
    BY <2>1 DEF PopItem
  <2>3. ASSUME NEW r \in PendingReport, Push(r.icao, r)
        PROVE  \/ ~PopItem /\ i \in 1..Len(order') /\ order'[i] = order[i]
               \/ i - 1 \in 1..Len(order') /\ order'[i - 1] = order[i]
    <3>1. CASE Coalesce(r.icao, r)
      BY <2>1, <2>2, <3>1 DEF Coalesce
    <3>2. CASE Append1(r.icao, r)
      <4>1. Len(order') = Len(order) + 1 /\ order'[i] = order[i]
        BY <2>1, <3>2 DEF Append1
      <4> QED BY <2>1, <2>2, <4>1
    <3>3. CASE Displace(r.icao, r)
      <4>1. order # <<>> /\ order' = Append(Tail(order), r.icao)
        BY <3>3 DEF Displace, Full
      <4>2. order[i] # Head(order)
        BY <3>3, TailOfOrder
           DEF Displace, Full, Inserted, Erased, Restrict, QueueTypeOK, OrderMatchesItems
      <4>3. i - 1 \in 1..Len(Tail(order)) /\ Tail(order)[i - 1] = order[i]
        BY <2>1, <4>1, <4>2, TailMovesUp
      <4>4. Tail(order) \in Seq(Address) /\ Len(Tail(order)) \in Nat
        BY <2>1, <4>1
      <4> QED BY <4>1, <4>3, <4>4
    <3> QED BY <2>3, <3>1, <3>2, <3>3 DEF Push
  <2>4. CASE PopItem
    <3>1. order[i] # Head(order) /\ order # <<>>
      BY <2>4 DEF PopItem, Erased, Restrict
    <3> QED BY <2>1, <2>4, <3>1, TailMovesUp DEF PopItem
  <2>5. CASE PopNullopt
    BY <2>1, <2>2, <2>5 DEF PopNullopt
  <2>6. CASE Shutdown
    BY <2>1, <2>2, <2>6 DEF Shutdown
  <2>7. CASE Clear
    BY <2>7 DEF Clear
  <2> QED BY <2>3, <2>4, <2>5, <2>6, <2>7 DEF QueueNext, Pop
<1>2. QueueSpec => [][Advances]_queueVars
  BY <1>1, QueueInvariant, PTL DEF QueueSpec
<1> QED BY <1>2 DEF AdvancesInTurn

-----------------------------------------------------------------------------
(* The hand-off's instance of the library counts and restricts alike.      *)
LEMMA SameLibrary ==
  /\ \A S : Handoff!Cardinality(S) = Cardinality(S)
  /\ \A f, S : Handoff!Restrict(f, S) = Restrict(f, S)
BY DEF Handoff!Cardinality, Cardinality, Handoff!IsFiniteSet, IsFiniteSet,
       Handoff!Restrict, Restrict

(* Every step of the queue is a step of the coalescing hand-off, or leaves *)
(* its state alone: the safety half of HandoffSpec, for every instance.    *)
THEOREM QueueImplementsHandoff == QueueSpec => Handoff!SafeSpec
<1>1. QueueInit => Handoff!Init
  BY DEF QueueInit, Handoff!Init
<1>2. QueueInv /\ [QueueNext]_queueVars => [Handoff!Next]_Handoff!vars
  <2> SUFFICES ASSUME QueueInv, QueueNext PROVE Handoff!Next
    BY DEF queueVars, Handoff!vars
  <2> USE DEF QueueInv
  <2>1. ASSUME NEW r \in PendingReport, Push(r.icao, r) PROVE Handoff!Next
    <3>1. r.icao \in Address
      BY DEF PendingReport
    <3>2. CASE Coalesce(r.icao, r)
      <4>1. items' = Handoff!Updated(r.icao, r, {})
        BY <3>2 DEF Coalesce, Handoff!Updated, QueueTypeOK
      <4> QED BY <3>1, <3>2, <4>1 DEF Coalesce, Handoff!Replace, Handoff!Next
    <3>3. CASE Append1(r.icao, r)
      <4>1. items' = Handoff!Updated(r.icao, r, {})
        BY <3>3 DEF Append1, Inserted, Handoff!Updated, QueueTypeOK
      <4>2. Cardinality(DOMAIN items) < Capacity
        BY <3>3, SizeIsLength, CapacityAssumption DEF Append1, Size
      <4> QED BY <3>1, <3>3, <4>1, <4>2, SameLibrary
           DEF Append1, Handoff!Admit, Handoff!Next
    <3>4. CASE Displace(r.icao, r)
      <4>1. items' = Handoff!Updated(r.icao, r, {Head(order)})
        BY <3>4 DEF Displace, Inserted, Erased, Restrict, Handoff!Updated, QueueTypeOK
      <4>2. Cardinality(DOMAIN items) = Capacity
        BY <3>4, SizeIsLength, CapacityAssumption DEF Displace, Full, Bounded, Size
      <4>3. Head(order) \in DOMAIN items
        BY <3>4, TailOfOrder DEF Displace, Full, QueueTypeOK, OrderMatchesItems
      <4> QED BY <3>1, <3>4, <4>1, <4>2, <4>3, SameLibrary
           DEF Displace, Handoff!Admit, Handoff!Next
    <3> QED BY <2>1, <3>2, <3>3, <3>4 DEF Push
  <2>2. CASE PopItem
    <3>1. Head(order) \in DOMAIN items /\ Head(order) \in Address
      BY <2>2, PopItemKeepsInv DEF QueueTypeOK
    <3> QED BY <2>2, <3>1, SameLibrary
         DEF PopItem, Erased, Handoff!Take, Handoff!Next
  <2>3. CASE PopNullopt
    <3>1. DOMAIN items = {}
      BY <2>3 DEF PopNullopt, OrderMatchesItems, Range
    <3> QED BY <2>3, <3>1 DEF PopNullopt, Handoff!TakeNone, Handoff!Next
  <2>4. CASE Shutdown
    BY <2>4 DEF Shutdown, Handoff!Close, Handoff!Next
  <2>5. CASE Clear
    <3>1. items' = Restrict(items, {})
      BY <2>5 DEF Clear, Restrict
    <3> QED BY <2>5, <3>1, SameLibrary DEF Clear, Handoff!Discard, Handoff!Next
  <2> QED BY <2>1, <2>2, <2>3, <2>4, <2>5 DEF QueueNext, Pop
<1> QED BY <1>1, <1>2, QueueInvariant, PTL DEF QueueSpec, Handoff!SafeSpec
=============================================================================
