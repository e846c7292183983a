--------------------------- MODULE SlotLogProofs ---------------------------
(***************************************************************************)
(* Proofs about the block tracker and the attestation logger, for any      *)
(* number of collectors and attestations, any window, and any capacity of  *)
(* the channel.                                                            *)
(***************************************************************************)
EXTENDS SlotLog, SequenceTheorems, FiniteSetTheorems, TLAPS

-----------------------------------------------------------------------------
(* Sequences without duplicates.                                           *)

\* a is in the sequence q.
In(a, q) == \E k \in 1 .. Len(q) : q[k] = a

NoDup(q) == \A j, k \in 1 .. Len(q) : q[j] = q[k] => j = k

\* append and a send on a channel.
LEMMA AppendIn ==
  ASSUME NEW S, NEW q \in Seq(S), NEW a \in S
  PROVE  /\ Append(q, a) \in Seq(S) /\ Append(q, a) # <<>>
         /\ Len(Append(q, a)) = Len(q) + 1
         /\ \A b : In(b, Append(q, a)) <=> b = a \/ In(b, q)
         /\ (NoDup(q) /\ ~In(a, q)) => NoDup(Append(q, a))
<1> DEFINE r == Append(q, a)
<1>1. /\ r \in Seq(S) /\ Len(r) = Len(q) + 1 /\ Len(q) \in Nat /\ r # <<>>
      /\ \A i \in 1 .. Len(q) : r[i] = q[i]
      /\ r[Len(q) + 1] = a
  OBVIOUS
<1> HIDE DEF r
<1>2. \A b : In(b, r) <=> b = a \/ In(b, q)
  BY <1>1 DEF In
<1>3. (NoDup(q) /\ ~In(a, q)) => NoDup(r)
  BY <1>1 DEF In, NoDup
<1> QED BY <1>1, <1>2, <1>3 DEF r

\* A receive from a channel, or the next entry of a loop.
LEMMA TailIn ==
  ASSUME NEW S, NEW q \in Seq(S), q # <<>>
  PROVE  /\ Head(q) \in S /\ In(Head(q), q)
         /\ Tail(q) \in Seq(S) /\ Len(Tail(q)) = Len(q) - 1 /\ Len(q) \in Nat \ {0}
         /\ \A b : In(b, Tail(q)) => In(b, q)
         /\ NoDup(q) => NoDup(Tail(q)) /\ \A b : In(b, Tail(q)) <=> In(b, q) /\ b # Head(q)
<1> DEFINE r == Tail(q)
<1>1. /\ r \in Seq(S) /\ Len(r) = Len(q) - 1 /\ Len(q) \in Nat \ {0}
      /\ \A i \in 1 .. Len(r) : r[i] = q[i + 1]
      /\ Head(q) = q[1] /\ Head(q) \in S
  BY HeadTailProperties, EmptySeq
<1> HIDE DEF r
<1>2. In(Head(q), q)
  BY <1>1 DEF In
<1>3. \A b : In(b, r) => In(b, q)
  BY <1>1 DEF In
<1>4. ASSUME NoDup(q) PROVE NoDup(r) /\ \A b : In(b, r) <=> In(b, q) /\ b # Head(q)
  <2>1. NoDup(r)
    BY <1>1, <1>4 DEF NoDup
  <2>2. ASSUME NEW b, In(b, r) PROVE b # Head(q)
    BY <1>1, <1>4, <2>2 DEF In, NoDup
  <2>3. ASSUME NEW b, In(b, q), b # Head(q) PROVE In(b, r)
    <3>1. PICK k \in 1 .. Len(q) : q[k] = b
      BY <2>3 DEF In
    <3>2. k - 1 \in 1 .. Len(r) /\ r[k - 1] = b
      BY <1>1, <2>3, <3>1
    <3> QED BY <3>2 DEF In
  <2> QED BY <1>3, <2>1, <2>2, <2>3
<1> QED BY <1>1, <1>2, <1>3, <1>4 DEF r

\* The number of occurrences in a sequence without duplicates.
LEMMA CountOnce ==
  ASSUME NEW S, NEW q \in Seq(S), NEW a, NoDup(q)
  PROVE  Count(a, q) = IF In(a, q) THEN 1 ELSE 0
<1> DEFINE K == {k \in 1 .. Len(q) : q[k] = a}
<1>1. CASE In(a, q)
  <2>1. PICK k \in 1 .. Len(q) : q[k] = a
    BY <1>1 DEF In
  <2>2. K = {k}
    BY <2>1 DEF NoDup
  <2>3. Cardinality(K) = 1
    BY <2>2, FS_Singleton
  <2> QED BY <1>1, <2>3 DEF Count
<1>2. CASE ~In(a, q)
  <2>1. K = {}
    BY <1>2 DEF In
  <2>2. Cardinality(K) = 0
    BY <2>1, FS_EmptySet
  <2> QED BY <1>2, <2>2 DEF Count
<1> QED BY <1>1, <1>2

-----------------------------------------------------------------------------
(* Types.                                                                  *)

\* A logger that has nothing left to write has ended.
Busy == \A l \in loggers : l.entries # <<>>

TypeInv == TypeOK /\ Busy

\* The timer waits for a slot of the clock.
LEMMA TimerType == ASSUME TrackerTypeOK PROVE nextSlotTimer \in Slot /\ nextSlotTimer >= 1
BY BlockTrackerAssumption DEF TrackerTypeOK, nextSlotTimer, Slot

LEMMA InitType == Init => TypeInv
<1> SUFFICES ASSUME Init PROVE TypeInv
  OBVIOUS
<1>1. TrackerTypeOK
  BY BlockTrackerAssumption DEF Init, NewBlockTracker, TrackerTypeOK, Slot
<1>2. timer \in Slot
  BY <1>1, TimerType DEF Init
<1> QED BY <1>1, <1>2, SlotLogAssumption DEF Init, TypeInv, TypeOK, Busy

\* block.go: one turn of ListenForBlocks keeps the types of its variables.
LEMMA HandleType ==
  ASSUME TrackerTypeOK, HandleBlock
  PROVE  TrackerTypeOK'
<1> USE DEF TrackerTypeOK
<1>1. /\ Head(blockQueue) \in Slot /\ Tail(blockQueue) \in Seq(Slot)
      /\ Len(Tail(blockQueue)) <= BlockBuf
  BY HeadTailProperties, BlockTrackerAssumption DEF HandleBlock
<1>2. blocks' \in [Slot -> Slot \cup {None}] /\ firstSeen' \in [Slot -> Slot \cup {None}]
  BY <1>1 DEF HandleBlock, Record, cleanup
<1> QED BY <1>1, <1>2 DEF HandleBlock

LEMMA StepType == TypeInv /\ [Next]_vars => TypeInv'
<1> SUFFICES ASSUME TypeInv, [Next]_vars PROVE TypeInv'
  OBVIOUS
<1> USE DEF TypeInv, trackerVars, logVars
<1>1. CASE UNCHANGED vars
  BY <1>1 DEF vars, TypeOK, TrackerTypeOK, Busy
<1>2. CASE Tracker
  <2>1. CASE SlotPasses /\ UNCHANGED <<logVars, inTime>>
    <3>1. TrackerTypeOK'
      BY <2>1, BlockTrackerAssumption DEF SlotPasses, listenerVars, TypeOK, TrackerTypeOK, Slot
    <3> QED BY <2>1, <3>1 DEF TypeOK, Busy
  <2>2. CASE HandleBlock /\ UNCHANGED <<logVars, inTime>>
    <3>1. TrackerTypeOK'
      BY <2>2, HandleType DEF TypeOK
    <3> QED BY <2>2, <3>1 DEF TypeOK, Busy
  <2>3. ASSUME NEW s \in Slot, BlockArrives(s), inTime' \in {inTime, inTime \cup {s}}, UNCHANGED logVars
        PROVE  TypeInv'
    <3>1. Append(blockQueue, s) \in Seq(Slot) /\ Len(Append(blockQueue, s)) = Len(blockQueue) + 1
      BY AppendIn DEF TypeOK, TrackerTypeOK
    <3>2. Len(blockQueue') <= BlockBuf
      BY <2>3, <3>1, BlockTrackerAssumption DEF BlockArrives, TypeOK, TrackerTypeOK
    <3>3. TrackerTypeOK'
      BY <2>3, <3>1, <3>2 DEF BlockArrives, TypeOK, TrackerTypeOK
    <3>4. inTime' \subseteq Slot
      BY <2>3 DEF TypeOK
    <3> QED BY <2>3, <3>3, <3>4 DEF TypeOK, Busy
  <2> QED BY <1>2, <2>1, <2>2, <2>3 DEF Tracker
<1>3. ASSUME NEW c \in Collector, NEW a \in Attestation, NEW s \in FirstSlot .. LastSlot - 1, Receive(c, a, s)
      PROVE  TypeInv'
  <2>1. s \in Slot
    BY BlockTrackerAssumption DEF Slot
  <2> QED BY <1>3, <2>1 DEF Receive, TypeOK, TrackerTypeOK, Busy
<1>4. ASSUME NEW c \in Collector, Send(c) PROVE TypeInv'
  <2>1. holding[c] \in Attestation
    BY <1>4 DEF Send, TypeOK
  <2>2. ch' \in Seq(Attestation) /\ Len(ch') = Len(ch) + 1
    BY <1>4, <2>1, AppendIn DEF Send, TypeOK
  <2>3. Len(ch') <= ChanCap
    BY <1>4, <2>2, SlotLogAssumption DEF Send, Full, TypeOK
  <2> QED BY <1>4, <2>2, <2>3 DEF Send, TypeOK, TrackerTypeOK, Busy
<1>5. CASE Buffer
  <2>1. Head(ch) \in Attestation /\ ch' \in Seq(Attestation) /\ Len(ch') <= ChanCap
    BY <1>5, TailIn, SlotLogAssumption DEF Buffer, TypeOK
  <2>2. \A s \in Slot : Append(pending[s], Head(ch)) \in Seq(Attestation)
    BY <2>1, AppendIn DEF TypeOK
  <2>3. pending' \in [Slot -> Seq(Attestation)]
    BY <1>5, <2>2 DEF Buffer, TypeOK
  <2> QED BY <1>5, <2>1, <2>3 DEF Buffer, TypeOK, TrackerTypeOK, Busy
<1>6. CASE Flush
  <2>1. timer' \in Slot
    BY <1>6, TimerType DEF Flush, TypeOK
  <2>2. pending' \in [Slot -> Seq(Attestation)]
    BY <1>6, EmptySeq DEF Flush, Deleted, TypeOK
  <2>3. ASSUME NEW l \in loggers' PROVE l \in Logger /\ l.entries # <<>>
    <3>1. CASE l \in loggers
      BY <3>1 DEF TypeOK, Busy
    <3>2. CASE \E s \in Slot : pending[s] # <<>> /\ l = [slot |-> s, entries |-> pending[s], block |-> None]
      BY <3>2 DEF TypeOK, Logger
    <3> QED BY <1>6, <2>3, <3>1, <3>2 DEF Flush
  <2> QED BY <1>6, <2>1, <2>2, <2>3 DEF Flush, TypeOK, TrackerTypeOK, Busy
<1>7. ASSUME NEW l \in loggers, LookUp(l) PROVE TypeInv'
  <2>1. ASSUME NEW m \in loggers' PROVE m \in Logger /\ m.entries # <<>>
    <3>1. CASE m \in loggers
      BY <3>1 DEF TypeOK, Busy
    <3>2. CASE \E st \in BlockStatus : m = [l EXCEPT !.block = st]
      <4>1. l \in Logger /\ l.entries # <<>>
        BY DEF TypeOK, Busy
      <4> QED BY <3>2, <4>1 DEF Logger
    <3> QED BY <1>7, <2>1, <3>1, <3>2 DEF LookUp, BlockStatus
  <2> QED BY <1>7, <2>1 DEF LookUp, TypeOK, TrackerTypeOK, Busy
<1>8. ASSUME NEW l \in loggers, WriteEntry(l) PROVE TypeInv'
  <2>1. l \in Logger /\ l.entries \in Seq(Attestation) /\ l.entries # <<>>
    BY DEF TypeOK, Busy, Logger
  <2>2. /\ Head(l.entries) \in Attestation /\ Tail(l.entries) \in Seq(Attestation)
        /\ Len(l.entries) # 1 => Tail(l.entries) # <<>>
    <3>1. /\ Head(l.entries) \in Attestation /\ Tail(l.entries) \in Seq(Attestation)
          /\ Len(Tail(l.entries)) = Len(l.entries) - 1 /\ Len(l.entries) \in Nat
      BY <2>1, TailIn
    <3>2. Tail(l.entries) = <<>> => Len(Tail(l.entries)) = 0
      BY EmptySeq
    <3> QED BY <3>1, <3>2
  <2>3. ASSUME NEW m \in loggers' PROVE m \in Logger /\ m.entries # <<>>
    <3>1. CASE m \in loggers
      BY <3>1 DEF TypeOK, Busy
    <3>2. CASE Len(l.entries) # 1 /\ m = [l EXCEPT !.entries = Tail(@)]
      BY <3>2, <2>1, <2>2 DEF Logger
    <3> QED BY <1>8, <2>3, <3>1, <3>2 DEF WriteEntry
  <2>4. \A e \in log' : e \in Entry
    BY <1>8, <2>1, <2>2 DEF WriteEntry, TypeOK, Entry, Logger
  <2>5. dropped' \subseteq Attestation
    BY <1>8, <2>2 DEF WriteEntry, TypeOK
  <2>6. UNCHANGED <<trackerVars, att, holding, ch, pending, timer, stop, inTime>>
    BY <1>8 DEF WriteEntry
  <2> QED BY <2>3, <2>4, <2>5, <2>6 DEF TypeOK, TrackerTypeOK, Busy
<1>9. CASE Shutdown
  BY <1>9 DEF Shutdown, TypeOK, TrackerTypeOK, Busy
<1> QED BY <1>1, <1>2, <1>3, <1>4, <1>5, <1>6, <1>7, <1>8, <1>9 DEF Next, LoggerStep

\* attestation.go, block.go: every variable keeps its type, and the channel
\* and the subscription never hold more than their capacity.
THEOREM TypeCorrect == Spec => []TypeOK
<1>1. TypeInv => TypeOK
  BY DEF TypeInv
<1> QED BY <1>1, InitType, StepType, PTL DEF Spec

-----------------------------------------------------------------------------
(* The block tracker.                                                      *)

\* uint64 subtraction, without and with a wrap.
LEMMA MinusFacts ==
  ASSUME NEW x \in Nat, NEW y \in Nat, x < Modulus, y < Modulus
  PROVE  Minus(x, y) = IF y <= x THEN x - y ELSE x - y + Modulus
<1>1. CASE y <= x
  <2>1. x - y \in 0 .. Modulus - 1 /\ Modulus \in Nat \ {0}
    BY <1>1, BlockTrackerAssumption
  <2> QED BY <1>1, <2>1 DEF Minus
<1>2. CASE y > x
  <2>1. x - y \in -Modulus .. -1 /\ Modulus \in Nat \ {0}
    BY <1>2, BlockTrackerAssumption
  <2> QED BY <1>2, <2>1 DEF Minus
<1> QED BY <1>1, <1>2

\* Slots are far from the wrap.
LEMMA SlotFacts ==
  /\ Window \in Nat /\ Modulus \in Nat /\ None \notin Slot
  /\ \A s \in Slot \cup {0} : s \in Nat /\ s + Window < Modulus
BY BlockTrackerAssumption DEF Slot

\* Only ListenForBlocks writes to the table and to its own variables.
LEMMA OnlyHandleBlock ==
  ASSUME [Next]_vars
  PROVE  HandleBlock \/ UNCHANGED <<blocks, lastCleanup, firstSeen, newest>>
<1> USE DEF trackerVars, listenerVars
<1>1. CASE Tracker
  BY <1>1 DEF Tracker, SlotPasses, BlockArrives
<1>2. CASE ~Tracker
  BY <1>2 DEF Next, vars, Receive, Send, Buffer, Flush, LoggerStep, LookUp, WriteEntry, Shutdown
<1> QED BY <1>1, <1>2

\* The slot of the block, and what ListenForBlocks does with it.
LEMMA HandleFacts ==
  ASSUME TypeInv, HandleBlock
  PROVE  LET slot == Head(blockQueue)
         IN  /\ slot \in Slot
             /\ firstSeen' = [firstSeen EXCEPT ![slot] = IF @ = None THEN now ELSE @]
             /\ newest' = IF slot > newest THEN slot ELSE newest
             /\ \A s \in Slot :
                  LET kept == IF s = slot /\ blocks[s] = None THEN now ELSE blocks[s]
                  IN  IF Minus(slot, lastCleanup) > Window
                      THEN /\ lastCleanup' = slot
                           /\ blocks'[s] = IF s < Minus(slot, Window) THEN None ELSE kept
                      ELSE lastCleanup' = lastCleanup /\ blocks'[s] = kept
<1>1. Head(blockQueue) \in Slot
  BY HeadTailProperties DEF TypeInv, TypeOK, TrackerTypeOK, HandleBlock
<1>2. blocks \in [Slot -> Slot \cup {None}]
  BY DEF TypeInv, TypeOK, TrackerTypeOK
<1> QED BY <1>1, <1>2 DEF HandleBlock, Record, cleanup

\* The table has entries only for slots whose block was seen.
Seen == \A s \in Slot : blocks[s] # None => firstSeen[s] # None

RecentInv == TypeInv /\ Seen /\ RecentKept

LEMMA StepRecent ==
  ASSUME Window <= FirstSlot, RecentInv, [Next]_vars
  PROVE  RecentInv'
<1>t. TypeInv /\ TypeInv' /\ Seen /\ RecentKept
  BY StepType DEF RecentInv
<1>1. CASE UNCHANGED <<blocks, lastCleanup, firstSeen, newest>>
  BY <1>1, <1>t DEF RecentInv, Seen, RecentKept
<1>2. CASE HandleBlock
  <2> DEFINE slot == Head(blockQueue)
  <2>1. /\ slot \in Slot
        /\ firstSeen' = [firstSeen EXCEPT ![slot] = IF @ = None THEN now ELSE @]
        /\ newest' = IF slot > newest THEN slot ELSE newest
    BY <1>2, <1>t, HandleFacts
  <2>2. \A s \in Slot :
          LET kept == IF s = slot /\ blocks[s] = None THEN now ELSE blocks[s]
          IN  blocks'[s] = kept \/ (s < Minus(slot, Window) /\ blocks'[s] = None)
    BY <1>2, <1>t, HandleFacts
  <2> HIDE DEF slot
  <2>3. /\ now \in Slot /\ newest \in Nat /\ Slot \subseteq Nat /\ None \notin Slot
        /\ firstSeen \in [Slot -> Slot \cup {None}]
    BY <1>t, SlotFacts DEF TypeInv, TypeOK, TrackerTypeOK
  <2>4. Minus(slot, Window) = slot - Window /\ slot \in Nat /\ Window \in Nat
    BY <2>1, MinusFacts, BlockTrackerAssumption DEF Slot
  <2>5. Seen'
    BY <1>t, <2>1, <2>2, <2>3 DEF Seen
  <2>6. ASSUME NEW s \in Slot, firstSeen'[s] # None, s + Window >= newest'
        PROVE  blocks'[s] = firstSeen'[s]
    <3>1. s \in Nat /\ s + Window >= newest /\ ~(s < Minus(slot, Window))
      BY <2>1, <2>3, <2>4, <2>6
    <3>2. blocks'[s] = IF s = slot /\ blocks[s] = None THEN now ELSE blocks[s]
      BY <2>2, <3>1
    <3>3. CASE firstSeen[s] # None
      <4>1. blocks[s] = firstSeen[s]
        BY <1>t, <3>1, <3>3 DEF RecentKept
      <4> QED BY <2>1, <2>3, <3>2, <3>3, <4>1
    <3>4. CASE firstSeen[s] = None
      <4>1. blocks[s] = None /\ s = slot
        BY <1>t, <2>1, <2>3, <2>6, <3>4 DEF Seen
      <4> QED BY <2>1, <2>3, <3>2, <3>4, <4>1
    <3> QED BY <3>3, <3>4
  <2>7. RecentKept'
    BY <2>6 DEF RecentKept
  <2> QED BY <1>t, <2>5, <2>7 DEF RecentInv
<1> QED BY <1>1, <1>2, OnlyHandleBlock

\* block.go, ListenForBlocks: past the first 64 slots of the chain (before,
\* slot - 64 wraps and cleanup empties the table), the entry of a slot within
\* the window of the newest block is there, with the time of the first block,
\* in whatever order blocks come and however often.
THEOREM RecentKeptHolds == Window <= FirstSlot => (Spec => []RecentKept)
<1> SUFFICES ASSUME Window <= FirstSlot PROVE Spec => []RecentKept
  OBVIOUS
<1>1. Init => RecentInv
  <2>1. Init => Seen /\ RecentKept
    BY DEF Init, NewBlockTracker, Seen, RecentKept
  <2> QED BY <2>1, InitType DEF RecentInv
<1>2. RecentInv /\ [Next]_vars => RecentInv'
  BY StepRecent
<1>3. RecentInv => RecentKept
  BY DEF RecentInv
<1> QED BY <1>1, <1>2, <1>3, PTL DEF Spec

StaleInv == TypeInv /\ StaleDropped

LEMMA StepStale == StaleInv /\ [Next]_vars => StaleInv'
<1> SUFFICES ASSUME StaleInv, [Next]_vars PROVE StaleInv'
  OBVIOUS
<1>t. TypeInv /\ TypeInv' /\ StaleDropped
  BY StepType DEF StaleInv
<1>1. CASE UNCHANGED <<blocks, lastCleanup, firstSeen, newest>>
  BY <1>1, <1>t DEF StaleInv, StaleDropped
<1>2. CASE HandleBlock
  <2> DEFINE slot == Head(blockQueue)
  <2>1. slot \in Slot /\ slot \in Nat /\ slot + Window < Modulus /\ Window \in Nat /\ Modulus \in Nat
    BY <1>2, <1>t, HandleFacts, BlockTrackerAssumption DEF Slot
  <2>2. lastCleanup \in Nat /\ lastCleanup + Window < Modulus
    BY <1>t, SlotFacts DEF TypeInv, TypeOK, TrackerTypeOK
  <2>3. \A s \in Slot :
          LET kept == IF s = slot /\ blocks[s] = None THEN now ELSE blocks[s]
          IN  IF Minus(slot, lastCleanup) > Window
              THEN /\ lastCleanup' = slot
                   /\ blocks'[s] = IF s < Minus(slot, Window) THEN None ELSE kept
              ELSE lastCleanup' = lastCleanup /\ blocks'[s] = kept
    BY <1>2, <1>t, HandleFacts
  <2> HIDE DEF slot
  <2>4. ASSUME NEW s \in Slot, blocks'[s] # None PROVE s + Window >= lastCleanup'
    <3>0. s \in Nat
      BY BlockTrackerAssumption DEF Slot
    <3>1. CASE Minus(slot, lastCleanup) > Window
      <4>1. lastCleanup' = slot /\ ~(s < Minus(slot, Window))
        BY <2>3, <2>4, <3>1
      <4>2. Minus(slot, Window) = IF Window <= slot THEN slot - Window ELSE slot - Window + Modulus
        BY <2>1, MinusFacts
      <4> QED BY <2>1, <3>0, <4>1, <4>2
    <3>2. CASE ~(Minus(slot, lastCleanup) > Window)
      <4>1. lastCleanup' = lastCleanup /\ (s = slot \/ blocks[s] # None)
        BY <2>3, <2>4, <3>2
      <4>2. CASE blocks[s] # None
        BY <1>t, <4>1, <4>2 DEF StaleDropped
      <4>3. CASE s = slot
        <5>1. Minus(slot, lastCleanup) =
                IF lastCleanup <= slot THEN slot - lastCleanup ELSE slot - lastCleanup + Modulus
          BY <2>1, <2>2, MinusFacts
        <5> QED BY <2>1, <2>2, <3>2, <4>1, <4>3, <5>1
      <4> QED BY <4>1, <4>2, <4>3
    <3> QED BY <3>1, <3>2
  <2> QED BY <1>t, <2>4 DEF StaleInv, StaleDropped
<1> QED BY <1>1, <1>2, OnlyHandleBlock

\* block.go, ListenForBlocks: no entry is older than the window before the
\* last clean-up, although lastCleanup moves back whenever an old block comes
\* in and the subtraction wraps.
THEOREM StaleDroppedHolds == Spec => []StaleDropped
<1>1. Init => StaleInv
  <2>1. Init => StaleDropped
    BY DEF Init, NewBlockTracker, StaleDropped
  <2> QED BY <2>1, InitType DEF StaleInv
<1>2. StaleInv => StaleDropped
  BY DEF StaleInv
<1> QED BY <1>1, <1>2, StepStale, PTL DEF Spec

-----------------------------------------------------------------------------
(* Attestations on their way to the log.                                   *)

\* Wherever an attestation is, it was delivered, and it is buffered and
\* logged for its own slot.  The timer never waits for slot 0, before which
\* there is no completed slot.
RouteInv ==
  /\ timer >= 1
  /\ \A c \in Collector : holding[c] # None => att[holding[c]] # None
  /\ \A a \in Attestation :
       /\ In(a, ch) => att[a] # None
       /\ \A s \in Slot : In(a, pending[s]) => att[a] = s
       /\ \A l \in loggers : In(a, l.entries) => att[a] = l.slot
       /\ a \in dropped => att[a] # None
  /\ \A e \in log : att[e.id] # None

SlotInv == TypeInv /\ RouteInv /\ OnlyCompleted

\* Nothing is in an empty slice.
LEMMA InNothing == \A a : ~In(a, <<>>)
BY EmptySeq DEF In

LEMMA InitSlot == Init => SlotInv
<1> SUFFICES ASSUME Init PROVE SlotInv
  OBVIOUS
<1>1. TypeInv
  BY InitType
<1>2. timer >= 1
  BY <1>1, TimerType DEF Init, TypeInv, TypeOK
<1>3. \A a : ~In(a, ch) /\ \A s \in Slot : ~In(a, pending[s])
  BY InNothing DEF Init
<1>4. holding = [c \in Collector |-> None] /\ loggers = {} /\ log = {} /\ dropped = {}
  BY DEF Init
<1> QED BY <1>1, <1>2, <1>3, <1>4 DEF SlotInv, RouteInv, OnlyCompleted

LEMMA StepSlot == SlotInv /\ [Next]_vars => SlotInv'
<1> SUFFICES ASSUME SlotInv, [Next]_vars PROVE SlotInv'
  OBVIOUS
<1>t. TypeInv /\ TypeInv' /\ RouteInv /\ OnlyCompleted
  BY StepType DEF SlotInv
<1>goal. SUFFICES RouteInv' /\ OnlyCompleted'
  BY <1>t DEF SlotInv
<1> USE DEF trackerVars, logVars
<1>ty. /\ att \in [Attestation -> Slot \cup {None}] /\ ch \in Seq(Attestation)
       /\ holding \in [Collector -> Attestation \cup {None}]
       /\ pending \in [Slot -> Seq(Attestation)] /\ now \in Slot /\ now \in Nat
       /\ None \notin Slot /\ None \notin Attestation
  BY <1>t, SlotFacts, SlotLogAssumption DEF TypeInv, TypeOK, TrackerTypeOK
<1>1. CASE UNCHANGED <<logVars, now>>
  BY <1>1, <1>t DEF RouteInv, OnlyCompleted
<1>2. CASE Tracker
  <2>1. now' \in Nat /\ now' >= now /\ UNCHANGED logVars
    BY <1>2, <1>ty DEF Tracker, SlotPasses, HandleBlock, BlockArrives
  <2>2. RouteInv'
    BY <2>1, <1>t DEF RouteInv
  <2>3. \A l \in loggers : l.slot \in Nat
    BY <1>t, SlotFacts DEF TypeInv, TypeOK, Logger
  <2>4. \A e \in log : att[e.id] \in Nat
    <3>1. \A e \in log : e.id \in Attestation /\ att[e.id] # None
      BY <1>t DEF TypeInv, TypeOK, Entry, RouteInv
    <3> QED BY <3>1, <1>ty, SlotFacts
  <2>5. OnlyCompleted'
    BY <2>1, <2>3, <2>4, <1>ty, <1>t DEF OnlyCompleted
  <2> QED BY <2>2, <2>5
<1>3. ASSUME NEW c \in Collector, NEW a \in Attestation, NEW s \in FirstSlot .. LastSlot - 1, Receive(c, a, s)
      PROVE  RouteInv' /\ OnlyCompleted'
  <2>1. s # None /\ att[a] = None /\ att'[a] = s /\ \A b \in Attestation \ {a} : att'[b] = att[b]
    BY <1>3, <1>ty, BlockTrackerAssumption DEF Receive
  <2>2. \A b \in Attestation : att[b] # None => att'[b] = att[b]
    BY <2>1
  <2>3. \A d \in Collector : holding'[d] = IF d = c THEN a ELSE holding[d]
    BY <1>3, <1>ty DEF Receive
  <2>4. UNCHANGED <<trackerVars, ch, pending, timer, loggers, log, dropped>>
    BY <1>3 DEF Receive
  <2>5. \A l \in loggers : l.slot # None
    BY <1>t, <1>ty DEF TypeInv, TypeOK, Logger
  <2>6. \A e \in log : e.id \in Attestation
    BY <1>t DEF TypeInv, TypeOK, Entry
  <2>7. RouteInv'
    <3>1. \A d \in Collector : holding'[d] # None => att'[holding'[d]] # None
      BY <2>1, <2>2, <2>3, <1>t, <1>ty DEF RouteInv
    <3> QED BY <3>1, <2>2, <2>4, <2>5, <2>6, <1>t, <1>ty DEF RouteInv
  <2>8. OnlyCompleted'
    BY <2>2, <2>4, <2>6, <1>t DEF RouteInv, OnlyCompleted
  <2> QED BY <2>7, <2>8
<1>4. ASSUME NEW c \in Collector, Send(c) PROVE RouteInv' /\ OnlyCompleted'
  <2>1. holding[c] \in Attestation /\ att[holding[c]] # None
    BY <1>4, <1>t, <1>ty DEF Send, RouteInv
  <2>2. \A b : In(b, ch') <=> b = holding[c] \/ In(b, ch)
    BY <1>4, <2>1, <1>ty, AppendIn DEF Send
  <2>3. \A d \in Collector : holding'[d] = IF d = c THEN None ELSE holding[d]
    BY <1>4, <1>ty DEF Send
  <2>4. UNCHANGED <<trackerVars, att, pending, timer, loggers, log, dropped>>
    BY <1>4 DEF Send
  <2> QED BY <2>1, <2>2, <2>3, <2>4, <1>t DEF RouteInv, OnlyCompleted
<1>5. CASE Buffer
  <2> DEFINE a == Head(ch)
  <2>1. /\ a \in Attestation /\ In(a, ch) /\ \A b : In(b, ch') => In(b, ch)
    BY <1>5, <1>ty, TailIn DEF Buffer
  <2>2. att[a] \in Slot
    BY <2>1, <1>t, <1>ty DEF RouteInv
  <2>3. \A s \in Slot : pending'[s] = IF s = att[a] THEN Append(pending[s], a) ELSE pending[s]
    BY <1>5, <1>ty DEF Buffer
  <2> HIDE DEF a
  <2>4. \A s \in Slot, b \in Attestation : In(b, pending'[s]) => In(b, pending[s]) \/ (b = a /\ s = att[a])
    BY <2>1, <2>3, <1>ty, AppendIn
  <2>5. UNCHANGED <<trackerVars, att, holding, timer, loggers, log, dropped>>
    BY <1>5 DEF Buffer
  <2> QED BY <2>1, <2>2, <2>4, <2>5, <1>t DEF RouteInv, OnlyCompleted
<1>6. CASE Flush
  <2>1. now >= 1 /\ timer' >= 1
    <3>1. timer >= 1 /\ timer \in Nat /\ now >= timer
      BY <1>6, <1>t, SlotFacts DEF Flush, RouteInv, TypeInv, TypeOK
    <3> QED BY <1>6, <1>t, <1>ty, <3>1, TimerType DEF Flush, TypeInv, TypeOK
  <2>2. Minus(now, 1) = now - 1
    BY <2>1, <1>ty, SlotFacts, MinusFacts
  <2>3. ASSUME NEW l \in loggers'
        PROVE  \/ l \in loggers
               \/ \E s \in Slot : /\ l.slot = s /\ l.entries = pending[s] /\ s < now
    BY <1>6, <2>2, <2>3, <1>ty, SlotFacts DEF Flush, Completed
  <2>4. \A s \in Slot, b \in Attestation : In(b, pending'[s]) => In(b, pending[s])
    BY <1>6, InNothing, <1>ty DEF Flush, Deleted
  <2>5. UNCHANGED <<trackerVars, att, holding, ch, log, dropped>>
    BY <1>6 DEF Flush
  <2>6. RouteInv'
    BY <2>1, <2>3, <2>4, <2>5, <1>t DEF RouteInv
  <2>7. OnlyCompleted'
    BY <2>3, <2>5, <1>t DEF OnlyCompleted
  <2> QED BY <2>6, <2>7
<1>7. ASSUME NEW l \in loggers, LookUp(l) PROVE RouteInv' /\ OnlyCompleted'
  <2>1. \A m \in loggers' : m \in loggers \/ (m.slot = l.slot /\ m.entries = l.entries)
    <3>1. l \in Logger
      BY <1>t DEF TypeInv, TypeOK
    <3> QED BY <1>7, <3>1 DEF LookUp, Logger
  <2>2. UNCHANGED <<trackerVars, att, holding, ch, pending, timer, log, dropped>>
    BY <1>7 DEF LookUp
  <2>3. RouteInv'
    BY <2>1, <2>2, <1>t DEF RouteInv
  <2>4. OnlyCompleted'
    BY <2>1, <2>2, <1>t DEF OnlyCompleted
  <2> QED BY <2>3, <2>4
<1>8. ASSUME NEW l \in loggers, WriteEntry(l) PROVE RouteInv' /\ OnlyCompleted'
  <2> DEFINE a == Head(l.entries)
  <2>1. l \in Logger /\ l.entries \in Seq(Attestation) /\ l.entries # <<>> /\ l.slot \in Slot
    BY <1>t DEF TypeInv, TypeOK, Busy, Logger
  <2>2. /\ a \in Attestation /\ In(a, l.entries)
        /\ \A b : In(b, Tail(l.entries)) => In(b, l.entries)
    BY <2>1, TailIn
  <2>3. att[a] = l.slot /\ l.slot < now
    BY <2>2, <1>t DEF RouteInv, OnlyCompleted
  <2>4. \A m \in loggers' : \/ m \in loggers
                            \/ m.slot = l.slot /\ m.entries = Tail(l.entries)
    BY <1>8, <2>1 DEF WriteEntry, Logger
  <2>5. /\ \A e \in log' : e \in log \/ e.id = a
        /\ \A b \in dropped' : b \in dropped \/ b = a
    BY <1>8 DEF WriteEntry
  <2>6. UNCHANGED <<trackerVars, att, holding, ch, pending, timer>>
    BY <1>8 DEF WriteEntry
  <2> HIDE DEF a
  <2>7. RouteInv'
    BY <2>1, <2>2, <2>3, <2>4, <2>5, <2>6, <1>t, <1>ty DEF RouteInv
  <2>8. OnlyCompleted'
    BY <2>3, <2>4, <2>5, <2>6, <1>t DEF OnlyCompleted
  <2> QED BY <2>7, <2>8
<1>9. CASE Shutdown
  BY <1>9, <1>t DEF Shutdown, RouteInv, OnlyCompleted
<1>10. CASE UNCHANGED vars
  BY <1>10, <1>1 DEF vars
<1> QED BY <1>2, <1>3, <1>4, <1>5, <1>6, <1>7, <1>8, <1>9, <1>10 DEF Next, LoggerStep

\* attestation.go, flushSlots: no attestation is handed to a logger or logged
\* before its slot is over, whenever the timer fires and wherever the
\* attestation waits meanwhile.
THEOREM OnlyCompletedHolds == Spec => []OnlyCompleted
<1>1. SlotInv => OnlyCompleted
  BY DEF SlotInv
<1> QED BY <1>1, InitSlot, StepSlot, PTL DEF Spec

-----------------------------------------------------------------------------
(* Exactly once.                                                           *)

Place == {"held", "ch", "pending", "logger", "log", "dropped"}

\* Attestation a is at place w.
IsAt(a, w) ==
  \/ w = "held" /\ \E c \in Collector : holding[c] = a
  \/ w = "ch" /\ In(a, ch)
  \/ w = "pending" /\ \E s \in Slot : In(a, pending[s])
  \/ w = "logger" /\ \E l \in loggers : In(a, l.entries)
  \/ w = "log" /\ Logged(a)
  \/ w = "dropped" /\ a \in dropped

\* A delivered attestation is at one place ...
OnePlace == \A a \in Attestation : att[a] # None => \E w \in Place : \A v \in Place : IsAt(a, v) <=> v = w

\* ... and there only once.
Once ==
  /\ \A c, d \in Collector : holding[c] # None /\ holding[c] = holding[d] => c = d
  /\ NoDup(ch)
  /\ \A s \in Slot : NoDup(pending[s])
  /\ \A l \in loggers : NoDup(l.entries)
  /\ \A l, m \in loggers, a \in Attestation : In(a, l.entries) /\ In(a, m.entries) => l = m
  /\ \A e, f \in log : e.id = f.id => e = f

PlaceInv == SlotInv /\ OnePlace /\ Once

\* Every attestation stays where it is, or has moved to one other place.
LEMMA Moved ==
  ASSUME OnePlace,
         \A b \in Attestation :
           \/ att'[b] = att[b] /\ \A v \in Place : IsAt(b, v)' <=> IsAt(b, v)
           \/ \E w \in Place : \A v \in Place : IsAt(b, v)' <=> v = w
  PROVE  OnePlace'
BY DEF OnePlace

\* What is not delivered yet is nowhere.
LEMMA Nowhere ==
  ASSUME SlotInv, NEW a \in Attestation, att[a] = None
  PROVE  \A v \in Place : ~IsAt(a, v)
<1>1. /\ \A e \in log : e.id \in Attestation
      /\ \A l \in loggers : l.slot \in Slot
      /\ None \notin Slot
  BY SlotFacts DEF SlotInv, TypeInv, TypeOK, Entry, Logger
<1>2. None \notin Attestation
  BY SlotLogAssumption
<1> QED BY <1>1, <1>2 DEF SlotInv, RouteInv, IsAt, Logged

LEMMA InitPlace == Init => PlaceInv
<1> SUFFICES ASSUME Init PROVE PlaceInv
  OBVIOUS
<1>1. OnePlace
  BY DEF Init, OnePlace
<1>2. NoDup(<<>>)
  BY EmptySeq DEF NoDup
<1>3. Once
  BY <1>2 DEF Init, Once
<1> QED BY <1>1, <1>3, InitSlot DEF PlaceInv

\* A collector has read an attestation: it holds it.
LEMMA ReceiveOnce ==
  ASSUME PlaceInv, NEW c \in Collector, NEW a \in Attestation,
         NEW s \in FirstSlot .. LastSlot - 1, Receive(c, a, s)
  PROVE  OnePlace' /\ Once'
<1>t. /\ SlotInv /\ OnePlace /\ Once
      /\ holding \in [Collector -> Attestation \cup {None}] /\ None \notin Attestation
      /\ att \in [Attestation -> Slot \cup {None}]
  BY SlotLogAssumption DEF PlaceInv, SlotInv, TypeInv, TypeOK
<1>1. /\ att[a] = None /\ \A b \in Attestation \ {a} : att'[b] = att[b]
      /\ holding[c] = None
      /\ \A d \in Collector : holding'[d] = IF d = c THEN a ELSE holding[d]
      /\ UNCHANGED <<ch, pending, loggers, log, dropped>>
  BY <1>t DEF Receive
<1>2. \A v \in Place : ~IsAt(a, v)
  BY <1>1, <1>t, Nowhere
<1>3. \A d \in Collector : holding[d] # a
  BY <1>2 DEF IsAt, Place
<1>4. \A v \in Place : IsAt(a, v)' <=> v = "held"
  BY <1>1, <1>2, <1>3 DEF IsAt, Place, Logged
<1>5. \A b \in Attestation \ {a} : \A v \in Place : IsAt(b, v)' <=> IsAt(b, v)
  BY <1>1, <1>t DEF IsAt, Logged
<1>6. OnePlace'
  <2>1. \A b \in Attestation :
          \/ att'[b] = att[b] /\ \A v \in Place : IsAt(b, v)' <=> IsAt(b, v)
          \/ \E w \in Place : \A v \in Place : IsAt(b, v)' <=> v = w
    BY <1>1, <1>4, <1>5 DEF Place
  <2> QED BY <2>1, <1>t, Moved
<1>7. Once'
  BY <1>1, <1>3, <1>t DEF Once
<1> QED BY <1>6, <1>7

\* A collector has sent what it held.
LEMMA SendOnce ==
  ASSUME PlaceInv, NEW c \in Collector, Send(c)
  PROVE  OnePlace' /\ Once'
<1>t. /\ SlotInv /\ OnePlace /\ Once
      /\ holding \in [Collector -> Attestation \cup {None}] /\ None \notin Attestation
      /\ ch \in Seq(Attestation)
  BY SlotLogAssumption DEF PlaceInv, SlotInv, TypeInv, TypeOK
<1>a. PICK a \in Attestation : a = holding[c]
  BY <1>t DEF Send
<1>1. /\ att' = att /\ att[a] # None
      /\ \A d \in Collector : holding'[d] = IF d = c THEN None ELSE holding[d]
      /\ ch' = Append(ch, a)
      /\ UNCHANGED <<pending, loggers, log, dropped>>
  BY <1>t, <1>a DEF Send, SlotInv, RouteInv
<1>2. IsAt(a, "held")
  BY <1>a DEF IsAt
<1>3. \A d \in Collector : holding[d] = a => d = c
  BY <1>1, <1>a, <1>t DEF Once
<1>4. \A v \in Place : IsAt(a, v) <=> v = "held"
  BY <1>1, <1>2, <1>t DEF OnePlace, Place
<1>5. ~In(a, ch)
  BY <1>4 DEF IsAt, Place
<1>6. (\A b : In(b, ch') <=> b = a \/ In(b, ch)) /\ NoDup(ch')
  <2>1. NoDup(ch)
    BY <1>t DEF Once
  <2> QED BY <1>1, <1>5, <1>t, <2>1, AppendIn
<1>7. \A v \in Place : IsAt(a, v)' <=> v = "ch"
  <2>1. \A d \in Collector : holding'[d] # a
    BY <1>1, <1>3, <1>t
  <2> QED BY <1>1, <1>4, <1>6, <2>1 DEF IsAt, Place, Logged
<1>8. \A b \in Attestation \ {a} : \A v \in Place : IsAt(b, v)' <=> IsAt(b, v)
  <2>1. \A b \in Attestation \ {a}, d \in Collector : holding'[d] = b <=> holding[d] = b
    BY <1>1, <1>a, <1>t
  <2> QED BY <1>1, <1>6, <2>1 DEF IsAt, Logged
<1>9. OnePlace'
  <2>1. \A b \in Attestation :
          \/ att'[b] = att[b] /\ \A v \in Place : IsAt(b, v)' <=> IsAt(b, v)
          \/ \E w \in Place : \A v \in Place : IsAt(b, v)' <=> v = w
    BY <1>1, <1>7, <1>8 DEF Place
  <2> QED BY <2>1, <1>t, Moved
<1>10. Once'
  BY <1>1, <1>6, <1>t DEF Once
<1> QED BY <1>9, <1>10

\* flushSlots has taken one from the channel.
LEMMA BufferOnce ==
  ASSUME PlaceInv, Buffer
  PROVE  OnePlace' /\ Once'
<1>t. /\ SlotInv /\ OnePlace /\ Once
      /\ ch \in Seq(Attestation) /\ pending \in [Slot -> Seq(Attestation)]
      /\ att \in [Attestation -> Slot \cup {None}]
  BY DEF PlaceInv, SlotInv, TypeInv, TypeOK
<1>a. PICK a \in Attestation : a = Head(ch)
  BY <1>t, TailIn DEF Buffer
<1>1. /\ In(a, ch) /\ NoDup(ch')
      /\ \A b : In(b, ch') <=> In(b, ch) /\ b # a
  BY <1>a, <1>t, TailIn DEF Buffer, Once
<1>2. /\ UNCHANGED <<att, holding, loggers, log, dropped>>
      /\ \A s \in Slot : pending'[s] = IF s = att[a] THEN Append(pending[s], a) ELSE pending[s]
  BY <1>a, <1>t DEF Buffer
<1>3. att[a] \in Slot /\ att[a] # None
  BY <1>1, <1>t, SlotFacts DEF SlotInv, RouteInv
<1>4. \A v \in Place : IsAt(a, v) <=> v = "ch"
  <2>1. IsAt(a, "ch")
    BY <1>1 DEF IsAt
  <2> QED BY <1>1, <1>3, <2>1, <1>t DEF OnePlace, Place
<1>5. \A s \in Slot : ~In(a, pending[s])
  BY <1>4 DEF IsAt, Place
<1>6. \A s \in Slot : /\ NoDup(pending'[s])
                      /\ \A b : In(b, pending'[s]) <=> In(b, pending[s]) \/ (b = a /\ s = att[a])
  <2>1. \A s \in Slot : NoDup(pending[s])
    BY <1>t DEF Once
  <2> QED BY <1>1, <1>2, <1>5, <1>t, <2>1, AppendIn
<1>7. \A v \in Place : IsAt(a, v)' <=> v = "pending"
  BY <1>1, <1>2, <1>3, <1>4, <1>6 DEF IsAt, Place, Logged
<1>8. \A b \in Attestation \ {a} : \A v \in Place : IsAt(b, v)' <=> IsAt(b, v)
  BY <1>1, <1>2, <1>6 DEF IsAt, Logged
<1>9. OnePlace'
  <2>1. \A b \in Attestation :
          \/ att'[b] = att[b] /\ \A v \in Place : IsAt(b, v)' <=> IsAt(b, v)
          \/ \E w \in Place : \A v \in Place : IsAt(b, v)' <=> v = w
    BY <1>2, <1>7, <1>8 DEF Place
  <2> QED BY <2>1, <1>t, Moved
<1>10. Once'
  BY <1>1, <1>2, <1>6, <1>t DEF Once
<1> QED BY <1>9, <1>10

\* flushSlots has handed the completed slots to new goroutines.
LEMMA FlushOnce ==
  ASSUME PlaceInv, Flush
  PROVE  OnePlace' /\ Once'
<1>t. /\ SlotInv /\ OnePlace /\ Once
      /\ pending \in [Slot -> Seq(Attestation)]
      /\ \A s \in Slot, b \in Attestation : In(b, pending[s]) => att[b] = s /\ att[b] # None
  BY SlotFacts DEF PlaceInv, SlotInv, TypeInv, TypeOK, RouteInv
<1>1. PICK done \in SUBSET Slot :
        /\ loggers' = loggers \cup {[slot |-> s, entries |-> pending[s], block |-> None] : s \in done}
        /\ pending' = Deleted(done)
  BY DEF Flush
<1>2. UNCHANGED <<att, holding, ch, log, dropped>>
  BY DEF Flush
<1>3. \A s \in Slot : pending'[s] = IF s \in done THEN <<>> ELSE pending[s]
  BY <1>1 DEF Deleted
<1>4. \A l \in loggers' : l \in loggers \/ \E s \in done : /\ l.slot = s /\ l.entries = pending[s]
                                                          /\ l = [slot |-> s, entries |-> pending[s], block |-> None]
  BY <1>1
<1>5. loggers \subseteq loggers' /\ \A s \in done : \E l \in loggers' : l.entries = pending[s]
  <2>1. \A s \in done : [slot |-> s, entries |-> pending[s], block |-> None] \in loggers'
    BY <1>1
  <2>2. \A s \in done : [slot |-> s, entries |-> pending[s], block |-> None].entries = pending[s]
    OBVIOUS
  <2> QED BY <1>1, <2>1, <2>2
<1>6. ASSUME NEW b \in Attestation, NEW s \in done, In(b, pending[s])
      PROVE  (\A v \in Place : IsAt(b, v) <=> v = "pending") /\ \A v \in Place : IsAt(b, v)' <=> v = "logger"
  <2>1. \A v \in Place : IsAt(b, v) <=> v = "pending"
    <3>1. IsAt(b, "pending") /\ att[b] # None
      BY <1>6, <1>t DEF IsAt
    <3> QED BY <3>1, <1>t DEF OnePlace, Place
  <2>2. \A t \in Slot : ~In(b, pending'[t])
    BY <1>3, <1>6, <1>t, InNothing
  <2>3. \E l \in loggers' : In(b, l.entries)
    BY <1>5, <1>6
  <2> QED BY <1>2, <2>1, <2>2, <2>3 DEF IsAt, Place, Logged
<1>7. ASSUME NEW b \in Attestation, \A s \in done : ~In(b, pending[s])
      PROVE  \A v \in Place : IsAt(b, v)' <=> IsAt(b, v)
  <2>1. \A t \in Slot : In(b, pending'[t]) <=> In(b, pending[t])
    BY <1>3, <1>7, InNothing
  <2>2. (\E l \in loggers' : In(b, l.entries)) <=> \E l \in loggers : In(b, l.entries)
    BY <1>4, <1>5, <1>7
  <2> QED BY <1>2, <2>1, <2>2 DEF IsAt, Logged
<1>8. OnePlace'
  <2>1. \A b \in Attestation :
          \/ att'[b] = att[b] /\ \A v \in Place : IsAt(b, v)' <=> IsAt(b, v)
          \/ \E w \in Place : \A v \in Place : IsAt(b, v)' <=> v = w
    BY <1>2, <1>6, <1>7 DEF Place
  <2> QED BY <2>1, <1>t, Moved
<1>9. ASSUME NEW l \in loggers', NEW m \in loggers', NEW a \in Attestation, In(a, l.entries), In(a, m.entries)
      PROVE  l = m
  <2>1. ASSUME NEW k \in loggers, In(a, k.entries) PROVE \A s \in done : ~In(a, pending[s])
    <3>1. IsAt(a, "logger")
      BY <2>1 DEF IsAt
    <3> QED BY <3>1, <1>6 DEF Place
  <2>2. CASE l \in loggers /\ m \in loggers
    BY <2>2, <1>9, <1>t DEF Once
  <2>3. CASE l \in loggers /\ m \notin loggers
    BY <2>3, <1>9, <2>1, <1>4
  <2>4. CASE l \notin loggers /\ m \in loggers
    BY <2>4, <1>9, <2>1, <1>4
  <2>5. CASE l \notin loggers /\ m \notin loggers
    <3>1. PICK s \in done : l = [slot |-> s, entries |-> pending[s], block |-> None] /\ In(a, pending[s])
      BY <2>5, <1>4, <1>9
    <3>2. PICK u \in done : m = [slot |-> u, entries |-> pending[u], block |-> None] /\ In(a, pending[u])
      BY <2>5, <1>4, <1>9
    <3>3. s = u
      BY <3>1, <3>2, <1>t
    <3> QED BY <3>1, <3>2, <3>3
  <2> QED BY <2>2, <2>3, <2>4, <2>5
<1>10. NoDup(<<>>)
  BY EmptySeq DEF NoDup
<1>11. (\A s \in Slot : NoDup(pending'[s])) /\ \A l \in loggers' : NoDup(l.entries)
  BY <1>3, <1>4, <1>10, <1>t DEF Once
<1>12. Once'
  BY <1>2, <1>9, <1>11, <1>t DEF Once
<1> QED BY <1>8, <1>12

\* A logger has looked its block up: it has the same entries.
LEMMA LookUpOnce ==
  ASSUME PlaceInv, NEW l \in loggers, LookUp(l)
  PROVE  OnePlace' /\ Once'
<1>t. SlotInv /\ OnePlace /\ Once /\ l \in Logger
  BY DEF PlaceInv, SlotInv, TypeInv, TypeOK
<1>1. PICK status : loggers' = (loggers \ {l}) \cup {[l EXCEPT !.block = status]}
  BY DEF LookUp
<1> DEFINE k == [l EXCEPT !.block = status]
<1>k. loggers' = (loggers \ {l}) \cup {k} /\ k.entries = l.entries
  BY <1>1, <1>t DEF Logger
<1> HIDE DEF k
<1>2. UNCHANGED <<att, holding, ch, pending, log, dropped>>
  BY DEF LookUp
<1>3. \A b \in Attestation, v \in Place : IsAt(b, v)' <=> IsAt(b, v)
  BY <1>k, <1>2 DEF IsAt, Logged
<1>4. OnePlace'
  BY <1>2, <1>3, <1>t, Moved
<1>5. Once'
  <2>1. \A m \in loggers' : NoDup(m.entries)
    BY <1>k, <1>t DEF Once
  <2>2. \A m, n \in loggers', a \in Attestation : In(a, m.entries) /\ In(a, n.entries) => m = n
    BY <1>k, <1>t DEF Once
  <2> QED BY <1>2, <2>1, <2>2, <1>t DEF Once
<1> QED BY <1>4, <1>5

\* A logger has written a line, or lost one to a closed file.
LEMMA WriteOnce ==
  ASSUME PlaceInv, NEW l \in loggers, WriteEntry(l)
  PROVE  OnePlace' /\ Once'
<1>t. /\ SlotInv /\ OnePlace /\ Once
      /\ l \in Logger /\ l.entries \in Seq(Attestation) /\ l.entries # <<>> /\ NoDup(l.entries)
  BY DEF PlaceInv, SlotInv, TypeInv, TypeOK, Busy, Logger, Once
<1>1. PICK a \in Attestation : a = Head(l.entries)
  BY <1>t, TailIn
<1>2. /\ In(a, l.entries) /\ NoDup(Tail(l.entries))
      /\ \A b : In(b, Tail(l.entries)) <=> In(b, l.entries) /\ b # a
      /\ Len(l.entries) = 1 => \A b : ~In(b, Tail(l.entries))
  <2>1. Len(l.entries) = 1 => \A b : ~In(b, Tail(l.entries))
    BY <1>t, TailIn DEF In
  <2> QED BY <1>1, <1>t, <2>1, TailIn
<1>3. UNCHANGED <<att, holding, ch, pending>>
  BY DEF WriteEntry
<1>4. \A v \in Place : IsAt(a, v) <=> v = "logger"
  <2>1. IsAt(a, "logger")
    BY <1>2 DEF IsAt
  <2>2. att[a] # None
    BY <2>1, <1>t, Nowhere DEF Place
  <2> QED BY <2>1, <2>2, <1>t DEF OnePlace, Place
<1>5. ~Logged(a) /\ a \notin dropped
  BY <1>4 DEF IsAt, Place
<1>6. \A m \in loggers' : m \in loggers \ {l} \/ (m.entries = Tail(l.entries) /\ m = [l EXCEPT !.entries = Tail(@)])
  BY <1>t DEF WriteEntry, Logger
<1>7. \A b : (\E m \in loggers \ {l} : In(b, m.entries)) \/ In(b, Tail(l.entries))
               <=> \E m \in loggers' : In(b, m.entries)
  BY <1>2, <1>6, <1>t DEF WriteEntry, Logger
<1>8. \A m \in loggers \ {l} : ~In(a, m.entries)
  BY <1>2, <1>t DEF Once
<1>9. ~\E m \in loggers' : In(a, m.entries)
  BY <1>2, <1>7, <1>8
<1>10. \A b \in Attestation \ {a} : (\E m \in loggers' : In(b, m.entries)) <=> \E m \in loggers : In(b, m.entries)
  BY <1>2, <1>7
<1> DEFINE k == [id |-> a, block |-> l.block]
<1>11. /\ k.id = a
       /\ \/ log' = log \cup {k} /\ dropped' = dropped
          \/ log' = log /\ dropped' = dropped \cup {a}
  BY <1>1 DEF WriteEntry
<1> HIDE DEF k
<1>12. \A b \in Attestation \ {a} : (Logged(b)' <=> Logged(b)) /\ (b \in dropped' <=> b \in dropped)
  BY <1>11 DEF Logged
<1>13. \E w \in {"log", "dropped"} : /\ Logged(a)' <=> w = "log"
                                     /\ a \in dropped' <=> w = "dropped"
  BY <1>5, <1>11 DEF Logged
<1>14. \E w \in Place : \A v \in Place : IsAt(a, v)' <=> v = w
  BY <1>3, <1>4, <1>9, <1>13 DEF IsAt, Place
<1>15. \A b \in Attestation \ {a} : \A v \in Place : IsAt(b, v)' <=> IsAt(b, v)
  BY <1>3, <1>10, <1>12 DEF IsAt
<1>16. OnePlace'
  <2>1. \A b \in Attestation :
          \/ att'[b] = att[b] /\ \A v \in Place : IsAt(b, v)' <=> IsAt(b, v)
          \/ \E w \in Place : \A v \in Place : IsAt(b, v)' <=> v = w
    BY <1>3, <1>14, <1>15
  <2> QED BY <2>1, <1>t, Moved
<1>17. Once'
  <2>1. \A m \in loggers' : NoDup(m.entries)
    BY <1>2, <1>6, <1>t DEF Once
  <2>2. \A m, n \in loggers', b \in Attestation : In(b, m.entries) /\ In(b, n.entries) => m = n
    BY <1>2, <1>6, <1>t DEF Once
  <2>3. \A e, f \in log' : e.id = f.id => e = f
    BY <1>5, <1>11, <1>t DEF Once, Logged
  <2> QED BY <1>3, <2>1, <2>2, <2>3, <1>t DEF Once
<1> QED BY <1>16, <1>17

LEMMA StepPlace == PlaceInv /\ [Next]_vars => PlaceInv'
<1> SUFFICES ASSUME PlaceInv, [Next]_vars PROVE PlaceInv'
  OBVIOUS
<1>t. SlotInv /\ SlotInv' /\ OnePlace /\ Once
  BY StepSlot DEF PlaceInv
<1>goal. SUFFICES OnePlace' /\ Once'
  BY <1>t DEF PlaceInv
<1>1. CASE UNCHANGED <<att, holding, ch, pending, loggers, log, dropped>>
  <2>1. \A b \in Attestation, v \in Place : IsAt(b, v)' <=> IsAt(b, v)
    BY <1>1 DEF IsAt, Logged
  <2>2. OnePlace'
    BY <1>1, <2>1, <1>t, Moved
  <2> QED BY <1>1, <2>2, <1>t DEF Once
<1>2. CASE Tracker \/ Shutdown \/ UNCHANGED vars
  BY <1>1, <1>2 DEF Tracker, Shutdown, vars, logVars
<1> QED BY <1>2, ReceiveOnce, SendOnce, BufferOnce, FlushOnce, LookUpOnce, WriteOnce DEF Next, LoggerStep

\* A set that is empty, or has only one element.
LEMMA AtMostOne ==
  ASSUME NEW S, \A x, y \in S : x = y
  PROVE  Cardinality(S) = IF S = {} THEN 0 ELSE 1
<1>1. CASE S = {}
  BY <1>1, FS_EmptySet
<1>2. CASE S # {}
  <2>1. PICK x \in S : TRUE
    BY <1>2
  <2>2. S = {x}
    BY <2>1
  <2> QED BY <1>2, <2>2, FS_Singleton
<1> QED BY <1>1, <1>2

\* The places add up.
LEMMA PlacesCount == PlaceInv => ExactlyOnce
<1> SUFFICES ASSUME PlaceInv, NEW a \in Attestation
             PROVE  (IF att[a] = None THEN 0 ELSE 1)
                      = Cardinality({c \in Collector : holding[c] = a})
                        + Count(a, ch)
                        + Cardinality({s \in Slot : Count(a, pending[s]) = 1})
                        + Cardinality({l \in loggers : Count(a, l.entries) = 1})
                        + Cardinality({e \in log : e.id = a})
                        + Cardinality(dropped \cap {a})
  BY DEF ExactlyOnce
<1> DEFINE n(v) == IF IsAt(a, v) THEN 1 ELSE 0
<1>t. /\ SlotInv /\ OnePlace /\ Once /\ None \notin Attestation
      /\ ch \in Seq(Attestation) /\ pending \in [Slot -> Seq(Attestation)]
      /\ \A l \in loggers : l.entries \in Seq(Attestation)
  BY SlotLogAssumption DEF PlaceInv, SlotInv, TypeInv, TypeOK, Logger
<1>1. Cardinality({c \in Collector : holding[c] = a}) = n("held")
  <2> DEFINE S == {c \in Collector : holding[c] = a}
  <2>1. (\A x, y \in S : x = y) /\ (S = {} <=> ~IsAt(a, "held"))
    BY <1>t DEF Once, IsAt
  <2> HIDE DEF S
  <2>2. Cardinality(S) = n("held")
    BY <2>1, AtMostOne
  <2> QED BY <2>2 DEF S
<1>2. Count(a, ch) = n("ch")
  <2>1. NoDup(ch) /\ (IsAt(a, "ch") <=> In(a, ch))
    BY <1>t DEF Once, IsAt
  <2> QED BY <2>1, <1>t, CountOnce
<1>3. Cardinality({s \in Slot : Count(a, pending[s]) = 1}) = n("pending")
  <2> DEFINE S == {s \in Slot : Count(a, pending[s]) = 1}
  <2>1. \A s \in Slot : Count(a, pending[s]) = IF In(a, pending[s]) THEN 1 ELSE 0
    BY <1>t, CountOnce DEF Once
  <2>2. S = {s \in Slot : In(a, pending[s])}
    BY <2>1
  <2>3. (\A x, y \in S : x = y) /\ (S = {} <=> ~IsAt(a, "pending"))
    BY <2>2, <1>t DEF SlotInv, RouteInv, IsAt
  <2> HIDE DEF S
  <2>4. Cardinality(S) = n("pending")
    BY <2>3, AtMostOne
  <2> QED BY <2>4 DEF S
<1>4. Cardinality({l \in loggers : Count(a, l.entries) = 1}) = n("logger")
  <2> DEFINE S == {l \in loggers : Count(a, l.entries) = 1}
  <2>1. \A l \in loggers : Count(a, l.entries) = IF In(a, l.entries) THEN 1 ELSE 0
    BY <1>t, CountOnce DEF Once
  <2>2. S = {l \in loggers : In(a, l.entries)}
    BY <2>1
  <2>3. (\A x, y \in S : x = y) /\ (S = {} <=> ~IsAt(a, "logger"))
    BY <2>2, <1>t DEF Once, IsAt
  <2> HIDE DEF S
  <2>4. Cardinality(S) = n("logger")
    BY <2>3, AtMostOne
  <2> QED BY <2>4 DEF S
<1>5. Cardinality({e \in log : e.id = a}) = n("log")
  <2> DEFINE S == {e \in log : e.id = a}
  <2>1. (\A x, y \in S : x = y) /\ (S = {} <=> ~IsAt(a, "log"))
    BY <1>t DEF Once, IsAt, Logged
  <2> HIDE DEF S
  <2>2. Cardinality(S) = n("log")
    BY <2>1, AtMostOne
  <2> QED BY <2>2 DEF S
<1>6. Cardinality(dropped \cap {a}) = n("dropped")
  <2> DEFINE S == dropped \cap {a}
  <2>1. (\A x, y \in S : x = y) /\ (S = {} <=> ~IsAt(a, "dropped"))
    BY DEF IsAt
  <2> HIDE DEF S
  <2>2. Cardinality(S) = n("dropped")
    BY <2>1, AtMostOne
  <2> QED BY <2>2 DEF S
<1>7. (IF att[a] = None THEN 0 ELSE 1)
        = n("held") + n("ch") + n("pending") + n("logger") + n("log") + n("dropped")
  <2>1. CASE att[a] = None
    <3>1. \A v \in Place : ~IsAt(a, v)
      BY <2>1, <1>t, Nowhere
    <3> QED BY <2>1, <3>1 DEF Place
  <2>2. CASE att[a] # None
    <3>1. PICK w \in Place : \A v \in Place : IsAt(a, v) <=> v = w
      BY <2>2, <1>t DEF OnePlace
    <3> QED BY <2>2, <3>1 DEF Place
  <2> QED BY <2>1, <2>2
<1> HIDE DEF n
<1> QED BY <1>1, <1>2, <1>3, <1>4, <1>5, <1>6, <1>7

\* attestation.go, collectSubnet, flushSlots and logSlotAttestations: an
\* attestation that was delivered is in exactly one place until it is logged
\* or its line is lost to a closed file; none vanishes and none is logged
\* twice, whatever the goroutines' order.
THEOREM ExactlyOnceHolds == Spec => []ExactlyOnce
BY InitPlace, StepPlace, PlacesCount, PTL DEF Spec
=============================================================================
