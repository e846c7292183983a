---------------------------- MODULE BlockTracker ----------------------------
(***************************************************************************)
(* node/block.go: the shared table of block arrivals and the goroutine     *)
(* (ListenForBlocks) that fills and prunes it.  Slots are uint64, so       *)
(* subtraction wraps; Modulus stands for 2^64.  Gossip delivers blocks in  *)
(* any order, early, late, and more than once.  Time is counted in slots.  *)
(***************************************************************************)
EXTENDS Integers, Sequences

CONSTANTS
  FirstSlot,  \* bound: the slot in which the probe starts
  LastSlot,   \* bound: the slot in which the clock stops
  Window,     \* the 64 of "every 64 slots"
  Modulus,    \* stands for 2^64
  BlockBuf,   \* bound: capacity of the block subscription
  None        \* no arrival: a missing entry of blocks

ASSUME BlockTrackerAssumption ==
  /\ {FirstSlot, LastSlot, Window, Modulus, BlockBuf} \subseteq Nat
  /\ FirstSlot < LastSlot
  \* slots.StartTime refuses a slot whose start in seconds overflows.
  /\ LastSlot + Window < Modulus
  /\ None \notin Nat

VARIABLES
  now,          \* slots.CurrentSlot
  blockQueue,   \* block messages that sub.Next has not returned yet
  blocks,       \* slot -> arrival time of its first block, or None
  lastCleanup,  \* ListenForBlocks: the slot at which it last pruned
  firstSeen,    \* history: slot -> time at which its first block was recorded
  newest        \* history: the newest slot recorded, 0 before the first

trackerVars == <<now, blockQueue, blocks, lastCleanup, firstSeen, newest>>
listenerVars == <<blockQueue, blocks, lastCleanup, firstSeen, newest>>

Slot == FirstSlot .. LastSlot

TrackerTypeOK ==
  /\ now \in Slot
  /\ blockQueue \in Seq(Slot) /\ Len(blockQueue) <= BlockBuf
  /\ blocks \in [Slot -> Slot \cup {None}]
  /\ lastCleanup \in Slot \cup {0}
  /\ firstSeen \in [Slot -> Slot \cup {None}]
  /\ newest \in Slot \cup {0}

NewBlockTracker ==
  /\ now = FirstSlot
  /\ blockQueue = <<>>
  /\ blocks = [s \in Slot |-> None]
  /\ lastCleanup = 0
  /\ firstSeen = [s \in Slot |-> None]
  /\ newest = 0

\* uint64 subtraction.
Minus(x, y) == (x - y) % Modulus

SlotPasses ==
  /\ now < LastSlot
  /\ now' = now + 1
  /\ UNCHANGED listenerVars

\* A block comes in.  Nothing checks its slot against the clock.
BlockArrives(s) ==
  /\ Len(blockQueue) < BlockBuf
  /\ blockQueue' = Append(blockQueue, s)
  /\ UNCHANGED <<now, blocks, lastCleanup, firstSeen, newest>>

Record(table, slot, t) == [table EXCEPT ![slot] = IF @ = None THEN t ELSE @]

\* Mutant: cleanup takes the window off once more.
CleanupTwice(table, minSlot) ==
  [s \in Slot |-> IF s < Minus(minSlot, Window) THEN None ELSE table[s]]

\* Mutant: cleanup also removes minSlot itself.
CleanupInclusive(table, minSlot) == [s \in Slot |-> IF s <= minSlot THEN None ELSE table[s]]

cleanup(table, minSlot) == [s \in Slot |-> IF s < minSlot THEN None ELSE table[s]]

\* One turn of ListenForBlocks: record the block and, at times, prune.
HandleBlock ==
  /\ blockQueue # <<>>
  /\ LET slot == Head(blockQueue)
         recorded == Record(blocks, slot, now)
         prune == Minus(slot, lastCleanup) > Window
     IN  /\ blocks' = IF prune THEN cleanup(recorded, Minus(slot, Window)) ELSE recorded
         /\ lastCleanup' = IF prune THEN slot ELSE lastCleanup
         /\ firstSeen' = [firstSeen EXCEPT ![slot] = IF @ = None THEN now ELSE @]
         /\ newest' = IF slot > newest THEN slot ELSE newest
  /\ blockQueue' = Tail(blockQueue)
  /\ UNCHANGED now

-----------------------------------------------------------------------------

(***************************************************************************)
(* block.go, "Cleanup old entries every 64 slots" and "Record stores the   *)
(* first block arrival time": whatever order blocks come in, the entry of  *)
(* a slot within 64 slots of the newest block is there, and holds the time *)
(* of that slot's first block.                                             *)
(***************************************************************************)
RecentKept ==
  \A s \in Slot : firstSeen[s] # None /\ s + Window >= newest => blocks[s] = firstSeen[s]

(***************************************************************************)
(* block.go, ListenForBlocks: the table does not collect stale entries; a  *)
(* block of an old slot moves lastCleanup back (the subtraction wraps), so *)
(* that the next recent block removes it.                                  *)
(***************************************************************************)
StaleDropped == \A s \in Slot : blocks[s] # None => s + Window >= lastCleanup
=============================================================================
