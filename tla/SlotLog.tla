------------------------------ MODULE SlotLog ------------------------------
(***************************************************************************)
(* node/attestation.go over node/block.go: one collector goroutine per     *)
(* subnet puts attestations on a channel; flushSlots buffers them by slot  *)
(* and, at every slot boundary, hands the finished slots to goroutines     *)
(* that look the block up and write the log.  ListenForBlocks fills the    *)
(* block tracker at the same time.  On a signal main cancels the context,  *)
(* closes the log files and exits without waiting for any of them.         *)
(***************************************************************************)
EXTENDS BlockTracker, FiniteSets

CONSTANTS
  Collector,   \* the collectSubnet goroutines, one per subnet
  Attestation, \* attestations, each one delivered at most once
  ChanCap      \* capacity of ch (4096)

ASSUME SlotLogAssumption == ChanCap \in Nat \ {0} /\ None \notin Attestation

VARIABLES
  att,       \* attestation -> its slot, None until it is delivered
  holding,   \* collector -> the attestation it is sending on ch, or None
  ch,        \* the channel
  pending,   \* flushSlots: slot -> attestations buffered for it
  timer,     \* flushSlots: the slot whose start the timer waits for
  loggers,   \* logSlotAttestations goroutines and what they have yet to write
  log,       \* what has been written: attestation and block status
  dropped,   \* attestations written to a log file that was closed
  stop,      \* how far main's shutdown is
  inTime     \* history: slots whose block came in before they were over

logVars == <<att, holding, ch, pending, timer, loggers, log, dropped, stop>>
vars == <<trackerVars, logVars, inTime>>

BlockStatus == {"proposed", "missed"}
Logger == [slot : Slot, entries : Seq(Attestation), block : BlockStatus \cup {None}]
Entry == [id : Attestation, block : BlockStatus]

\* Every variable has a value the Go types and the channel's capacity allow.
TypeOK ==
  /\ TrackerTypeOK
  /\ att \in [Attestation -> Slot \cup {None}]
  /\ holding \in [Collector -> Attestation \cup {None}]
  /\ ch \in Seq(Attestation) /\ Len(ch) <= ChanCap
  /\ pending \in [Slot -> Seq(Attestation)]
  /\ timer \in Slot
  /\ \A l \in loggers : l \in Logger
  /\ \A e \in log : e \in Entry
  /\ dropped \subseteq Attestation
  /\ stop \in {"no", "cancelled", "closed"}
  /\ inTime \subseteq Slot

\* nextSlotTimer.  The clock stops at LastSlot, where the timer keeps firing.
nextSlotTimer == IF now < LastSlot THEN now + 1 ELSE LastSlot

Init ==
  /\ NewBlockTracker
  /\ att = [a \in Attestation |-> None]
  /\ holding = [c \in Collector |-> None]
  /\ ch = <<>>
  /\ pending = [s \in Slot |-> <<>>]
  /\ timer = nextSlotTimer
  /\ loggers = {}
  /\ log = {}
  /\ dropped = {}
  /\ stop = "no"
  /\ inTime = {}

-----------------------------------------------------------------------------

\* sub.Next returns an attestation, of whatever slot, and it decodes.  Next
\* may still do so when the context has been cancelled.
Receive(c, a, s) ==
  /\ holding[c] = None
  /\ att[a] = None
  /\ att' = [att EXCEPT ![a] = s]
  /\ holding' = [holding EXCEPT ![c] = a]
  /\ UNCHANGED <<trackerVars, ch, pending, timer, loggers, log, dropped, stop, inTime>>

\* Mutant: the channel is never full.
NeverFull == FALSE

Full == Len(ch) >= ChanCap

\* ch <- bufferedAttestation{...}, which blocks while ch is full.
Send(c) ==
  /\ holding[c] # None
  /\ ~Full
  /\ ch' = Append(ch, holding[c])
  /\ holding' = [holding EXCEPT ![c] = None]
  /\ UNCHANGED <<trackerVars, att, pending, timer, loggers, log, dropped, stop, inTime>>

\* flushSlots, case entry := <-ch.
Buffer ==
  /\ ch # <<>>
  /\ LET a == Head(ch) IN pending' = [pending EXCEPT ![att[a]] = Append(@, a)]
  /\ ch' = Tail(ch)
  /\ UNCHANGED <<trackerVars, att, holding, timer, loggers, log, dropped, stop, inTime>>

\* Mutant: only the slot that has just ended is looked up.
CompletedLast(s) == s = Minus(now, 1)

\* Mutant: the current slot counts as completed.
CompletedNow(s) == s <= now

\* s <= completedSlot, with completedSlot the current slot less one.
Completed(s) == s <= Minus(now, 1)

\* Mutant: the slots handed to a logger stay in pending.
DeleteNothing(done) == pending

\* delete(pending, s)
Deleted(done) == [s \in Slot |-> IF s \in done THEN <<>> ELSE pending[s]]

\* flushSlots, case <-timer.C: a goroutine for every completed slot.
Flush ==
  LET done == {s \in Slot : Completed(s) /\ pending[s] # <<>>} IN
  /\ now >= timer
  /\ loggers' = loggers \cup {[slot |-> s, entries |-> pending[s], block |-> None] : s \in done}
  /\ pending' = Deleted(done)
  /\ timer' = nextSlotTimer
  /\ UNCHANGED <<trackerVars, att, holding, ch, log, dropped, stop, inTime>>

\* logSlotAttestations: the block is looked up once, for all entries.
LookUp(l) ==
  LET status == IF blocks[l.slot] = None THEN "missed" ELSE "proposed" IN
  /\ l.block = None
  /\ loggers' = (loggers \ {l}) \cup {[l EXCEPT !.block = status]}
  /\ UNCHANGED <<trackerVars, att, holding, ch, pending, timer, log, dropped, stop, inTime>>

\* The log files are closed; slog does not report the failure of a write.
FilesClosed == stop = "closed"

\* logSlotAttestations: fileLogger.Info, one entry after the other.
WriteEntry(l) ==
  LET a == Head(l.entries) IN
  /\ l.block # None
  /\ loggers' = (loggers \ {l}) \cup
       (IF Len(l.entries) = 1 THEN {} ELSE {[l EXCEPT !.entries = Tail(@)]})
  /\ IF FilesClosed
     THEN dropped' = dropped \cup {a} /\ UNCHANGED log
     ELSE log' = log \cup {[id |-> a, block |-> l.block]} /\ UNCHANGED dropped
  /\ UNCHANGED <<trackerVars, att, holding, ch, pending, timer, stop, inTime>>

LoggerStep == \E l \in loggers : LookUp(l) \/ WriteEntry(l)

(***************************************************************************)
(* main: a signal, then cancel(); the clean-up closes the files and main   *)
(* returns.  From cancel() on a collector (sub.Next), flushSlots (its      *)
(* ctx.Done case, with slots still pending) and then the whole process may *)
(* end at any point, which is to take no further step: no fairness is      *)
(* assumed of them any more.  A collector may stay blocked on ch.          *)
(***************************************************************************)
Shutdown ==
  /\ \/ stop = "no" /\ stop' = "cancelled"
     \/ stop = "cancelled" /\ stop' = "closed"
  /\ UNCHANGED <<trackerVars, att, holding, ch, pending, timer, loggers, log, dropped, inTime>>

-----------------------------------------------------------------------------

\* ListenForBlocks and the clock; nothing more is delivered to a closed host.
Tracker ==
  /\ ~FilesClosed
  /\ \/ SlotPasses /\ UNCHANGED inTime
     \/ HandleBlock /\ UNCHANGED inTime
     \/ \E s \in Slot : /\ BlockArrives(s)
                        /\ inTime' = IF s >= now THEN inTime \cup {s} ELSE inTime
  /\ UNCHANGED logVars

Next ==
  \/ Tracker
  \/ \E c \in Collector, a \in Attestation, s \in FirstSlot .. LastSlot - 1 : Receive(c, a, s)
  \/ \E c \in Collector : Send(c)
  \/ Buffer
  \/ Flush
  \/ LoggerStep
  \/ Shutdown

Spec == Init /\ [][Next]_vars

Running == stop = "no"

(***************************************************************************)
(* Until the signal the clock runs and every goroutine is scheduled.       *)
(* flushSlots' select picks at random among its ready cases, so the timer  *)
(* is served although the channel may have something in it every time.     *)
(***************************************************************************)
Fairness ==
  /\ WF_vars(Running /\ SlotPasses /\ UNCHANGED <<logVars, inTime>>)
  /\ \A c \in Collector : WF_vars(Running /\ Send(c))
  /\ WF_vars(Running /\ Buffer)
  /\ SF_vars(Running /\ Flush)
  /\ WF_vars(Running /\ LoggerStep)

FairSpec == Spec /\ Fairness

-----------------------------------------------------------------------------

\* How often a occurs in the sequence q.
Count(a, q) == Cardinality({k \in 1 .. Len(q) : q[k] = a})

Logged(a) == \E e \in log : e.id = a

(***************************************************************************)
(* attestation.go, collectSubnet, flushSlots and logSlotAttestations:      *)
(* between delivery and log line an attestation is in exactly one place;   *)
(* none is lost and none is logged twice, also when it comes in after its  *)
(* slot was flushed, while the channel is full, or while main closes the   *)
(* files: a line is then either written or dropped, whole.                 *)
(***************************************************************************)
ExactlyOnce ==
  \A a \in Attestation :
    (IF att[a] = None THEN 0 ELSE 1)
      = Cardinality({c \in Collector : holding[c] = a})
        + Count(a, ch)
        + Cardinality({s \in Slot : Count(a, pending[s]) = 1})
        + Cardinality({l \in loggers : Count(a, l.entries) = 1})
        + Cardinality({e \in log : e.id = a})
        + Cardinality(dropped \cap {a})

(***************************************************************************)
(* attestation.go, "logs them once the slot completes": no attestation is  *)
(* handed to a logger, or logged, before its slot is over.                 *)
(***************************************************************************)
OnlyCompleted ==
  /\ \A l \in loggers : l.slot < now
  /\ \A e \in log : att[e.id] < now

(***************************************************************************)
(* attestation.go, flushSlots: every attestation that comes in is logged,  *)
(* however late it is, unless a signal comes first; only then does the     *)
(* code give up what it has not yet written.                               *)
(***************************************************************************)
EventuallyLogged == \A a \in Attestation : att[a] # None ~> Logged(a) \/ stop # "no"

(***************************************************************************)
(* attestation.go, ListenForAttestations: attestations are logged once the *)
(* slot completes, "so block arrival status is known": if the slot's block *)
(* came in before the slot was over, it is not logged as missed.           *)
(***************************************************************************)
StatusKnown ==
  \A e \in log : att[e.id] \in inTime => e.block = "proposed"
=============================================================================
