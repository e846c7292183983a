---------------------------- MODULE PeerManager ----------------------------
(***************************************************************************)
(* node/peermanager.go: the loop that pulls an instance's peers from the   *)
(* PeerFinder and the goroutines it spawns to dial them, with the peer     *)
(* cap, the limit on what is in flight, and the backoff of failed peers.   *)
(*                                                                         *)
(* Time is counted in ticks, and a backoff entry holds the ticks left      *)
(* until nextDial.  failCount saturates where one more failure makes no    *)
(* difference to the delay.  libp2p (external) shares one dial between all *)
(* goroutines that connect to the same peer: its outcome reaches all of    *)
(* them, but each one gives up on its own after dialTimeout.               *)
(***************************************************************************)
EXTENDS Integers, FiniteSets

CONSTANTS
  Peer,                \* the peers that may be found for this instance
  Goroutine,           \* dial goroutines; in crawl mode a bound on them
  None,                \* not a peer
  MaxPeers,            \* pm.maxPeers, 0 for no cap (crawl mode)
  Slack,               \* the 20 of tooManyInFlight
  MaxConcurrentDials,  \* capacity of sem
  PullBatch,           \* pullBatch
  InitialBackoff,      \* initialBackoff, in ticks
  MaxBackoff,          \* maxBackoff, in ticks
  ShiftCap             \* the 10 that bounds the exponent of the backoff

ASSUME PeerManagerAssumption ==
  /\ {MaxPeers, Slack, ShiftCap} \subseteq Nat
  /\ {MaxConcurrentDials, PullBatch, InitialBackoff, MaxBackoff} \subseteq Nat \ {0}
  /\ None \notin Peer
  \* A peer ID has a bounded length, and a process has so many goroutines.
  /\ IsFiniteSet(Peer) /\ IsFiniteSet(Goroutine)
  \* initialBackoff << 10 is eight hours: no shift overflows a time.Duration.
  /\ \A n \in 0 .. ShiftCap : InitialBackoff * 2 ^ n \in Nat \ {0}

VARIABLES
  pc,         \* where Run is
  seenPeers,  \* tooManyInFlight: len(Peers()), read before inFlight
  batch,      \* what is left of the peers GetPeers returned
  sem,        \* how many tokens are in the channel sem
  inFlight,   \* the atomic counter inFlight
  task,       \* goroutine -> the peer it handles and how far it is
  backoff,    \* peer -> failCount and ticks left (0 failures: no entry)
  found,      \* the peers PeerFinder has for this instance
  connected,  \* the peers the host is connected to
  outbound,   \* those of them that a dial of this peer manager connected
  cancelled,  \* ctx is done
  closed      \* main's clean-up has closed the host

runVars == <<pc, seenPeers, batch>>
dialVars == <<sem, inFlight, task>>
envVars == <<found, connected, outbound, cancelled, closed>>
vars == <<runVars, dialVars, backoff, envVars>>

RunPC == {"outer", "outerLoad", "capWait", "pull", "pullWait",
          "inner", "innerLoad", "acquire", "done"}

\* The stages of handleCandidate, and of the deferred function after it.
Stage == {"idle", "candidate", "checkBackoff", "checkCap", "connect", "dial",
          "failed", "ok", "release", "decrement"}

FailCap == ShiftCap + 1

\* Every variable has a value the Go types and the channel's capacity allow.
TypeOK ==
  /\ pc \in RunPC
  /\ seenPeers \in 0 .. Cardinality(Peer)
  /\ batch \in SUBSET Peer
  /\ sem \in 0 .. MaxConcurrentDials
  /\ inFlight \in 0 .. Cardinality(Goroutine)
  /\ task \in [Goroutine -> [stage : Stage, peer : Peer \cup {None}]]
  /\ backoff \in [Peer -> [failCount : 0 .. FailCap, left : 0 .. MaxBackoff]]
  /\ found \in SUBSET Peer
  /\ connected \in SUBSET Peer
  /\ outbound \in SUBSET connected
  /\ cancelled \in BOOLEAN
  /\ closed \in BOOLEAN

NoEntry == [failCount |-> 0, left |-> 0]
NoTask == [stage |-> "idle", peer |-> None]

Init ==
  /\ pc = "outer"
  /\ seenPeers = 0
  /\ batch = {}
  /\ sem = 0
  /\ inFlight = 0
  /\ task = [g \in Goroutine |-> NoTask]
  /\ backoff = [p \in Peer |-> NoEntry]
  /\ found = {}
  /\ connected = {}
  /\ outbound = {}
  /\ cancelled = FALSE
  /\ closed = FALSE

-----------------------------------------------------------------------------
(* Backoff.                                                                *)

Lesser(a, b) == IF a < b THEN a ELSE b

\* Mutant: an entry blocks its peer until a dial succeeds, not until nextDial.
HasEntry(p) == backoff[p].failCount > 0

inBackoff(p) == backoff[p].left > 0

recordFailure(p) ==
  LET failCount == backoff[p].failCount + 1
      delay == Lesser(InitialBackoff * 2 ^ Lesser(failCount - 1, ShiftCap), MaxBackoff)
  IN  backoff' = [backoff EXCEPT ![p] = [failCount |-> Lesser(failCount, FailCap),
                                         left |-> delay]]

clearBackoff(p) == backoff' = [backoff EXCEPT ![p] = NoEntry]

-----------------------------------------------------------------------------
(* Run.                                                                    *)

shouldSkip(p) == p \in connected \/ inBackoff(p)

\* tooManyInFlight reads the number of peers first ...
ReadPeers ==
  /\ \/ pc = "outer" /\ pc' = "outerLoad"
     \/ pc = "inner" /\ batch # {} /\ pc' = "innerLoad"
  /\ seenPeers' = Cardinality(connected)
  /\ UNCHANGED <<batch, dialVars, backoff, envVars>>

\* Mutant: one too many is let through.
OneTooManyInFlight == MaxPeers > 0 /\ seenPeers + inFlight > MaxPeers + Slack

\* ... and then loads inFlight.
TooManyInFlight == MaxPeers > 0 /\ seenPeers + inFlight >= MaxPeers + Slack

OuterCheck ==
  /\ pc = "outerLoad"
  /\ pc' = IF TooManyInFlight THEN "capWait" ELSE "pull"
  /\ UNCHANGED <<seenPeers, batch, dialVars, backoff, envVars>>

InnerCheck ==
  /\ pc = "innerLoad"
  /\ IF TooManyInFlight THEN pc' = "outer" /\ batch' = {}
                        ELSE pc' = "acquire" /\ UNCHANGED batch
  /\ UNCHANGED <<seenPeers, dialVars, backoff, envVars>>

\* GetPeers: up to PullBatch of the peers not to be skipped, chosen at random.
Pull(chosen) ==
  LET eligible == {p \in found : ~shouldSkip(p)} IN
  /\ pc = "pull"
  /\ chosen \subseteq eligible
  /\ Cardinality(chosen) = Lesser(PullBatch, Cardinality(eligible))
  /\ batch' = chosen
  /\ pc' = IF chosen = {} THEN "pullWait" ELSE "inner"
  /\ UNCHANGED <<seenPeers, dialVars, backoff, envVars>>

\* time.After fires (peerCheckInterval at the cap, pullInterval with nobody
\* to dial), or the batch is used up.
StartOver ==
  /\ pc \in {"capWait", "pullWait"} \/ (pc = "inner" /\ batch = {})
  /\ pc' = "outer"
  /\ UNCHANGED <<seenPeers, batch, dialVars, backoff, envVars>>

\* A token for sem, inFlight.Add(1) and the go statement.
Spawn(g, p) ==
  /\ pc = "acquire"
  /\ p \in batch
  /\ task[g] = NoTask
  /\ sem < MaxConcurrentDials
  /\ sem' = sem + 1
  /\ inFlight' = inFlight + 1
  /\ task' = [task EXCEPT ![g] = [stage |-> "candidate", peer |-> p]]
  /\ batch' = batch \ {p}
  /\ pc' = "inner"
  /\ UNCHANGED <<seenPeers, backoff, envVars>>

\* Mutant: the wait for peers is a plain sleep, without a ctx.Done case.
SelectsOnDoneButOne == {"capWait", "acquire"}

\* The three selects that have a ctx.Done case.
SelectsOnDone == {"capWait", "pullWait", "acquire"}

Return ==
  /\ cancelled
  /\ pc \in SelectsOnDone
  /\ pc' = "done"
  /\ UNCHANGED <<seenPeers, batch, dialVars, backoff, envVars>>

-----------------------------------------------------------------------------
(* handleCandidate, in goroutine g.                                        *)

At(g, stage) == task[g].stage = stage

Goto(g, stage) == task' = [task EXCEPT ![g].stage = stage]

\* Mutant: handleCandidate relies on Run to keep the cap.
NeverAtCap == FALSE

AtCap == MaxPeers > 0 /\ Cardinality(connected) >= MaxPeers

\* The three early returns of handleCandidate, one after the other.
Check(g) ==
  /\ \/ At(g, "candidate") /\ Goto(g, IF task[g].peer \in connected THEN "release" ELSE "checkBackoff")
     \/ At(g, "checkBackoff") /\ Goto(g, IF inBackoff(task[g].peer) THEN "release" ELSE "checkCap")
     \/ At(g, "checkCap") /\ Goto(g, IF AtCap THEN "release" ELSE "connect")
  /\ UNCHANGED <<runVars, sem, inFlight, backoff, envVars>>

\* Connect: done if connected, fails on a dead context, else joins the dial.
Connect(g) ==
  /\ At(g, "connect")
  /\ Goto(g, IF task[g].peer \in connected THEN "ok"
             ELSE IF cancelled THEN "failed" ELSE "dial")
  /\ UNCHANGED <<runVars, sem, inFlight, backoff, envVars>>

Waiting(p) == {g \in Goroutine : At(g, "dial") /\ task[g].peer = p}

\* The outcome of a dial reaches everyone who waits for it.
Notify(p, stage) ==
  task' = [g \in Goroutine |-> IF g \in Waiting(p) THEN [task[g] EXCEPT !.stage = stage]
                               ELSE task[g]]

DialSucceeds(p) ==
  /\ ~closed
  /\ Waiting(p) # {}
  /\ Notify(p, "ok")
  /\ connected' = connected \cup {p}
  /\ outbound' = outbound \cup {p}
  /\ UNCHANGED <<runVars, sem, inFlight, backoff, found, cancelled, closed>>

DialFails(p) ==
  /\ Waiting(p) # {}
  /\ Notify(p, "failed")
  /\ UNCHANGED <<runVars, sem, inFlight, backoff, envVars>>

\* dialTimeout, or cancellation, ends one goroutine's wait.
GiveUp(g) ==
  /\ At(g, "dial")
  /\ Goto(g, "failed")
  /\ UNCHANGED <<runVars, sem, inFlight, backoff, envVars>>

\* The two branches on the result of Connect.
Finish(g) ==
  /\ \/ At(g, "failed") /\ recordFailure(task[g].peer)
     \/ At(g, "ok") /\ clearBackoff(task[g].peer)
  /\ Goto(g, "release")
  /\ UNCHANGED <<runVars, sem, inFlight, envVars>>

\* Mutant: the counter goes down with the token, and once more after it.
ReleaseTwice(g) ==
  /\ At(g, "release")
  /\ sem' = sem - 1
  /\ inFlight' = inFlight - 1
  /\ Goto(g, "decrement")
  /\ UNCHANGED <<runVars, backoff, envVars>>

\* The deferred function: first the token, then the counter.
Release(g) ==
  /\ At(g, "release")
  /\ sem' = sem - 1
  /\ Goto(g, "decrement")
  /\ UNCHANGED <<runVars, inFlight, backoff, envVars>>

Decrement(g) ==
  /\ At(g, "decrement")
  /\ inFlight' = inFlight - 1
  /\ task' = [task EXCEPT ![g] = NoTask]
  /\ UNCHANGED <<runVars, sem, backoff, envVars>>

-----------------------------------------------------------------------------
(* The rest of the process and the world.                                  *)

Tick ==
  /\ \E p \in Peer : inBackoff(p)
  /\ backoff' = [p \in Peer |-> [backoff[p] EXCEPT !.left = IF @ > 0 THEN @ - 1 ELSE 0]]
  /\ UNCHANGED <<runVars, dialVars, envVars>>

\* AddPeer stores a peer for this instance.
Find(p) ==
  /\ p \notin found
  /\ found' = found \cup {p}
  /\ UNCHANGED <<runVars, dialVars, backoff, connected, outbound, cancelled, closed>>

InboundConnection(p) ==
  /\ ~closed
  /\ p \notin connected
  /\ connected' = connected \cup {p}
  /\ UNCHANGED <<runVars, dialVars, backoff, found, outbound, cancelled, closed>>

Disconnect(p) ==
  /\ p \in connected
  /\ connected' = connected \ {p}
  /\ outbound' = outbound \ {p}
  /\ UNCHANGED <<runVars, dialVars, backoff, found, cancelled, closed>>

Cancel ==
  /\ ~cancelled
  /\ cancelled' = TRUE
  /\ UNCHANGED <<runVars, dialVars, backoff, found, connected, outbound, closed>>

\* main calls cancel and then the clean-up function, which closes the host.
CloseHost ==
  /\ cancelled
  /\ ~closed
  /\ closed' = TRUE
  /\ connected' = {}
  /\ outbound' = {}
  /\ UNCHANGED <<runVars, dialVars, backoff, found, cancelled>>

-----------------------------------------------------------------------------

RunStep ==
  \/ ReadPeers \/ OuterCheck \/ InnerCheck \/ StartOver
  \/ \E chosen \in SUBSET Peer : Pull(chosen)
  \/ \E g \in Goroutine, p \in Peer : Spawn(g, p)

TaskStep(g) ==
  Check(g) \/ Connect(g) \/ Finish(g) \/ Release(g) \/ Decrement(g)

Environment ==
  \/ Tick
  \/ Cancel
  \/ CloseHost
  \/ \E p \in Peer : Find(p) \/ InboundConnection(p) \/ Disconnect(p)

Next ==
  \/ RunStep
  \/ Return
  \/ \E g \in Goroutine : TaskStep(g) \/ GiveUp(g)
  \/ \E p \in Peer : DialSucceeds(p) \/ DialFails(p)
  \/ Environment

Spec == Init /\ [][Next]_vars

(***************************************************************************)
(* The Go scheduler runs every goroutine and the clock runs; a dial ends   *)
(* within dialTimeout; a select with two ready cases picks one at random,  *)
(* so ctx.Done is taken if it is ready again and again; and GetPeers       *)
(* shuffles, so a peer that is eligible again and again is pulled.         *)
(***************************************************************************)
Fairness ==
  /\ WF_vars(RunStep)
  /\ SF_vars(Return)
  /\ WF_vars(Tick)
  /\ WF_vars(CloseHost)
  /\ \A g \in Goroutine : WF_vars(TaskStep(g)) /\ WF_vars(GiveUp(g))
  /\ \A p \in Peer : SF_vars(\E chosen \in SUBSET Peer : p \in chosen /\ Pull(chosen))

FairSpec == Spec /\ Fairness

-----------------------------------------------------------------------------

Running == {g \in Goroutine : task[g] # NoTask}

(***************************************************************************)
(* peermanager.go, Run: the counter and the semaphore agree with the       *)
(* goroutines that exist, on every path through handleCandidate; a token   *)
(* or a count lost on one of them would stop the loop for good.            *)
(***************************************************************************)
Accounted ==
  /\ inFlight = Cardinality(Running)
  /\ sem = Cardinality({g \in Running : ~At(g, "decrement")})

(***************************************************************************)
(* peermanager.go, tooManyInFlight: with a cap, no more than maxPeers+20   *)
(* goroutines are ever in flight, though the check reads the number of     *)
(* peers and the counter at different times.                               *)
(***************************************************************************)
InFlightBounded == MaxPeers > 0 => inFlight <= MaxPeers + Slack

Dialling == {g \in Goroutine : task[g].stage \in {"connect", "dial"}}

(***************************************************************************)
(* peermanager.go, handleCandidate and tooManyInFlight: goroutines that    *)
(* pass the cap check together can overshoot the cap, but the peers they   *)
(* have dialled and are dialling never exceed what was in flight when the  *)
(* last of them saw room.                                                  *)
(***************************************************************************)
OvershootBounded ==
  MaxPeers > 0 =>
    Cardinality(outbound) + Cardinality(Dialling) <= (MaxPeers - 1) + (MaxPeers + Slack)

(***************************************************************************)
(* peermanager.go, Run: "dials them until ctx is cancelled".  After that   *)
(* the loop returns and every goroutine it spawned ends.                   *)
(***************************************************************************)
StopsOnCancel == cancelled ~> [](pc = "done" /\ Running = {})

(***************************************************************************)
(* peerfinder.go, GetPeers with peermanager.go, inBackoff: a peer that was *)
(* found is dialled again and again until it is connected, however often   *)
(* it fails and whoever else is eligible, unless the peer cap is reached   *)
(* first (in crawl mode there is none).                                    *)
(***************************************************************************)
KeepsDialling ==
  \A p \in Peer :
    p \in found ~> (p \in connected \/ Waiting(p) # {} \/ AtCap \/ cancelled)
=============================================================================
