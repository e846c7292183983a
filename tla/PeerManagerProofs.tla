------------------------- MODULE PeerManagerProofs -------------------------
(***************************************************************************)
(* Proofs about the peer manager, for any number of peers and goroutines   *)
(* and any values of its limits.                                           *)
(*                                                                         *)
(* The argument: the counter and the semaphore count goroutines            *)
(* (Accounted), so the limit on the counter is one on the goroutines; and  *)
(* a goroutine starts to dial only while the outbound peers are below the  *)
(* cap, so the last one to start bounds the sum.                           *)
(***************************************************************************)
EXTENDS PeerManager, FiniteSetTheorems, TLAPS

\* The goroutines that still hold a token of sem.
Holding == {g \in Running : ~At(g, "decrement")}

CountInv == TypeOK /\ Accounted

-----------------------------------------------------------------------------
(* The sets of goroutines.                                                 *)

\* Every set of goroutines has a size.
LEMMA CountGoroutines ==
  ASSUME NEW S \in SUBSET Goroutine
  PROVE  /\ IsFiniteSet(S) /\ Cardinality(S) \in Nat
         /\ Cardinality(S) <= Cardinality(Goroutine) /\ Cardinality(Goroutine) \in Nat
BY FS_Subset, FS_CardinalityType, PeerManagerAssumption

\* So has every set of peers.
LEMMA CountPeers ==
  ASSUME NEW S \in SUBSET Peer
  PROVE  /\ IsFiniteSet(S) /\ Cardinality(S) \in Nat
         /\ Cardinality(S) <= Cardinality(Peer) /\ Cardinality(Peer) \in Nat
BY FS_Subset, FS_CardinalityType, PeerManagerAssumption

\* handleCandidate moves on: the same goroutines run and hold tokens.
LEMMA GotoKeeps ==
  ASSUME TypeOK, NEW g \in Goroutine, NEW stage \in Stage \ {"idle", "decrement"},
         task[g].stage \notin {"idle", "decrement"}, Goto(g, stage)
  PROVE  /\ task' \in [Goroutine -> [stage : Stage, peer : Peer \cup {None}]]
         /\ Running' = Running /\ Holding' = Holding
<1>1. task' \in [Goroutine -> [stage : Stage, peer : Peer \cup {None}]]
  BY DEF TypeOK, Goto
<1>2. /\ task'[g].stage = stage
      /\ \A h \in Goroutine \ {g} : task'[h] = task[h]
  BY DEF TypeOK, Goto
<1>3. task[g] # NoTask /\ task'[g] # NoTask
  BY <1>2 DEF NoTask
<1> QED BY <1>1, <1>2, <1>3 DEF Running, Holding, At

\* So does the outcome of a dial.
LEMMA NotifyKeeps ==
  ASSUME TypeOK, NEW p \in Peer, NEW stage \in {"ok", "failed"}, Notify(p, stage)
  PROVE  /\ task' \in [Goroutine -> [stage : Stage, peer : Peer \cup {None}]]
         /\ Running' = Running /\ Holding' = Holding
         /\ Dialling' = Dialling \ Waiting(p)
<1>1. task' \in [Goroutine -> [stage : Stage, peer : Peer \cup {None}]]
  BY DEF TypeOK, Notify, Stage
<1>2. \A h \in Goroutine : IF h \in Waiting(p) THEN task'[h].stage = stage ELSE task'[h] = task[h]
  BY DEF TypeOK, Notify
<1>3. \A h \in Waiting(p) : h \in Goroutine /\ task[h].stage = "dial"
  BY DEF Waiting, At
<1>4. \A h \in Waiting(p) : task[h] # NoTask /\ task'[h] # NoTask
  BY <1>2, <1>3 DEF NoTask
<1>5. Running' = Running
  BY <1>2, <1>3, <1>4 DEF Running
<1> QED BY <1>1, <1>2, <1>3, <1>5 DEF Running, Holding, Dialling, At

-----------------------------------------------------------------------------
(* Types and the count of goroutines.                                      *)

\* recordFailure's delay is a time between nothing and maxBackoff.
LEMMA RecordType ==
  ASSUME TypeOK, NEW p, recordFailure(p)
  PROVE  backoff' \in [Peer -> [failCount : 0 .. FailCap, left : 0 .. MaxBackoff]]
<1> DEFINE count == backoff[p].failCount + 1
           shift == Lesser(count - 1, ShiftCap)
           delay == Lesser(InitialBackoff * 2 ^ shift, MaxBackoff)
<1>1. CASE p \notin Peer
  BY <1>1 DEF recordFailure, TypeOK
<1>2. CASE p \in Peer
  <2>1. count \in Nat \ {0}
    BY <1>2, PeerManagerAssumption DEF TypeOK, FailCap
  <2> HIDE DEF count
  <2>2. shift \in 0 .. ShiftCap
    BY <2>1, PeerManagerAssumption DEF Lesser
  <2> HIDE DEF shift
  <2>3. InitialBackoff * 2 ^ shift \in Nat
    BY <2>2, PeerManagerAssumption
  <2>4. delay \in 0 .. MaxBackoff
    BY <2>3, PeerManagerAssumption DEF Lesser
  <2>5. Lesser(count, FailCap) \in 0 .. FailCap
    BY <2>1, PeerManagerAssumption DEF Lesser, FailCap
  <2>6. backoff' = [backoff EXCEPT ![p] = [failCount |-> Lesser(count, FailCap), left |-> delay]]
    BY DEF recordFailure, count, shift
  <2> HIDE DEF delay
  <2> QED BY <1>2, <2>4, <2>5, <2>6 DEF TypeOK
<1> QED BY <1>1, <1>2

\* Run starts with no goroutine.
LEMMA InitCount == Init => CountInv
<1> SUFFICES ASSUME Init PROVE CountInv
  OBVIOUS
<1>1. Running = {} /\ Holding = {}
  BY DEF Init, Running, Holding
<1>2. Accounted
  BY <1>1, FS_EmptySet DEF Accounted, Holding, Init
<1>3. Cardinality(Peer) \in Nat /\ Cardinality(Goroutine) \in Nat
  BY FS_CardinalityType, PeerManagerAssumption
<1>4. backoff \in [Peer -> [failCount : 0 .. FailCap, left : 0 .. MaxBackoff]]
  BY PeerManagerAssumption DEF Init, NoEntry, FailCap
<1>5. task \in [Goroutine -> [stage : Stage, peer : Peer \cup {None}]]
  BY DEF Init, NoTask, Stage
<1>6. pc \in RunPC /\ seenPeers \in 0 .. Cardinality(Peer) /\ inFlight \in 0 .. Cardinality(Goroutine)
      /\ sem \in 0 .. MaxConcurrentDials
  BY <1>3, PeerManagerAssumption DEF Init, RunPC
<1> QED BY <1>2, <1>4, <1>5, <1>6, Zenon DEF CountInv, TypeOK, Init

\* What is left to show when no goroutine starts or ends.
LEMMA SameGoroutines ==
  ASSUME CountInv, Running' = Running, Holding' = Holding, UNCHANGED <<sem, inFlight>>
  PROVE  Accounted'
BY DEF CountInv, Accounted, Holding

\* Every step keeps the types and the count.
LEMMA StepCount == CountInv /\ [Next]_vars => CountInv'
<1> SUFFICES ASSUME CountInv, [Next]_vars PROVE CountInv'
  OBVIOUS
<1> USE DEF CountInv, runVars, dialVars, envVars
<1>sets. /\ Running \in SUBSET Goroutine /\ Holding \in SUBSET Goroutine
         /\ Running' \in SUBSET Goroutine /\ Holding' \in SUBSET Goroutine
  BY DEF Running, Holding
<1>sizes. /\ IsFiniteSet(Running) /\ IsFiniteSet(Holding)
          /\ Cardinality(Running') \in 0 .. Cardinality(Goroutine)
          /\ Cardinality(Holding') \in Nat /\ Cardinality(Goroutine) \in Nat
          /\ inFlight = Cardinality(Running) /\ sem = Cardinality(Holding)
  BY <1>sets, CountGoroutines DEF Accounted, Holding
<1>acc. Accounted' <=> inFlight' = Cardinality(Running') /\ sem' = Cardinality(Holding')
  BY DEF Accounted, Holding
<1>same. ASSUME task' = task PROVE Running' = Running /\ Holding' = Holding
  BY <1>same DEF Running, Holding, At
<1>1. CASE UNCHANGED vars
  BY <1>1, <1>same, SameGoroutines DEF vars, TypeOK
<1>2. CASE ReadPeers
  <2>1. connected \in SUBSET Peer
    BY DEF TypeOK
  <2>2. Cardinality(connected) \in 0 .. Cardinality(Peer)
    BY <2>1, CountPeers
  <2>3. TypeOK'
    BY <1>2, <2>2 DEF ReadPeers, TypeOK, RunPC
  <2> QED BY <1>2, <2>3, <1>same, SameGoroutines DEF ReadPeers
<1>3. CASE OuterCheck \/ StartOver \/ Return
  <2>1. TypeOK'
    BY <1>3 DEF OuterCheck, StartOver, Return, TypeOK, RunPC
  <2> QED BY <1>3, <2>1, <1>same, SameGoroutines DEF OuterCheck, StartOver, Return
<1>4. CASE InnerCheck
  <2>1. TypeOK'
    BY <1>4 DEF InnerCheck, TypeOK, RunPC
  <2> QED BY <1>4, <2>1, <1>same, SameGoroutines DEF InnerCheck
<1>5. ASSUME NEW chosen \in SUBSET Peer, Pull(chosen) PROVE CountInv'
  <2>1. TypeOK'
    BY <1>5 DEF Pull, TypeOK, RunPC
  <2> QED BY <1>5, <2>1, <1>same, SameGoroutines DEF Pull
<1>6. ASSUME NEW g \in Goroutine, NEW p \in Peer, Spawn(g, p) PROVE CountInv'
  <2>1. /\ task' \in [Goroutine -> [stage : Stage, peer : Peer \cup {None}]]
        /\ task'[g].stage = "candidate" /\ \A h \in Goroutine \ {g} : task'[h] = task[h]
    BY <1>6 DEF Spawn, TypeOK, Stage
  <2>2. task[g] = NoTask /\ task'[g] # NoTask
    BY <1>6, <2>1 DEF Spawn, NoTask
  <2>3. g \notin Running /\ Running' = Running \cup {g}
    BY <2>1, <2>2 DEF Running
  <2>4. g \notin Holding /\ Holding' = Holding \cup {g}
    BY <2>1, <2>3, <1>sets DEF Holding, At
  <2>5. Cardinality(Running') = inFlight + 1 /\ Cardinality(Holding') = sem + 1
    BY <2>3, <2>4, <1>sizes, FS_AddElement
  <2>6. inFlight' = Cardinality(Running') /\ sem' = Cardinality(Holding')
    BY <1>6, <2>5 DEF Spawn
  <2>7. sem' \in 0 .. MaxConcurrentDials
    BY <1>6, PeerManagerAssumption DEF Spawn, TypeOK
  <2>8. TypeOK'
    BY <1>6, <2>1, <2>6, <2>7, <1>sizes DEF Spawn, TypeOK, RunPC
  <2> QED BY <2>6, <2>8, <1>acc
<1>7. ASSUME NEW g \in Goroutine, Check(g) \/ Connect(g) \/ GiveUp(g) PROVE CountInv'
  <2>1. PICK stage \in {"release", "checkBackoff", "checkCap", "connect", "ok", "failed", "dial"} : Goto(g, stage)
    BY <1>7 DEF Check, Connect, GiveUp
  <2>2. task[g].stage \notin {"idle", "decrement"} /\ stage \in Stage \ {"idle", "decrement"}
    BY <1>7 DEF Check, Connect, GiveUp, At, Stage
  <2>3. /\ task' \in [Goroutine -> [stage : Stage, peer : Peer \cup {None}]]
        /\ Running' = Running /\ Holding' = Holding
    BY <2>1, <2>2, GotoKeeps
  <2>4. UNCHANGED <<runVars, sem, inFlight, backoff, envVars>>
    BY <1>7 DEF Check, Connect, GiveUp
  <2>5. TypeOK'
    BY <2>3, <2>4 DEF TypeOK
  <2> QED BY <2>3, <2>4, <2>5, SameGoroutines
<1>8. ASSUME NEW g \in Goroutine, Finish(g) PROVE CountInv'
  <2>1. task[g].stage \in {"failed", "ok"} /\ Goto(g, "release")
    BY <1>8 DEF Finish, At
  <2>2. /\ task' \in [Goroutine -> [stage : Stage, peer : Peer \cup {None}]]
        /\ Running' = Running /\ Holding' = Holding
    BY <2>1, GotoKeeps DEF Stage
  <2>3. backoff' \in [Peer -> [failCount : 0 .. FailCap, left : 0 .. MaxBackoff]]
    <3>1. CASE recordFailure(task[g].peer)
      BY <3>1, RecordType
    <3>2. CASE clearBackoff(task[g].peer)
      <4>1. NoEntry \in [failCount : 0 .. FailCap, left : 0 .. MaxBackoff]
        BY PeerManagerAssumption DEF NoEntry, FailCap
      <4> QED BY <3>2, <4>1 DEF clearBackoff, TypeOK
    <3> QED BY <1>8, <3>1, <3>2 DEF Finish
  <2>4. UNCHANGED <<runVars, sem, inFlight, envVars>>
    BY <1>8 DEF Finish
  <2>5. TypeOK'
    BY <2>2, <2>3, <2>4 DEF TypeOK
  <2> QED BY <2>2, <2>4, <2>5, SameGoroutines
<1>9. ASSUME NEW g \in Goroutine, Release(g) PROVE CountInv'
  <2>1. /\ task' \in [Goroutine -> [stage : Stage, peer : Peer \cup {None}]]
        /\ task[g].stage = "release" /\ task'[g].stage = "decrement"
        /\ \A h \in Goroutine \ {g} : task'[h] = task[h]
    BY <1>9 DEF Release, Goto, At, TypeOK, Stage
  <2>2. task[g] # NoTask /\ task'[g] # NoTask
    BY <2>1 DEF NoTask
  <2>3. Running' = Running /\ g \in Running
    BY <2>1, <2>2 DEF Running
  <2>4. g \in Holding /\ Holding' = Holding \ {g}
    BY <2>1, <2>3, <1>sets DEF Holding, At
  <2>5. Cardinality(Holding') = sem - 1
    BY <2>4, <1>sizes, FS_RemoveElement
  <2>6. inFlight' = Cardinality(Running') /\ sem' = Cardinality(Holding')
    BY <1>9, <2>3, <2>5, <1>sizes DEF Release
  <2>7. sem' \in 0 .. MaxConcurrentDials
    BY <1>9, <2>6, <1>sizes, PeerManagerAssumption DEF Release, TypeOK
  <2>8. TypeOK'
    BY <1>9, <2>1, <2>6, <2>7, <1>sizes DEF Release, TypeOK
  <2> QED BY <2>6, <2>8, <1>acc
<1>10. ASSUME NEW g \in Goroutine, Decrement(g) PROVE CountInv'
  <2>1. /\ task' \in [Goroutine -> [stage : Stage, peer : Peer \cup {None}]]
        /\ task[g].stage = "decrement" /\ task'[g] = NoTask
        /\ \A h \in Goroutine \ {g} : task'[h] = task[h]
    BY <1>10 DEF Decrement, At, TypeOK, Stage, NoTask
  <2>2. task[g] # NoTask
    BY <2>1 DEF NoTask
  <2>3. g \in Running /\ Running' = Running \ {g}
    BY <2>1, <2>2 DEF Running
  <2>4. Holding' = Holding
    BY <2>1, <2>3, <1>sets DEF Holding, At
  <2>5. Cardinality(Running') = inFlight - 1
    BY <2>3, <1>sizes, FS_RemoveElement
  <2>6. inFlight' = Cardinality(Running') /\ sem' = Cardinality(Holding')
    BY <1>10, <2>4, <2>5, <1>sizes DEF Decrement
  <2>7. TypeOK'
    BY <1>10, <2>1, <2>6, <1>sizes DEF Decrement, TypeOK
  <2> QED BY <2>6, <2>7, <1>acc
<1>11. ASSUME NEW p \in Peer, DialSucceeds(p) PROVE CountInv'
  <2>1. /\ task' \in [Goroutine -> [stage : Stage, peer : Peer \cup {None}]]
        /\ Running' = Running /\ Holding' = Holding
    BY <1>11, NotifyKeeps DEF DialSucceeds
  <2>2. TypeOK'
    BY <1>11, <2>1 DEF DialSucceeds, TypeOK
  <2> QED BY <1>11, <2>1, <2>2, SameGoroutines DEF DialSucceeds
<1>12. ASSUME NEW p \in Peer, DialFails(p) PROVE CountInv'
  <2>1. /\ task' \in [Goroutine -> [stage : Stage, peer : Peer \cup {None}]]
        /\ Running' = Running /\ Holding' = Holding
    BY <1>12, NotifyKeeps DEF DialFails
  <2>2. TypeOK'
    BY <1>12, <2>1 DEF DialFails, TypeOK
  <2> QED BY <1>12, <2>1, <2>2, SameGoroutines DEF DialFails
<1>13. CASE Tick
  <2>1. TypeOK'
    BY <1>13, PeerManagerAssumption DEF Tick, TypeOK
  <2> QED BY <1>13, <2>1, <1>same, SameGoroutines DEF Tick
<1>14. CASE Cancel \/ CloseHost
  <2>1. TypeOK'
    BY <1>14 DEF Cancel, CloseHost, TypeOK
  <2> QED BY <1>14, <2>1, <1>same, SameGoroutines DEF Cancel, CloseHost
<1>15. ASSUME NEW p \in Peer, Find(p) \/ InboundConnection(p) \/ Disconnect(p) PROVE CountInv'
  <2>1. TypeOK'
    BY <1>15 DEF Find, InboundConnection, Disconnect, TypeOK
  <2> QED BY <1>15, <2>1, <1>same, SameGoroutines DEF Find, InboundConnection, Disconnect
<1> QED BY <1>1, <1>2, <1>3, <1>4, <1>5, <1>6, <1>7, <1>8, <1>9, <1>10, <1>11, <1>12,
          <1>13, <1>14, <1>15 DEF Next, RunStep, TaskStep, Environment

\* peermanager.go: every variable keeps its type, sem and inFlight stay
\* within the channel's capacity and the number of goroutines, and a backoff
\* never exceeds maxBackoff.
THEOREM TypeCorrect == Spec => []TypeOK
<1>1. CountInv => TypeOK
  BY DEF CountInv
<1> QED BY <1>1, InitCount, StepCount, PTL DEF Spec

\* peermanager.go, Run: inFlight and sem count the goroutines and the ones
\* that hold a token, whatever path through handleCandidate each one takes.
THEOREM AccountedHolds == Spec => []Accounted
<1>1. CountInv => Accounted
  BY DEF CountInv
<1> QED BY <1>1, InitCount, StepCount, PTL DEF Spec

-----------------------------------------------------------------------------
(* The limit on what is in flight.                                         *)

\* Run is between a tooManyInFlight that said no and the go statement.
\* seenPeers may be stale by then; inFlight can only have gone down.
RoomSeen == (pc = "acquire" /\ MaxPeers > 0) => seenPeers + inFlight < MaxPeers + Slack

FlightInv == CountInv /\ RoomSeen /\ InFlightBounded

LEMMA InitFlight == Init => FlightInv
<1> SUFFICES ASSUME Init PROVE FlightInv
  OBVIOUS
<1>1. pc = "outer" /\ inFlight = 0
  BY DEF Init
<1>2. RoomSeen /\ InFlightBounded
  BY <1>1, PeerManagerAssumption DEF RoomSeen, InFlightBounded
<1> QED BY <1>2, InitCount DEF FlightInv

LEMMA StepFlight == FlightInv /\ [Next]_vars => FlightInv'
<1> SUFFICES ASSUME FlightInv, [Next]_vars PROVE FlightInv'
  OBVIOUS
<1> USE DEF RoomSeen, InFlightBounded, runVars, dialVars, envVars
<1>inv. CountInv /\ CountInv' /\ RoomSeen /\ InFlightBounded
  BY StepCount DEF FlightInv
<1>t. /\ inFlight \in Nat /\ inFlight' \in Nat /\ seenPeers \in Nat /\ seenPeers' \in Nat
      /\ MaxPeers \in Nat /\ Slack \in Nat
  <2>1. Cardinality(Peer) \in Nat /\ Cardinality(Goroutine) \in Nat
    BY FS_CardinalityType, PeerManagerAssumption
  <2> QED BY <1>inv, <2>1, PeerManagerAssumption DEF CountInv, TypeOK
<1>goal. SUFFICES RoomSeen' /\ InFlightBounded'
  BY <1>inv DEF FlightInv
<1>1. CASE UNCHANGED <<pc, seenPeers, inFlight>>
  BY <1>1, <1>inv
<1>2. CASE ReadPeers \/ OuterCheck \/ StartOver \/ Return \/ \E chosen \in SUBSET Peer : Pull(chosen)
  <2>1. pc' # "acquire" /\ inFlight' = inFlight
    BY <1>2 DEF ReadPeers, OuterCheck, StartOver, Return, Pull
  <2> QED BY <2>1, <1>inv
<1>3. CASE InnerCheck
  <2>1. inFlight' = inFlight /\ seenPeers' = seenPeers /\ (pc' = "acquire" => ~TooManyInFlight)
    BY <1>3 DEF InnerCheck
  <2> QED BY <2>1, <1>inv, <1>t DEF TooManyInFlight
<1>4. CASE \E g \in Goroutine, p \in Peer : Spawn(g, p)
  <2>1. pc = "acquire" /\ pc' = "inner" /\ inFlight' = inFlight + 1
    BY <1>4 DEF Spawn
  <2> QED BY <2>1, <1>inv, <1>t
<1>5. CASE \E g \in Goroutine : Decrement(g)
  <2>1. inFlight' = inFlight - 1 /\ UNCHANGED <<pc, seenPeers>>
    BY <1>5 DEF Decrement
  <2> QED BY <2>1, <1>inv, <1>t
<1>6. ASSUME NEW g \in Goroutine, Check(g) \/ Connect(g) \/ Finish(g) \/ Release(g) \/ GiveUp(g)
      PROVE  UNCHANGED <<pc, seenPeers, inFlight>>
  BY <1>6 DEF Check, Connect, Finish, Release, GiveUp
<1>7. ASSUME NEW p \in Peer,
             DialSucceeds(p) \/ DialFails(p) \/ Find(p) \/ InboundConnection(p) \/ Disconnect(p)
      PROVE  UNCHANGED <<pc, seenPeers, inFlight>>
  BY <1>7 DEF DialSucceeds, DialFails, Find, InboundConnection, Disconnect
<1>8. ASSUME Tick \/ Cancel \/ CloseHost \/ UNCHANGED vars
      PROVE  UNCHANGED <<pc, seenPeers, inFlight>>
  BY <1>8 DEF Tick, Cancel, CloseHost, vars
<1> QED BY <1>1, <1>2, <1>3, <1>4, <1>5, <1>6, <1>7, <1>8
        DEF Next, RunStep, TaskStep, Environment

\* peermanager.go, tooManyInFlight: the number of peers it read is stale and
\* the counter moves under it, and still no more than maxPeers+20 goroutines
\* are ever in flight.
THEOREM InFlightBoundedHolds == Spec => []InFlightBounded
<1>1. FlightInv => InFlightBounded
  BY DEF FlightInv
<1> QED BY <1>1, InitFlight, StepFlight, PTL DEF Spec

-----------------------------------------------------------------------------
(* The overshoot of the peer cap.                                          *)

OvershootInv == FlightInv /\ OvershootBounded

\* Whoever dials is in flight, and an outbound peer is a peer.
LEMMA DialSizes ==
  ASSUME CountInv
  PROVE  /\ IsFiniteSet(Dialling) /\ IsFiniteSet(outbound)
         /\ Cardinality(Dialling) \in Nat /\ Cardinality(Dialling) <= inFlight
         /\ Cardinality(outbound) \in Nat /\ Cardinality(outbound) <= Cardinality(connected)
         /\ Cardinality(connected) \in Nat /\ inFlight \in Nat
<1>1. Dialling \in SUBSET Running /\ Running \in SUBSET Goroutine
  BY DEF Dialling, Running, NoTask
<1>2. IsFiniteSet(Running) /\ Cardinality(Running) = inFlight
  BY <1>1, CountGoroutines DEF CountInv, Accounted
<1>3. outbound \in SUBSET connected /\ connected \in SUBSET Peer
  BY DEF CountInv, TypeOK
<1>4. IsFiniteSet(connected)
  BY <1>3, CountPeers
<1> QED BY <1>1, <1>2, <1>3, <1>4, FS_Subset, FS_CardinalityType

\* A step that neither connects an outbound peer nor lets one more dial.
LEMMA NoMoreDials ==
  ASSUME CountInv, OvershootBounded, outbound' \subseteq outbound, Dialling' \subseteq Dialling
  PROVE  OvershootBounded'
<1>1. /\ IsFiniteSet(Dialling) /\ IsFiniteSet(outbound)
      /\ Cardinality(Dialling) \in Nat /\ Cardinality(outbound) \in Nat
  BY DialSizes
<1>2. /\ IsFiniteSet(Dialling') /\ IsFiniteSet(outbound')
      /\ Cardinality(Dialling') <= Cardinality(Dialling)
      /\ Cardinality(outbound') <= Cardinality(outbound)
  BY <1>1, FS_Subset
<1>3. Cardinality(Dialling') \in Nat /\ Cardinality(outbound') \in Nat
  BY <1>2, FS_CardinalityType
<1> QED BY <1>1, <1>2, <1>3, PeerManagerAssumption DEF OvershootBounded

LEMMA InitOvershoot == Init => OvershootInv
<1> SUFFICES ASSUME Init PROVE OvershootInv
  OBVIOUS
<1>1. outbound = {} /\ Dialling = {}
  BY DEF Init, Dialling, NoTask
<1>2. OvershootBounded
  BY <1>1, FS_EmptySet, PeerManagerAssumption DEF OvershootBounded
<1> QED BY <1>2, InitFlight DEF OvershootInv

LEMMA StepOvershoot == OvershootInv /\ [Next]_vars => OvershootInv'
<1> SUFFICES ASSUME OvershootInv, [Next]_vars PROVE OvershootInv'
  OBVIOUS
<1> USE DEF runVars, dialVars, envVars
<1>inv. /\ FlightInv /\ FlightInv' /\ CountInv /\ CountInv' /\ InFlightBounded'
        /\ OvershootBounded /\ TypeOK
  BY StepFlight DEF OvershootInv, FlightInv, CountInv
<1>goal. SUFFICES OvershootBounded'
  BY <1>inv DEF OvershootInv
<1>same. ASSUME UNCHANGED <<task, outbound>> PROVE OvershootBounded'
  <2>1. Dialling' = Dialling
    BY <1>same DEF Dialling
  <2> QED BY <1>same, <2>1, <1>inv, NoMoreDials
<1>1. CASE UNCHANGED vars
  BY <1>1, <1>same DEF vars
<1>2. CASE ReadPeers \/ OuterCheck \/ InnerCheck \/ StartOver \/ Return
  BY <1>2, <1>same DEF ReadPeers, OuterCheck, InnerCheck, StartOver, Return
<1>3. ASSUME NEW chosen \in SUBSET Peer, Pull(chosen) PROVE OvershootBounded'
  BY <1>3, <1>same DEF Pull
<1>4. ASSUME NEW g \in Goroutine, NEW p \in Peer, Spawn(g, p) PROVE OvershootBounded'
  <2>1. Dialling' \subseteq Dialling
    BY <1>4, <1>inv DEF Spawn, TypeOK, Dialling
  <2> QED BY <1>4, <2>1, <1>inv, NoMoreDials DEF Spawn
<1>5. ASSUME NEW g \in Goroutine, Check(g) PROVE OvershootBounded'
  <2>1. CASE At(g, "checkCap") /\ ~AtCap
    <3>1. outbound' = outbound /\ inFlight' = inFlight
      BY <1>5 DEF Check
    <3>2. /\ Cardinality(outbound) \in Nat /\ Cardinality(connected) \in Nat
          /\ Cardinality(outbound) <= Cardinality(connected)
      BY <1>inv, DialSizes
    <3>3. Cardinality(Dialling') \in Nat /\ Cardinality(Dialling') <= inFlight' /\ inFlight' \in Nat
      <4>1. Dialling' \in SUBSET Running' /\ Running' \in SUBSET Goroutine
        BY DEF Dialling, Running, NoTask
      <4>2. IsFiniteSet(Running') /\ Cardinality(Running') = inFlight'
        BY <4>1, <1>inv, CountGoroutines DEF CountInv, Accounted
      <4> QED BY <4>1, <4>2, FS_Subset, FS_CardinalityType
    <3>4. MaxPeers > 0 => Cardinality(connected) < MaxPeers
      BY <2>1, <3>2, PeerManagerAssumption DEF AtCap
    <3> QED BY <3>1, <3>2, <3>3, <3>4, <1>inv, PeerManagerAssumption
            DEF OvershootBounded, InFlightBounded
  <2>2. CASE ~(At(g, "checkCap") /\ ~AtCap)
    <3>1. PICK stage \in {"release", "checkBackoff", "checkCap"} : Goto(g, stage)
      BY <1>5, <2>2 DEF Check
    <3>2. Dialling' \subseteq Dialling
      BY <3>1, <1>inv DEF Goto, TypeOK, Dialling
    <3> QED BY <1>5, <3>2, <1>inv, NoMoreDials DEF Check
  <2> QED BY <2>1, <2>2
<1>6. ASSUME NEW g \in Goroutine,
             Connect(g) \/ GiveUp(g) \/ Finish(g) \/ Release(g) \/ Decrement(g)
      PROVE  OvershootBounded'
  <2>1. Dialling' \subseteq Dialling
    BY <1>6, <1>inv DEF Connect, GiveUp, Finish, Release, Decrement, Goto, At, NoTask, TypeOK, Dialling
  <2>2. outbound' = outbound
    BY <1>6 DEF Connect, GiveUp, Finish, Release, Decrement
  <2> QED BY <2>1, <2>2, <1>inv, NoMoreDials
<1>7. ASSUME NEW p \in Peer, DialSucceeds(p) PROVE OvershootBounded'
  <2>1. Dialling' = Dialling \ Waiting(p)
    BY <1>7, <1>inv, NotifyKeeps DEF DialSucceeds
  <2>2. PICK g \in Waiting(p) : TRUE
    BY <1>7 DEF DialSucceeds
  <2>3. g \in Dialling /\ Dialling' \in SUBSET (Dialling \ {g})
    BY <2>1, <2>2 DEF Waiting, At, Dialling
  <2>4. /\ IsFiniteSet(Dialling) /\ IsFiniteSet(outbound)
        /\ Cardinality(Dialling) \in Nat /\ Cardinality(outbound) \in Nat
    BY <1>inv, DialSizes
  <2>5. IsFiniteSet(Dialling \ {g}) /\ Cardinality(Dialling \ {g}) = Cardinality(Dialling) - 1
    BY <2>3, <2>4, FS_RemoveElement
  <2>6. Cardinality(Dialling') <= Cardinality(Dialling) - 1 /\ Cardinality(Dialling') \in Nat
    BY <2>3, <2>5, FS_Subset, FS_CardinalityType
  <2>7. Cardinality(outbound') \in {Cardinality(outbound), Cardinality(outbound) + 1}
    BY <1>7, <2>4, FS_AddElement DEF DialSucceeds
  <2> QED BY <2>4, <2>6, <2>7, <1>inv, PeerManagerAssumption DEF OvershootBounded
<1>8. ASSUME NEW p \in Peer, DialFails(p) PROVE OvershootBounded'
  <2>1. Dialling' = Dialling \ Waiting(p)
    BY <1>8, <1>inv, NotifyKeeps DEF DialFails
  <2> QED BY <1>8, <2>1, <1>inv, NoMoreDials DEF DialFails
<1>9. CASE Tick \/ Cancel
  BY <1>9, <1>same DEF Tick, Cancel
<1>10. ASSUME CloseHost \/ \E p \in Peer : Find(p) \/ InboundConnection(p) \/ Disconnect(p)
       PROVE  OvershootBounded'
  <2>1. outbound' \subseteq outbound /\ task' = task
    BY <1>10 DEF CloseHost, Find, InboundConnection, Disconnect
  <2>2. Dialling' = Dialling
    BY <2>1 DEF Dialling
  <2> QED BY <2>1, <2>2, <1>inv, NoMoreDials
<1> QED BY <1>1, <1>2, <1>3, <1>4, <1>5, <1>6, <1>7, <1>8, <1>9, <1>10
        DEF Next, RunStep, TaskStep, Environment

\* peermanager.go, handleCandidate: goroutines that pass the cap check
\* together overshoot the cap, by no more than the room for what is in flight.
THEOREM OvershootBoundedHolds == Spec => []OvershootBounded
<1>1. OvershootInv => OvershootBounded
  BY DEF OvershootInv
<1> QED BY <1>1, InitOvershoot, StepOvershoot, PTL DEF Spec
=============================================================================
