-------------------------- MODULE RoundRobinProofs --------------------------
(***************************************************************************)
(* The round-robin of the probe is fair for any number of instances, peers *)
(* and routers.                                                            *)
(*                                                                         *)
(* Balanced is not inductive: that nobody is ahead by two says nothing of  *)
(* who comes next.  The invariant says how the cursor tells: after q full  *)
(* turns and r more peers, the first r instances have q + 1, the others q. *)
(***************************************************************************)
EXTENDS ProbeProofs, FiniteSetTheorems

N == Len(instances)

\* q full turns of the robin, and r instances into the next one.
Turns(q, r) ==
  /\ nextIdx = N * q + r
  /\ \A k \in 1 .. N : Cardinality(Share(instances[k])) = IF k <= r THEN q + 1 ELSE q

RobinInv ==
  /\ PeerSetTypeOK
  /\ IsFiniteSet(dealt)
  /\ \A id \in dealt : Assigned(id)
  /\ \E q \in Nat, r \in 0 .. N - 1 : Turns(q, r)

\* The instances, in the order of the configuration.
LEMMA Positions ==
  /\ N \in Nat \ {0} /\ NoOwner \notin Instance
  /\ \A k \in 1 .. N : instances[k] \in Instance
  /\ \A i \in Instance : \E k \in 1 .. N : instances[k] = i
  /\ \A j, k \in 1 .. N : instances[j] = instances[k] => j = k
BY InstancesAssumption DEF N

\* Division with remainder.
LEMMA DivMod ==
  ASSUME NEW n \in Nat \ {0}, NEW q \in Nat, NEW r \in 0 .. n - 1
  PROVE  (n * q + r) % n = r
<1> DEFINE x == n * q + r
           d == x \div n
           m == x % n
<1>1. x \in Nat
  OBVIOUS
<1> HIDE DEF x
<1>2. d \in Int /\ m \in 0 .. n - 1 /\ x = n * d + m
  BY <1>1
<1> HIDE DEF d, m
<1>3. n * (q - d) = m - r
  BY <1>2 DEF x
<1>4. q - d \in Int
  BY <1>2
<1>5. \A e \in Int : e >= 1 => n * e >= n
  OBVIOUS
<1>6. \A e \in Int : e <= -1 => n * e <= -n
  OBVIOUS
<1>7. q - d = 0
  BY <1>2, <1>3, <1>4, <1>5, <1>6
<1> QED BY <1>2, <1>3, <1>7 DEF x, m

LEMMA InitRobin == Init => RobinInv
<1> SUFFICES ASSUME Init PROVE RobinInv
  OBVIOUS
<1>1. PeerSetTypeOK /\ nextIdx = 0 /\ dealt = {}
  BY DEF Init, NewSharedPeerSet, PeerSetTypeOK
<1>2. \A i : Share(i) = {}
  BY <1>1 DEF Share
<1>3. Turns(0, 0)
  BY <1>1, <1>2, FS_EmptySet, Positions DEF Turns
<1>4. 0 \in Nat /\ 0 \in 0 .. N - 1
  BY Positions
<1> QED BY <1>1, <1>3, <1>4, FS_EmptySet DEF RobinInv

\* sharedpeerset.go, AssignOrGet of a new peer: it goes to the instance whose
\* turn it is, and the turn passes on.
LEMMA DealNew ==
  ASSUME RobinInv, NEW id \in Peer, AssignOrGet(id), ~Assigned(id)
  PROVE  RobinInv'
<1>1. PICK q \in Nat, r \in 0 .. N - 1 : Turns(q, r)
  BY DEF RobinInv
<1>2. nextIdx % N = r /\ NextInRobin = instances[r + 1] /\ r + 1 \in 1 .. N
  <2>1. nextIdx % N = r
    BY <1>1, DivMod, Positions DEF Turns
  <2> QED BY <1>1, <2>1, Positions DEF NextInRobin, N
<1>3. /\ assignments' = [assignments EXCEPT ![id] = instances[r + 1]]
      /\ nextIdx' = nextIdx + 1 /\ dealt' = dealt \cup {id} /\ id \notin dealt
  BY <1>2 DEF AssignOrGet, RobinInv
<1>4. assignments \in [Peer -> Instance \cup {NoOwner}] /\ nextIdx \in Nat /\ dealt \subseteq Peer
  BY DEF RobinInv, PeerSetTypeOK
<1>5. instances[r + 1] \in Instance
  BY <1>2, Positions
<1>6. PeerSetTypeOK'
  BY <1>3, <1>4, <1>5 DEF PeerSetTypeOK
<1>7. IsFiniteSet(dealt')
  BY <1>3, <1>4, FS_AddElement DEF RobinInv
<1>8. \A p \in dealt' : Assigned(p)'
  BY <1>3, <1>4, <1>5, Positions DEF Assigned, RobinInv
<1>9. ASSUME NEW k \in 1 .. N
      PROVE  Cardinality(Share(instances[k])') = Cardinality(Share(instances[k])) + (IF k = r + 1 THEN 1 ELSE 0)
  <2> DEFINE S == Share(instances[k])
  <2>1. S \in SUBSET dealt /\ id \notin S
    BY <1>3 DEF Share
  <2>2. IsFiniteSet(S) /\ Cardinality(S) \in Nat
    BY <2>1, FS_Subset, FS_CardinalityType DEF RobinInv
  <2>3. CASE k = r + 1
    <3>1. Share(instances[k])' = S \cup {id}
      BY <1>3, <1>4, <2>3 DEF Share
    <3> HIDE DEF S
    <3>2. Cardinality(S \cup {id}) = Cardinality(S) + 1
      BY <2>1, <2>2, FS_AddElement
    <3> QED BY <2>3, <3>1, <3>2 DEF S
  <2>4. CASE k # r + 1
    <3>1. instances[k] # instances[r + 1]
      BY <1>2, <2>4, Positions
    <3>2. Share(instances[k])' = S
      BY <1>3, <1>4, <3>1 DEF Share
    <3> HIDE DEF S
    <3> QED BY <2>2, <2>4, <3>2 DEF S
  <2> QED BY <2>3, <2>4
<1>10. CASE r + 1 < N
  <2>1. Turns(q, r + 1)'
    <3>1. nextIdx' = N * q + (r + 1)
      BY <1>1, <1>3, <1>4, Positions DEF Turns
    <3>2. \A k \in 1 .. N : Cardinality(Share(instances[k])') = IF k <= r + 1 THEN q + 1 ELSE q
      BY <1>1, <1>9, Positions DEF Turns
    <3> QED BY <3>1, <3>2 DEF Turns, N
  <2>2. r + 1 \in 0 .. N - 1
    BY <1>10, Positions
  <2> QED BY <1>6, <1>7, <1>8, <2>1, <2>2 DEF RobinInv, N
<1>11. CASE r + 1 = N
  <2>1. Turns(q + 1, 0)'
    <3>1. nextIdx' = N * (q + 1) + 0
      BY <1>1, <1>3, <1>4, <1>11, Positions DEF Turns
    <3>2. \A k \in 1 .. N : Cardinality(Share(instances[k])') = IF k <= 0 THEN q + 1 + 1 ELSE q + 1
      BY <1>1, <1>9, <1>11, Positions DEF Turns
    <3> QED BY <3>1, <3>2 DEF Turns, N
  <2>2. q + 1 \in Nat /\ 0 \in 0 .. N - 1
    BY Positions
  <2> QED BY <1>6, <1>7, <1>8, <2>1, <2>2 DEF RobinInv, N
<1> QED BY <1>1, <1>10, <1>11, Positions

\* sharedpeerset.go, Claim: neither the cursor nor anyone's share moves.
LEMMA ClaimKeeps ==
  ASSUME RobinInv, NEW id \in Peer, NEW inst \in Instance, Claim(id, inst)
  PROVE  RobinInv'
<1>1. /\ assignments' = [assignments EXCEPT ![id] = IF Assigned(id) THEN @ ELSE inst]
      /\ UNCHANGED <<nextIdx, dealt>>
  BY DEF Claim
<1>2. assignments \in [Peer -> Instance \cup {NoOwner}]
  BY DEF RobinInv, PeerSetTypeOK
<1>3. \A p \in dealt : assignments'[p] = assignments[p]
  BY <1>1, <1>2 DEF RobinInv, Assigned
<1>4. \A i : Share(i)' = Share(i)
  BY <1>1, <1>3 DEF Share
<1>5. \A q, r : Turns(q, r) => Turns(q, r)'
  BY <1>1, <1>4 DEF Turns, N
<1>6. \A p \in dealt' : Assigned(p)'
  BY <1>1, <1>3 DEF RobinInv, Assigned
<1>7. PeerSetTypeOK'
  BY <1>1, <1>2 DEF RobinInv, PeerSetTypeOK
<1> QED BY <1>1, <1>5, <1>6, <1>7 DEF RobinInv, N

\* Nothing else touches the table.
LEMMA TableStep ==
  IInv /\ [Next]_vars =>
    \/ UNCHANGED peerSetVars
    \/ \E id \in Peer : AssignOrGet(id) \/ \E inst \in Instance : Claim(id, inst)
<1> SUFFICES ASSUME IInv, [Next]_vars, ~UNCHANGED peerSetVars
             PROVE  \E id \in Peer : AssignOrGet(id) \/ \E inst \in Instance : Claim(id, inst)
  OBVIOUS
<1>1. ASSUME NEW r \in Router, AddPeerAssign(r) PROVE routing[r].id \in Peer /\ AssignOrGet(routing[r].id)
  BY <1>1 DEF IInv, RouterKnowsOwner, AddPeerAssign
<1>2. ASSUME NEW i \in Instance, NEW p \in Peer, InterceptSecuredInbound(i, p) PROVE Claim(p, i)
  BY <1>2 DEF InterceptSecuredInbound
<1>3. ASSUME NEW i \in Instance, HandleInbound(i) PROVE FALSE
  BY <1>3, HandleInboundIdle DEF IInv
<1> QED BY <1>1, <1>2, <1>3
        DEF Next, vars, StartHost, StartServices, Subscribe, Discover, AddPeerStore, PullDial,
            SendStatus, DialSecured, DialFailed, Upgraded, UpgradeFailed, Disconnect

LEMMA StepRobin == IInv /\ RobinInv /\ [Next]_vars => RobinInv'
<1> SUFFICES ASSUME IInv, RobinInv, [Next]_vars PROVE RobinInv'
  OBVIOUS
<1>1. ASSUME UNCHANGED peerSetVars PROVE RobinInv'
  <2>1. \A i : Share(i)' = Share(i)
    BY <1>1 DEF peerSetVars, Share
  <2>2. \A q, r : Turns(q, r) => Turns(q, r)'
    BY <1>1, <2>1 DEF peerSetVars, Turns, N
  <2> QED BY <1>1, <2>2 DEF RobinInv, peerSetVars, PeerSetTypeOK, Assigned, N
<1>2. ASSUME NEW id \in Peer, AssignOrGet(id) PROVE RobinInv'
  BY <1>1, <1>2, DealNew DEF AssignOrGet
<1> QED BY <1>1, <1>2, ClaimKeeps, TableStep

\* Who has had one turn more is at most one peer ahead.
LEMMA TurnsBalance == RobinInv => Balanced
<1> SUFFICES ASSUME RobinInv, NEW i \in Instance, NEW j \in Instance
             PROVE  Cardinality(Share(i)) <= Cardinality(Share(j)) + 1
  BY DEF Balanced
<1>1. PICK q \in Nat, r \in 0 .. N - 1 : Turns(q, r)
  BY DEF RobinInv
<1>2. Cardinality(Share(i)) \in {q, q + 1} /\ Cardinality(Share(j)) \in {q, q + 1}
  BY <1>1, Positions DEF Turns
<1> QED BY <1>2

(***************************************************************************)
(* sharedpeerset.go, AssignOrGet and Claim, as the probe calls them:       *)
(* however inbound claims come between, no instance is ever dealt two      *)
(* peers more than another.                                                *)
(***************************************************************************)
THEOREM BalancedHolds == Spec => []Balanced
BY InitRobin, StepRobin, TurnsBalance, Invariance, PTL DEF Spec
=============================================================================
