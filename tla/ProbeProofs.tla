---------------------------- MODULE ProbeProofs ----------------------------
(***************************************************************************)
(* Proofs, for any number of instances, peers and routers, of the safety   *)
(* properties of module Probe and of the fact that it implements           *)
(* DisjointPeers.                                                          *)
(*                                                                         *)
(* The argument: assignments only ever grows (AssignOrGetGrows,            *)
(* ClaimGrows), so "p is owned by i", once true, stays true.  It is true   *)
(* of p whenever i has anything to do with p: Owned says so for every      *)
(* place where the code holds on to a peer.                                *)
(***************************************************************************)
EXTENDS Probe, TLAPS

\* A router between the two locks of AddPeer still holds the right owner.
RouterKnowsOwner ==
  \A r \in Router :
    /\ routing[r].pc # "idle" => routing[r].id \in Peer
    /\ routing[r].pc = "store" => /\ routing[r].owner \in Instance
                                  /\ assignments[routing[r].id] = routing[r].owner

\* Whatever an instance stores, dials, upgrades, is connected to or owes a
\* Status request is its own.
Owned ==
  \A i \in Instance :
    \A p \in peers[i] \cup dialing[i] \cup secured[i] \cup connected[i] \cup status[i] :
      assignments[p] = i

\* No host of the probe is dialled, let in or connected.
NoHostAtTheDoor ==
  \A i, j \in Instance : HostID[j] \notin dialing[i] \cup secured[i] \cup connected[i]

\* The inductive invariant.
IInv == TypeOK /\ RouterKnowsOwner /\ Owned /\ SafetyNetIdle /\ NoHostAtTheDoor

-----------------------------------------------------------------------------
(* The shared peer set.                                                    *)

\* The empty string is not an instance's name.
LEMMA NoOwnerFact == NoOwner \notin Instance
BY InstancesAssumption

\* What is assigned stays assigned, to the same instance.
Grows == \A p \in Peer, i \in Instance : assignments[p] = i => assignments'[p] = i

\* The robin always points at an instance.
LEMMA NextInRobinType ==
  ASSUME PeerSetTypeOK
  PROVE  NextInRobin \in Instance
<1>1. /\ Len(instances) \in Nat \ {0}
      /\ instances \in [1 .. Len(instances) -> Instance]
  BY InstancesAssumption
<1>2. nextIdx % Len(instances) \in 0 .. Len(instances) - 1
  BY <1>1 DEF PeerSetTypeOK
<1>. QED
  BY <1>1, <1>2 DEF NextInRobin

\* sharedpeerset.go, AssignOrGet: the result is an instance, and no other
\* assignment is touched.
LEMMA AssignOrGetGrows ==
  ASSUME PeerSetTypeOK, NEW id \in Peer, AssignOrGet(id)
  PROVE  PeerSetTypeOK' /\ Grows /\ assignments'[id] \in Instance
<1>1. CASE Assigned(id) /\ UNCHANGED peerSetVars
  BY <1>1 DEF PeerSetTypeOK, Grows, Assigned, peerSetVars
<1>2. CASE /\ ~Assigned(id)
           /\ assignments' = [assignments EXCEPT ![id] = NextInRobin]
           /\ nextIdx' = nextIdx + 1
           /\ dealt' = dealt \cup {id}
  BY <1>2, NextInRobinType, NoOwnerFact DEF PeerSetTypeOK, Grows, Assigned
<1>. QED
  BY <1>1, <1>2 DEF AssignOrGet

\* sharedpeerset.go, Claim: the caller becomes the owner of a free peer, and
\* no other assignment is touched.
LEMMA ClaimGrows ==
  ASSUME PeerSetTypeOK, NEW id \in Peer, NEW inst \in Instance, Claim(id, inst)
  PROVE  /\ PeerSetTypeOK'
         /\ Grows
         /\ assignments'[id] = IF assignments[id] = NoOwner THEN inst ELSE assignments[id]
         /\ \A p \in Peer \ {id} : assignments'[p] = assignments[p]
         /\ assignments[id] # NoOwner => assignments' = assignments
BY NoOwnerFact DEF PeerSetTypeOK, Grows, Claim, Assigned

-----------------------------------------------------------------------------
(* The invariant is inductive.                                             *)

LEMMA InitIInv == Init => IInv
<1>. SUFFICES ASSUME Init PROVE IInv
  OBVIOUS
<1>1. TypeOK
  BY InstancesAssumption
  DEF Init, TypeOK, PeerSetTypeOK, NewSharedPeerSet, Idle, RouterPC, Event
<1>2. RouterKnowsOwner
  BY DEF Init, RouterKnowsOwner, Idle
<1>3. Owned /\ NoHostAtTheDoor
  BY DEF Init, Owned, NoHostAtTheDoor
<1>4. SafetyNetIdle
  BY DEF Init, SafetyNetIdle
<1>. QED
  BY <1>1, <1>2, <1>3, <1>4 DEF IInv

\* The peers that instance i holds on to, in any of the places the code has.
Held(i) == peers[i] \cup dialing[i] \cup secured[i] \cup connected[i] \cup status[i]

\* Owned survives a step that only adds, to one instance, a peer it owns.
LEMMA OwnedStep ==
  ASSUME TypeOK, Owned, Grows, NEW i \in Instance, NEW p \in Peer,
         \A j \in Instance \ {i} : Held(j)' \subseteq Held(j),
         Held(i)' \subseteq Held(i) \cup {p},
         p \in Held(i)' => assignments'[p] = i
  PROVE  Owned'
<1>1. \A j \in Instance : Held(j) \subseteq Peer
  BY DEF TypeOK, Held
<1>2. \A j \in Instance : \A q \in Held(j) : assignments[q] = j
  BY DEF Owned, Held
<1>3. \A j \in Instance : \A q \in Held(j) : assignments'[q] = j
  BY <1>1, <1>2 DEF Grows
<1>4. \A j \in Instance : \A q \in Held(j)' : assignments'[q] = j
  BY <1>3
<1>. QED
  BY <1>4 DEF Owned, Held

\* RouterKnowsOwner survives a step in which no router moves.
LEMMA RouterStep ==
  ASSUME TypeOK, RouterKnowsOwner, Grows, UNCHANGED routing
  PROVE  RouterKnowsOwner'
BY DEF TypeOK, RouterKnowsOwner, Grows

\* SafetyNetIdle survives a step that queues, for i, an event of a peer
\* that i owns (or none).
LEMMA EmitStep ==
  ASSUME TypeOK, SafetyNetIdle, Grows, NEW i \in Instance, NEW p \in Peer,
         NEW e \in Event, e.peer = p, e.to = "Connected" => assignments[p] = i,
         UNCHANGED events \/ Emit(i, e)
  PROVE  SafetyNetIdle' /\ events' \in [Instance -> Seq(Event)]
<1>1. events \in [Instance -> Seq(Event)]
  BY DEF TypeOK
<1>2. ASSUME NEW j \in Instance, NEW k \in 1 .. Len(events[j])
      PROVE  /\ events[j][k].peer \in Peer
             /\ events[j][k].to = "Connected" => assignments'[events[j][k].peer] = j
  <2>1. events[j] \in Seq(Event)
    BY <1>1
  <2>2. events[j][k] \in Event
    BY <2>1
  <2>3. events[j][k].peer \in Peer
    BY <2>2 DEF Event
  <2>. QED
    BY <2>3 DEF SafetyNetIdle, Grows
<1>3. CASE UNCHANGED events
  BY <1>1, <1>2, <1>3 DEF SafetyNetIdle
<1>4. CASE events' = [events EXCEPT ![i] = Append(events[i], e)]
  <2>1. events' \in [Instance -> Seq(Event)]
    BY <1>1, <1>4
  <2>2. ASSUME NEW j \in Instance, NEW k \in 1 .. Len(events'[j]), events'[j][k].to = "Connected"
        PROVE  assignments'[events'[j][k].peer] = j
    <3>1. CASE j # i
      BY <3>1, <2>2, <1>1, <1>2, <1>4
    <3>2. CASE j = i
      <4>1. events'[i] = Append(events[i], e) /\ events[i] \in Seq(Event)
        BY <1>1, <1>4
      <4>2. assignments[p] = i => assignments'[p] = i
        BY DEF Grows
      <4>3. CASE k = Len(events[i]) + 1
        BY <4>1, <4>2, <4>3, <3>2, <2>2
      <4>4. CASE k \in 1 .. Len(events[i])
        BY <4>1, <4>4, <3>2, <2>2, <1>2
      <4>. QED
        BY <4>1, <4>3, <4>4, <3>2
    <3>. QED
      BY <3>1, <3>2
  <2>. QED
    BY <2>1, <2>2 DEF SafetyNetIdle
<1>. QED
  BY <1>3, <1>4 DEF Emit

\* The subject of a queued event is a peer.
LEMMA EventPeer ==
  ASSUME TypeOK, NEW j \in Instance, NEW k \in 1 .. Len(events[j])
  PROVE  events[j][k].peer \in Peer
<1>1. events[j] \in Seq(Event)
  BY DEF TypeOK
<1>2. events[j][k] \in Event
  BY <1>1
<1>. QED
  BY <1>2 DEF Event

\* What is left of a queue once its head is taken.
LEMMA TailEntry ==
  ASSUME NEW S, NEW q \in Seq(S), q # <<>>, NEW k \in 1 .. Len(Tail(q))
  PROVE  k + 1 \in 1 .. Len(q) /\ Tail(q)[k] = q[k + 1]
<1>1. Len(q) \in Nat /\ Len(q) # 0 /\ Len(Tail(q)) = Len(q) - 1
  OBVIOUS
<1>2. k \in Nat /\ 1 <= k /\ k <= Len(q) - 1
  BY <1>1
<1>. QED
  BY <1>1, <1>2

\* SafetyNetIdle survives a step that queues nothing.
LEMMA EventsGrow ==
  ASSUME TypeOK, SafetyNetIdle, Grows, UNCHANGED events
  PROVE  SafetyNetIdle'
<1>1. ASSUME NEW j \in Instance, NEW k \in 1 .. Len(events[j]), events[j][k].to = "Connected"
      PROVE  assignments'[events[j][k].peer] = j
  BY <1>1, EventPeer DEF SafetyNetIdle, Grows
<1>. QED
  BY <1>1 DEF SafetyNetIdle

\* inbound.go: under the invariant the handler only consumes the event.
LEMMA HandleInboundIdle ==
  ASSUME TypeOK, SafetyNetIdle, NEW i \in Instance, HandleInbound(i)
  PROVE  /\ UNCHANGED <<peerSetVars, connected>>
         /\ events' = [events EXCEPT ![i] = Tail(@)]
         /\ events[i] # <<>>
<1>. DEFINE e == Head(events[i])
<1>1. events[i] \in Seq(Event) /\ events[i] # <<>>
  BY DEF TypeOK, HandleInbound
<1>2. e = events[i][1] /\ 1 \in 1 .. Len(events[i]) /\ e \in Event
  BY <1>1
<1>3. CASE e.to = "Connected"
  <2>1. e.peer \in Peer /\ assignments[e.peer] = i
    BY <1>2, <1>3 DEF SafetyNetIdle, Event
  <2>2. Claim(e.peer, i)
    BY <1>3 DEF HandleInbound
  <2>3. assignments' = assignments /\ UNCHANGED <<nextIdx, dealt>>
    BY <2>1, <2>2, ClaimGrows, NoOwnerFact DEF TypeOK, Claim
  <2>4. connected' = connected
    BY <1>3, <2>1, <2>3 DEF HandleInbound
  <2>5. events' = [events EXCEPT ![i] = Tail(@)]
    BY <1>3, <2>4 DEF HandleInbound
  <2>. QED
    BY <1>1, <2>3, <2>4, <2>5 DEF peerSetVars
<1>4. CASE e.to # "Connected"
  BY <1>1, <1>4 DEF HandleInbound
<1>. QED
  BY <1>3, <1>4

\* A step that leaves the peer set and the queues alone.
LEMMA QuietStep ==
  ASSUME IInv, UNCHANGED peerSetVars
  PROVE  /\ Grows /\ PeerSetTypeOK'
         /\ UNCHANGED routing => RouterKnowsOwner'
         /\ UNCHANGED events => SafetyNetIdle'
<1>1. Grows /\ PeerSetTypeOK'
  BY DEF IInv, TypeOK, PeerSetTypeOK, Grows, peerSetVars
<1>2. UNCHANGED routing => RouterKnowsOwner'
  BY <1>1, RouterStep DEF IInv
<1>3. UNCHANGED events => SafetyNetIdle'
  BY DEF IInv, SafetyNetIdle, peerSetVars
<1>. QED
  BY <1>1, <1>2, <1>3

\* A connection of i to a peer of its own comes up.
LEMMA EstablishedStep ==
  ASSUME IInv, NEW i \in Instance, NEW p \in Peer, assignments[p] = i,
         UNCHANGED peerSetVars, Established(i, p)
  PROVE  /\ connected' = [connected EXCEPT ![i] = @ \cup {p}]
         /\ status' \in [Instance -> SUBSET Peer]
         /\ \A j \in Instance : status'[j] \subseteq status[j] \cup (IF j = i THEN {p} ELSE {})
         /\ SafetyNetIdle' /\ events' \in [Instance -> Seq(Event)]
<1>1. connected' = [connected EXCEPT ![i] = @ \cup {p}]
  BY DEF Established
<1>2. /\ status' \in [Instance -> SUBSET Peer]
      /\ \A j \in Instance : status'[j] \subseteq status[j] \cup (IF j = i THEN {p} ELSE {})
  BY DEF Established, IInv, TypeOK
<1>3. Grows
  BY QuietStep
<1>4. SafetyNetIdle' /\ events' \in [Instance -> Seq(Event)]
  <2>1. [peer |-> p, to |-> "Connected"] \in Event
    BY DEF Event
  <2>2. UNCHANGED events \/ Emit(i, [peer |-> p, to |-> "Connected"])
    BY DEF Established
  <2>. QED
    BY <2>1, <2>2, <1>3, EmitStep DEF IInv
<1>. QED
  BY <1>1, <1>2, <1>4

\* A dial the swarm accepts is not to a host of the probe.
LEMMA DialStep ==
  ASSUME IInv, NEW i \in Instance, NEW p \in Peer, Dial(i, p)
  PROVE  /\ dialing' \in [Instance -> SUBSET Peer]
         /\ \A j \in Instance : dialing'[j] \subseteq dialing[j] \cup (IF j = i THEN {p} ELSE {})
         /\ \A j, k \in Instance : HostID[k] \notin dialing'[j]
<1>1. dialing \in [Instance -> SUBSET Peer] /\ \A j, k \in Instance : HostID[k] \notin dialing[j]
  BY DEF IInv, TypeOK, NoHostAtTheDoor
<1>2. CASE dialing' = dialing
  BY <1>1, <1>2
<1>3. CASE /\ p # HostID[i] /\ InterceptPeerDial(i, p)
           /\ dialing' = [dialing EXCEPT ![i] = @ \cup {p}]
  <2>1. \A k \in Instance : HostID[k] # p
    BY <1>3 DEF InterceptPeerDial, IsSibling
  <2>. QED
    BY <2>1, <1>1, <1>3
<1>. QED
  BY <1>2, <1>3 DEF Dial

-----------------------------------------------------------------------------

\* Every step of the probe keeps the inductive invariant.
LEMMA NextIInv == IInv /\ [Next]_vars => IInv'
<1>. SUFFICES ASSUME IInv, [Next]_vars PROVE IInv'
  OBVIOUS
<1>0. TypeOK /\ RouterKnowsOwner /\ Owned /\ SafetyNetIdle /\ NoHostAtTheDoor
  BY DEF IInv
<1>1. ASSUME UNCHANGED <<peerSetVars, routing, peers, netVars>>,
             hosts' \in 0 .. Len(instances), services' \in 0 .. hosts', watching' \in SUBSET Instance
      PROVE  IInv'
  <2>1. TypeOK'
    BY <1>0, <1>1 DEF TypeOK, PeerSetTypeOK, peerSetVars, netVars
  <2>2. RouterKnowsOwner' /\ SafetyNetIdle'
    BY <1>1, QuietStep DEF netVars
  <2>3. Owned' /\ NoHostAtTheDoor'
    BY <1>0, <1>1 DEF Owned, NoHostAtTheDoor, peerSetVars, netVars
  <2>. QED
    BY <2>1, <2>2, <2>3 DEF IInv
<1>2. CASE StartHost
  BY <1>0, <1>1, <1>2 DEF StartHost, TypeOK
<1>3. CASE StartServices
  BY <1>0, <1>1, <1>3 DEF StartServices, TypeOK
<1>4. ASSUME NEW i \in Instance, Subscribe(i) PROVE IInv'
  BY <1>0, <1>1, <1>4 DEF Subscribe, TypeOK
<1>5. CASE UNCHANGED vars
  BY <1>0, <1>1, <1>5 DEF vars, startVars, TypeOK, peerSetVars
<1>6. ASSUME NEW r \in Router, NEW p \in Peer, Discover(r, p) PROVE IInv'
  <2>1. TypeOK'
    BY <1>0, <1>6 DEF TypeOK, Discover, PeerSetTypeOK, peerSetVars, netVars, startVars, RouterPC
  <2>2. RouterKnowsOwner'
    BY <1>0, <1>6 DEF RouterKnowsOwner, TypeOK, Discover, peerSetVars
  <2>3. SafetyNetIdle'
    BY <1>6, QuietStep DEF Discover, netVars
  <2>4. Owned' /\ NoHostAtTheDoor'
    BY <1>0, <1>6 DEF Owned, NoHostAtTheDoor, Discover, peerSetVars, netVars
  <2>. QED
    BY <2>1, <2>2, <2>3, <2>4 DEF IInv
<1>7. ASSUME NEW r \in Router, AddPeerAssign(r) PROVE IInv'
  <2>. DEFINE id == routing[r].id
  <2>1. id \in Peer /\ AssignOrGet(id)
    BY <1>0, <1>7 DEF RouterKnowsOwner, AddPeerAssign
  <2>2. PeerSetTypeOK' /\ Grows /\ assignments'[id] \in Instance
    BY <1>0, <2>1, AssignOrGetGrows DEF TypeOK
  <2>3. TypeOK'
    BY <1>0, <1>7, <2>2 DEF TypeOK, AddPeerAssign, startVars, netVars, RouterPC
  <2>4. RouterKnowsOwner'
    BY <1>0, <1>7, <2>1, <2>2 DEF RouterKnowsOwner, TypeOK, AddPeerAssign, Grows
  <2>5. \A j \in Instance : Held(j)' = Held(j)
    BY <1>7 DEF AddPeerAssign, netVars, Held
  <2>6. Owned'
    <3>1. \A j \in Instance : \A q \in Held(j) : q \in Peer /\ assignments[q] = j
      BY <1>0 DEF Owned, Held, TypeOK
    <3>2. \A j \in Instance : \A q \in Held(j)' : assignments'[q] = j
      BY <3>1, <2>2, <2>5 DEF Grows
    <3>. QED
      BY <3>2 DEF Owned, Held
  <2>7. SafetyNetIdle'
    BY <1>0, <1>7, <2>2, EventsGrow DEF AddPeerAssign, netVars
  <2>8. NoHostAtTheDoor'
    BY <1>0, <1>7 DEF NoHostAtTheDoor, AddPeerAssign, netVars
  <2>. QED
    BY <2>3, <2>4, <2>6, <2>7, <2>8 DEF IInv
<1>8. ASSUME NEW r \in Router, AddPeerStore(r) PROVE IInv'
  <2>1. PICK own \in Instance, id \in Peer :
          /\ own = routing[r].owner
          /\ id = routing[r].id
          /\ assignments[id] = own
    BY <1>0, <1>8 DEF RouterKnowsOwner, AddPeerStore
  <2>2. TypeOK'
    BY <1>0, <1>8, <2>1 DEF TypeOK, AddPeerStore, PeerSetTypeOK, peerSetVars, startVars, netVars, RouterPC, Idle
  <2>3. RouterKnowsOwner'
    BY <1>0, <1>8 DEF RouterKnowsOwner, TypeOK, AddPeerStore, peerSetVars, Idle
  <2>4. Grows /\ SafetyNetIdle'
    BY <1>8, QuietStep DEF AddPeerStore, netVars
  <2>5. /\ \A j \in Instance \ {own} : Held(j)' \subseteq Held(j)
        /\ Held(own)' \subseteq Held(own) \cup {id}
    BY <1>0, <1>8, <2>1 DEF AddPeerStore, netVars, Held, TypeOK
  <2>6. Owned'
    BY <1>0, <1>8, <2>1, <2>4, <2>5, OwnedStep DEF AddPeerStore, peerSetVars
  <2>7. NoHostAtTheDoor'
    BY <1>0, <1>8 DEF NoHostAtTheDoor, AddPeerStore, netVars
  <2>. QED
    BY <2>2, <2>3, <2>4, <2>6, <2>7 DEF IInv
<1>9. ASSUME NEW i \in Instance, NEW p \in Peer, assignments[p] = i, Dial(i, p) \/ UNCHANGED dialing,
             UNCHANGED <<peerSetVars, startVars, routing, peers, secured, connected, events>>,
             status' \in [Instance -> SUBSET Peer],
             \A j \in Instance : status'[j] \subseteq status[j]
      PROVE  IInv'
  <2>1. /\ dialing' \in [Instance -> SUBSET Peer]
        /\ \A j \in Instance : dialing'[j] \subseteq dialing[j] \cup (IF j = i THEN {p} ELSE {})
        /\ \A j, k \in Instance : HostID[k] \notin dialing'[j]
    BY <1>0, <1>9, DialStep DEF TypeOK, NoHostAtTheDoor
  <2>2. TypeOK'
    BY <1>0, <1>9, <2>1 DEF TypeOK, PeerSetTypeOK, peerSetVars, startVars
  <2>3. Grows /\ RouterKnowsOwner' /\ SafetyNetIdle'
    BY <1>9, QuietStep
  <2>4. /\ \A j \in Instance \ {i} : Held(j)' \subseteq Held(j)
        /\ Held(i)' \subseteq Held(i) \cup {p}
    BY <1>9, <2>1 DEF Held
  <2>5. Owned'
    BY <1>0, <1>9, <2>3, <2>4, OwnedStep DEF peerSetVars
  <2>6. NoHostAtTheDoor'
    BY <1>0, <1>9, <2>1 DEF NoHostAtTheDoor
  <2>. QED
    BY <2>2, <2>3, <2>5, <2>6 DEF IInv
<1>10. ASSUME NEW i \in Instance, NEW p \in Peer, PullDial(i, p) PROVE IInv'
  <2>1. assignments[p] = i
    BY <1>0, <1>10 DEF PullDial, GetPeers, Owned
  <2>. QED
    BY <1>0, <1>9, <1>10, <2>1 DEF PullDial, TypeOK
<1>11. ASSUME NEW i \in Instance, NEW p \in Peer, SendStatus(i, p) PROVE IInv'
  <2>1. assignments[p] = i
    BY <1>0, <1>11 DEF SendStatus, Owned
  <2>2. /\ status' \in [Instance -> SUBSET Peer]
        /\ \A j \in Instance : status'[j] \subseteq status[j]
    BY <1>0, <1>11 DEF SendStatus, TypeOK
  <2>. QED
    BY <1>9, <1>11, <2>1, <2>2 DEF SendStatus
<1>12. ASSUME NEW i \in Instance, NEW p \in dialing[i] \cup secured[i], Established(i, p),
              UNCHANGED <<peerSetVars, startVars, routing, peers>>,
              dialing' \in [Instance -> SUBSET Peer], secured' \in [Instance -> SUBSET Peer],
              \A j \in Instance : dialing'[j] \subseteq dialing[j] /\ secured'[j] \subseteq secured[j]
       PROVE  IInv'
  <2>1. p \in Peer /\ assignments[p] = i
    BY <1>0 DEF Owned, TypeOK
  <2>2. /\ connected' = [connected EXCEPT ![i] = @ \cup {p}]
        /\ status' \in [Instance -> SUBSET Peer]
        /\ \A j \in Instance : status'[j] \subseteq status[j] \cup (IF j = i THEN {p} ELSE {})
        /\ SafetyNetIdle' /\ events' \in [Instance -> Seq(Event)]
    BY <1>12, <2>1, EstablishedStep
  <2>3. TypeOK'
    BY <1>0, <1>12, <2>1, <2>2 DEF TypeOK, PeerSetTypeOK, peerSetVars, startVars
  <2>4. Grows /\ RouterKnowsOwner'
    BY <1>12, QuietStep
  <2>5. /\ \A j \in Instance \ {i} : Held(j)' \subseteq Held(j)
        /\ Held(i)' \subseteq Held(i) \cup {p}
    BY <1>0, <1>12, <2>2 DEF Held, TypeOK
  <2>6. Owned'
    BY <1>0, <1>12, <2>1, <2>4, <2>5, OwnedStep DEF peerSetVars
  <2>7. NoHostAtTheDoor'
    BY <1>0, <1>12, <2>2 DEF NoHostAtTheDoor, TypeOK
  <2>. QED
    BY <2>2, <2>3, <2>4, <2>6, <2>7 DEF IInv
<1>13. ASSUME NEW i \in Instance, NEW p \in Peer, DialSecured(i, p) PROVE IInv'
  <2>1. /\ dialing' \in [Instance -> SUBSET Peer] /\ secured' \in [Instance -> SUBSET Peer]
        /\ \A j \in Instance : dialing'[j] \subseteq dialing[j] /\ secured'[j] \subseteq secured[j]
    BY <1>0, <1>13 DEF DialSecured, TypeOK
  <2>. QED
    BY <1>12, <1>13, <2>1 DEF DialSecured
<1>14. ASSUME NEW i \in Instance, NEW p \in Peer, Upgraded(i, p) PROVE IInv'
  <2>1. /\ dialing' \in [Instance -> SUBSET Peer] /\ secured' \in [Instance -> SUBSET Peer]
        /\ \A j \in Instance : dialing'[j] \subseteq dialing[j] /\ secured'[j] \subseteq secured[j]
    BY <1>0, <1>14 DEF Upgraded, TypeOK
  <2>. QED
    BY <1>12, <1>14, <2>1 DEF Upgraded
<1>15. ASSUME NEW i \in Instance, NEW p \in Peer, DialFailed(i, p) PROVE IInv'
  <2>1. TypeOK'
    BY <1>0, <1>15 DEF TypeOK, DialFailed, PeerSetTypeOK, peerSetVars, startVars
  <2>2. RouterKnowsOwner' /\ SafetyNetIdle'
    BY <1>15, QuietStep DEF DialFailed
  <2>3. Owned' /\ NoHostAtTheDoor'
    BY <1>0, <1>15 DEF Owned, NoHostAtTheDoor, DialFailed, peerSetVars, TypeOK
  <2>. QED
    BY <2>1, <2>2, <2>3 DEF IInv
<1>16. ASSUME NEW i \in Instance, NEW p \in Peer, UpgradeFailed(i, p) PROVE IInv'
  <2>1. TypeOK'
    BY <1>0, <1>16 DEF TypeOK, UpgradeFailed, PeerSetTypeOK, peerSetVars, startVars
  <2>2. RouterKnowsOwner' /\ SafetyNetIdle'
    BY <1>16, QuietStep DEF UpgradeFailed
  <2>3. Owned' /\ NoHostAtTheDoor'
    BY <1>0, <1>16 DEF Owned, NoHostAtTheDoor, UpgradeFailed, peerSetVars, TypeOK
  <2>. QED
    BY <2>1, <2>2, <2>3 DEF IInv
<1>17. ASSUME NEW i \in Instance, NEW p \in Peer, InterceptSecuredInbound(i, p) PROVE IInv'
  <2>0. ASSUME UNCHANGED <<peerSetVars, secured>> PROVE IInv'
    BY <1>0, <1>1, <1>17, <2>0 DEF InterceptSecuredInbound, TypeOK, startVars, netVars
  <2>1. CASE IsSibling(i, p)
    BY <1>17, <2>0, <2>1 DEF InterceptSecuredInbound
  <2>2. CASE ~IsSibling(i, p)
    <3>1. /\ Claim(p, i)
          /\ secured' = IF assignments'[p] = i
                        THEN [secured EXCEPT ![i] = @ \cup {p}] ELSE secured
      BY <1>17, <2>2 DEF InterceptSecuredInbound
    <3>2. PeerSetTypeOK' /\ Grows
      BY <1>0, <3>1, ClaimGrows DEF TypeOK
    <3>3. TypeOK'
      BY <1>0, <1>17, <3>1, <3>2 DEF TypeOK, InterceptSecuredInbound, startVars
    <3>4. RouterKnowsOwner'
      BY <1>0, <1>17, <3>2, RouterStep DEF InterceptSecuredInbound
    <3>5. /\ \A j \in Instance \ {i} : Held(j)' \subseteq Held(j)
          /\ Held(i)' \subseteq Held(i) \cup {p}
      BY <1>0, <1>17, <3>1 DEF InterceptSecuredInbound, Held, TypeOK
    <3>6. p \in Held(i)' => assignments'[p] = i
      BY <1>0, <1>17, <3>1, <3>2 DEF InterceptSecuredInbound, Held, Owned, Grows, TypeOK
    <3>7. Owned'
      BY <1>0, <3>2, <3>5, <3>6, OwnedStep
    <3>8. SafetyNetIdle'
      BY <1>0, <1>17, <3>2, EventsGrow DEF InterceptSecuredInbound
    <3>9. \A k \in Instance : HostID[k] # p
      BY <1>0, <1>17, <2>2 DEF InterceptSecuredInbound, CanReach, IsSibling, NoHostAtTheDoor
    <3>10. NoHostAtTheDoor'
      BY <1>0, <1>17, <3>1, <3>9 DEF NoHostAtTheDoor, InterceptSecuredInbound, TypeOK
    <3>. QED
      BY <3>3, <3>4, <3>7, <3>8, <3>10 DEF IInv
  <2>. QED
    BY <2>1, <2>2
<1>18. ASSUME NEW i \in Instance, NEW p \in Peer, Disconnect(i, p) PROVE IInv'
  <2>1. Grows /\ RouterKnowsOwner'
    BY <1>18, QuietStep DEF Disconnect
  <2>2. SafetyNetIdle' /\ events' \in [Instance -> Seq(Event)]
    <3>1. [peer |-> p, to |-> "NotConnected"] \in Event
      BY DEF Event
    <3>. QED
      BY <3>1, <1>0, <1>18, <2>1, EmitStep DEF Disconnect
  <2>3. TypeOK'
    BY <1>0, <1>18, <2>2 DEF TypeOK, Disconnect, PeerSetTypeOK, peerSetVars, startVars
  <2>4. Owned' /\ NoHostAtTheDoor'
    BY <1>0, <1>18 DEF Owned, NoHostAtTheDoor, Disconnect, peerSetVars, TypeOK
  <2>. QED
    BY <2>1, <2>2, <2>3, <2>4 DEF IInv
<1>19. ASSUME NEW i \in Instance, HandleInbound(i) PROVE IInv'
  <2>1. /\ UNCHANGED <<peerSetVars, connected>>
        /\ events' = [events EXCEPT ![i] = Tail(@)]
        /\ events[i] # <<>>
    BY <1>0, <1>19, HandleInboundIdle DEF IInv
  <2>2. events[i] \in Seq(Event) /\ Tail(events[i]) \in Seq(Event)
    BY <1>0, <2>1 DEF TypeOK
  <2>3. TypeOK'
    BY <1>0, <1>19, <2>1, <2>2 DEF TypeOK, HandleInbound, PeerSetTypeOK, peerSetVars, startVars
  <2>4. RouterKnowsOwner'
    BY <1>19, <2>1, QuietStep DEF HandleInbound
  <2>5. Owned' /\ NoHostAtTheDoor'
    BY <1>0, <1>19, <2>1 DEF Owned, NoHostAtTheDoor, HandleInbound, peerSetVars
  <2>6. ASSUME NEW j \in Instance, NEW k \in 1 .. Len(events'[j]), events'[j][k].to = "Connected"
        PROVE  assignments'[events'[j][k].peer] = j
    <3>1. CASE j # i
      BY <1>0, <2>1, <2>6, <3>1 DEF SafetyNetIdle, TypeOK, peerSetVars
    <3>2. CASE j = i
      <4>1. events'[i] = Tail(events[i])
        BY <1>0, <2>1 DEF TypeOK
      <4>2. k + 1 \in 1 .. Len(events[i]) /\ events'[i][k] = events[i][k + 1]
        BY <2>1, <2>2, <3>2, <4>1, TailEntry
      <4>. QED
        BY <1>0, <2>1, <2>6, <3>2, <4>2 DEF SafetyNetIdle, peerSetVars
    <3>. QED
      BY <3>1, <3>2
  <2>7. SafetyNetIdle'
    BY <2>6 DEF SafetyNetIdle
  <2>. QED
    BY <2>3, <2>4, <2>5, <2>7 DEF IInv
<1>. QED
  BY <1>2, <1>3, <1>4, <1>5, <1>6, <1>7, <1>8, <1>10, <1>11, <1>13, <1>14, <1>15, <1>16,
     <1>17, <1>18, <1>19 DEF Next

-----------------------------------------------------------------------------
(* The theorems.                                                           *)

\* The inductive invariant holds in every reachable state.
LEMMA Invariance == Spec => []IInv
BY InitIInv, NextIInv, PTL DEF Spec

\* main.go, runProbe and everything it starts: every variable keeps its type.
THEOREM TypeCorrect == Spec => []TypeOK
<1>1. IInv => TypeOK
  BY DEF IInv
<1>. QED
  BY <1>1, Invariance, PTL

\* inbound.go, gater.go, sharedpeerset.go: no peer is ever connected to two
\* instances.
THEOREM PeerSetsDisjoint == Spec => []DisjointPeerSets
<1>1. IInv => DisjointPeerSets
  BY DEF IInv, Owned, DisjointPeerSets
<1>. QED
  BY <1>1, Invariance, PTL

\* gater.go, InterceptSecured: the callers do keep the obligation that its
\* outbound branch leaves to them.
THEOREM OutboundIsOwned == Spec => []DialsOnlyOwned
<1>1. IInv => DialsOnlyOwned
  BY DEF IInv, Owned, DialsOnlyOwned
<1>. QED
  BY <1>1, Invariance, PTL

\* inbound.go, HandleInboundPeers: the safety net never has anything to catch.
THEOREM NetNeverNeeded == Spec => []SafetyNetIdle
<1>1. IInv => SafetyNetIdle
  BY DEF IInv
<1>. QED
  BY <1>1, Invariance, PTL

\* gater.go: no host of the probe is ever connected to one of them.
THEOREM SiblingsApart == Spec => []NoSiblingLink
<1>1. IInv => NoSiblingLink
  BY DEF IInv, NoHostAtTheDoor, NoSiblingLink
<1>. QED
  BY <1>1, Invariance, PTL

-----------------------------------------------------------------------------
(* Refinement.                                                             *)

\* A change of the table is one Take, and leaves the links alone.
LEMMA TakeStep ==
  ASSUME IInv, NEW id \in Peer, NEW i \in Instance, UNCHANGED connected,
         \/ assignments' = assignments
         \/ assignments[id] = NoOwner /\ assignments' = [assignments EXCEPT ![id] = i]
  PROVE  [Promise!Next]_(Promise!disjointVars)
BY DEF Promise!Next, Promise!Take, Promise!disjointVars

\* A connection that comes up is one Connect.
LEMMA ConnectStep ==
  ASSUME NEW p \in Peer, NEW i \in Instance, assignments[p] = i, UNCHANGED peerSetVars,
         Established(i, p)
  PROVE  Promise!Next
BY DEF Promise!Next, Promise!Connect, Established, peerSetVars

\* Every step of the probe is a step, or no step, of the promise.
LEMMA NextPromise == IInv /\ [Next]_vars => [Promise!Next]_(Promise!disjointVars)
<1>. SUFFICES ASSUME IInv, [Next]_vars PROVE [Promise!Next]_(Promise!disjointVars)
  OBVIOUS
<1>0. TypeOK /\ RouterKnowsOwner /\ Owned /\ SafetyNetIdle
  BY DEF IInv
<1>1. ASSUME UNCHANGED <<assignments, connected>>
      PROVE  [Promise!Next]_(Promise!disjointVars)
  BY <1>1 DEF Promise!disjointVars
<1>2. CASE StartHost \/ StartServices \/ \E i \in Instance : Subscribe(i)
  BY <1>1, <1>2 DEF StartHost, StartServices, Subscribe, peerSetVars, netVars
<1>3. CASE UNCHANGED vars
  BY <1>1, <1>3 DEF vars, netVars, peerSetVars
<1>4. CASE \E r \in Router : AddPeerStore(r) \/ \E p \in Peer : Discover(r, p)
  BY <1>1, <1>4 DEF AddPeerStore, Discover, peerSetVars, netVars
<1>5. ASSUME NEW r \in Router, AddPeerAssign(r)
      PROVE  [Promise!Next]_(Promise!disjointVars)
  <2>1. routing[r].id \in Peer
    BY <1>0, <1>5 DEF RouterKnowsOwner, AddPeerAssign
  <2>2. NextInRobin \in Instance
    BY <1>0, NextInRobinType DEF TypeOK
  <2>3. UNCHANGED connected
    BY <1>5 DEF AddPeerAssign, netVars
  <2>4. \/ assignments' = assignments
        \/ /\ assignments[routing[r].id] = NoOwner
           /\ assignments' = [assignments EXCEPT ![routing[r].id] = NextInRobin]
    BY <1>5 DEF AddPeerAssign, AssignOrGet, Assigned, peerSetVars
  <2>. QED
    BY <2>1, <2>2, <2>3, <2>4, TakeStep
<1>6. ASSUME NEW i \in Instance, NEW p \in Peer,
             PullDial(i, p) \/ SendStatus(i, p) \/ DialFailed(i, p) \/ UpgradeFailed(i, p)
      PROVE  [Promise!Next]_(Promise!disjointVars)
  BY <1>1, <1>6 DEF PullDial, SendStatus, DialFailed, UpgradeFailed, peerSetVars
<1>7. ASSUME NEW i \in Instance, NEW p \in Peer, DialSecured(i, p) \/ Upgraded(i, p)
      PROVE  [Promise!Next]_(Promise!disjointVars)
  <2>1. assignments[p] = i
    BY <1>0, <1>7 DEF DialSecured, Upgraded, Owned
  <2>. QED
    BY <1>7, <2>1, ConnectStep DEF DialSecured, Upgraded
<1>8. ASSUME NEW i \in Instance, NEW p \in Peer, InterceptSecuredInbound(i, p)
      PROVE  [Promise!Next]_(Promise!disjointVars)
  <2>1. UNCHANGED connected
    BY <1>8 DEF InterceptSecuredInbound
  <2>2. \/ assignments' = assignments
        \/ assignments[p] = NoOwner /\ assignments' = [assignments EXCEPT ![p] = i]
    BY <1>0, <1>8 DEF InterceptSecuredInbound, Claim, Assigned, peerSetVars, TypeOK, PeerSetTypeOK
  <2>. QED
    BY <2>1, <2>2, TakeStep
<1>9. ASSUME NEW i \in Instance, NEW p \in Peer, Disconnect(i, p)
      PROVE  [Promise!Next]_(Promise!disjointVars)
  BY <1>9 DEF Disconnect, Promise!Next, Promise!Drop, peerSetVars
<1>10. ASSUME NEW i \in Instance, HandleInbound(i)
       PROVE  [Promise!Next]_(Promise!disjointVars)
  BY <1>0, <1>1, <1>10, HandleInboundIdle DEF peerSetVars
<1>. QED
  BY <1>2, <1>3, <1>4, <1>5, <1>6, <1>7, <1>8, <1>9, <1>10 DEF Next

\* main.go, runProbe with gater.go, inbound.go, peerfinder.go and
\* sharedpeerset.go: the probe implements DisjointPeers.
THEOREM ProbeKeepsPromise == Spec => KeepsPromise
<1>1. Init => Promise!Init
  BY DEF Init, NewSharedPeerSet, Promise!Init
<1>. QED
  BY <1>1, Invariance, NextPromise, PTL DEF Spec, KeepsPromise, Promise!Spec
=============================================================================
