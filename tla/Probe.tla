------------------------------- MODULE Probe -------------------------------
(***************************************************************************)
(* Probe mode (main.go, runProbe): several libp2p hosts in one process     *)
(* that share a SharedPeerSet and a PeerFinder.  Four kinds of goroutine   *)
(* act on a peer at the same time: routers (discv5 walker, discv4 walker,  *)
(* bootstrap loop) that find it, the peer manager of its owner that dials  *)
(* it, the swarm of any instance that accepts a connection from it, and    *)
(* the handlers that react to a new connection (inbound enforcement,       *)
(* Status request).  Dial limits and backoff are in module PeerManager.    *)
(***************************************************************************)
EXTENDS SharedPeerSet

CONSTANTS
  Router,   \* the goroutines that call PeerRouter.Route
  HostID,   \* instance -> peer ID of its own host
  NoPeer,   \* not a peer: what an idle router holds
  EventBuf  \* bound: capacity of the subscription to connectedness events

ASSUME ProbeAssumption ==
  /\ HostID \in [Instance -> Peer]
  /\ \A i, j \in Instance : HostID[i] = HostID[j] => i = j
  /\ NoPeer \notin Peer
  /\ EventBuf \in Nat

VARIABLES
  hosts,      \* how many hosts runProbe has created, in configuration order
  services,   \* how many instances have their services started
  watching,   \* the instances whose HandleInboundPeers has subscribed
  routing,    \* router -> its place in Route and the peer it is routing
  peers,      \* PeerFinder.peers: instance -> peers stored for it
  dialing,    \* instance -> peers its swarm is dialling
  secured,    \* instance -> inbound peers past InterceptSecured, still upgrading
  connected,  \* instance -> peers its network is connected to
  status,     \* instance -> peers with a sendStatus goroutine not yet served
  events      \* instance -> queued connectedness events, oldest first

netVars == <<dialing, secured, connected, status, events>>
startVars == <<hosts, services, watching>>
vars == <<peerSetVars, startVars, routing, peers, netVars>>

\* The steps of AddPeer a router can be interrupted at.
RouterPC == {"idle", "assign", "store"}

\* EvtPeerConnectednessChanged.
Event == [peer : Peer, to : {"Connected", "NotConnected"}]

\* Every variable has a value the Go types allow.
TypeOK ==
  /\ PeerSetTypeOK
  /\ hosts \in 0 .. Len(instances)
  /\ services \in 0 .. hosts
  /\ watching \in SUBSET Instance
  /\ routing \in [Router -> [pc : RouterPC, id : Peer \cup {NoPeer},
                             owner : Instance \cup {NoOwner}]]
  /\ peers \in [Instance -> SUBSET Peer]
  /\ dialing \in [Instance -> SUBSET Peer]
  /\ secured \in [Instance -> SUBSET Peer]
  /\ connected \in [Instance -> SUBSET Peer]
  /\ status \in [Instance -> SUBSET Peer]
  /\ events \in [Instance -> Seq(Event)]

Idle == [pc |-> "idle", id |-> NoPeer, owner |-> NoOwner]

Init ==
  /\ NewSharedPeerSet
  /\ hosts = 0
  /\ services = 0
  /\ watching = {}
  /\ routing = [r \in Router |-> Idle]
  /\ peers = [i \in Instance |-> {}]
  /\ dialing = [i \in Instance |-> {}]
  /\ secured = [i \in Instance |-> {}]
  /\ connected = [i \in Instance |-> {}]
  /\ status = [i \in Instance |-> {}]
  /\ events = [i \in Instance |-> <<>>]

-----------------------------------------------------------------------------
(* Start-up: hosts first, then per-instance services, then discovery.      *)

\* The host of i exists, so it listens and its gater is in place.
Listening(i) == \E k \in 1 .. hosts : instances[k] = i

\* SendStatusOnConnect is registered and the peer manager runs for i.
Serving(i) == \E k \in 1 .. services : instances[k] = i

StartHost ==
  /\ hosts < Len(instances)
  /\ hosts' = hosts + 1
  /\ UNCHANGED <<peerSetVars, services, watching, routing, peers, netVars>>

\* Mutant: the loop over the instances runs once too often.
StartServicesOnceMore ==
  /\ hosts = Len(instances)
  /\ services <= hosts
  /\ services' = services + 1
  /\ UNCHANGED <<peerSetVars, hosts, watching, routing, peers, netVars>>

StartServices ==
  /\ hosts = Len(instances)
  /\ services < hosts
  /\ services' = services + 1
  /\ UNCHANGED <<peerSetVars, hosts, watching, routing, peers, netVars>>

\* HandleInboundPeers is a goroutine: it subscribes some time after it starts.
Subscribe(i) ==
  /\ Serving(i)
  /\ i \notin watching
  /\ watching' = watching \cup {i}
  /\ UNCHANGED <<peerSetVars, hosts, services, routing, peers, netVars>>

-----------------------------------------------------------------------------
(* Discovery and PeerFinder.                                               *)

IsConnectedToAny(id) == \E i \in Instance : id \in connected[i]

\* A walker or the bootstrap loop meets a peer that passes the filters.
Discover(r, p) ==
  /\ services = Len(instances)
  /\ routing[r].pc = "idle"
  /\ ~IsConnectedToAny(p)
  /\ routing' = [routing EXCEPT ![r] = [pc |-> "assign", id |-> p, owner |-> NoOwner]]
  /\ UNCHANGED <<peerSetVars, startVars, peers, netVars>>

\* AddPeer takes the peer set's lock ...
AddPeerAssign(r) ==
  /\ routing[r].pc = "assign"
  /\ AssignOrGet(routing[r].id)
  /\ routing' = [routing EXCEPT ![r] = [pc |-> "store", id |-> routing[r].id,
                                       owner |-> assignments'[routing[r].id]]]
  /\ UNCHANGED <<startVars, peers, netVars>>

\* Mutant: AddPeer skips a peer that got connected since Route was called.
AddPeerStoreUnlessConnected(r) ==
  /\ routing[r].pc = "store"
  /\ peers' = IF IsConnectedToAny(routing[r].id) THEN peers
              ELSE [peers EXCEPT ![routing[r].owner] = @ \cup {routing[r].id}]
  /\ routing' = [routing EXCEPT ![r] = Idle]
  /\ UNCHANGED <<peerSetVars, startVars, netVars>>

\* ... and, that lock released, the peer finder's.
AddPeerStore(r) ==
  /\ routing[r].pc = "store"
  /\ peers' = [peers EXCEPT ![routing[r].owner] = @ \cup {routing[r].id}]
  /\ routing' = [routing EXCEPT ![r] = Idle]
  /\ UNCHANGED <<peerSetVars, startVars, netVars>>

-----------------------------------------------------------------------------
(* The gater and the swarm.                                                *)

\* Mutant: runProbe lists only the hosts created after i as its siblings.
IsLaterSibling(i, p) ==
  \E j, k \in 1 .. Len(instances) :
    j < k /\ instances[j] = i /\ p = HostID[instances[k]]

IsSibling(i, p) == \E j \in Instance \ {i} : p = HostID[j]

InterceptPeerDial(i, p) == ~IsSibling(i, p)

InterceptSecuredOutbound(i, p) == ~IsSibling(i, p)

\* Connectedness events reach HandleInboundPeers once it has subscribed.
Emit(i, e) ==
  events' = IF i \in watching THEN [events EXCEPT ![i] = Append(@, e)] ELSE events

\* The emitter blocks while the subscriber's buffer is full.
CanEmit(i) == Len(events[i]) < EventBuf

(***************************************************************************)
(* A connection of i to p is up.  The first one changes connectedness; and *)
(* each one notifies SendStatusOnConnect, which starts a goroutine.        *)
(***************************************************************************)
Established(i, p) ==
  /\ CanEmit(i)
  /\ connected' = [connected EXCEPT ![i] = @ \cup {p}]
  /\ IF p \in connected[i] THEN UNCHANGED events ELSE Emit(i, [peer |-> p, to |-> "Connected"])
  /\ status' = IF Serving(i) THEN [status EXCEPT ![i] = @ \cup {p}] ELSE status

\* The swarm starts a dial, unless the peer is the host itself or a sibling.
Dial(i, p) ==
  dialing' = IF p # HostID[i] /\ InterceptPeerDial(i, p)
             THEN [dialing EXCEPT ![i] = @ \cup {p}] ELSE dialing

\* Mutant: GetPeers offers an instance the peers of every instance.
GetPeersOfAll(i) == UNION {peers[j] : j \in Instance}

\* Whom GetPeers may return, before the peer manager's skip.
GetPeers(i) == peers[i]

\* The peer manager of i gets p from GetPeers and connects to it.
PullDial(i, p) ==
  /\ Serving(i)
  /\ p \in GetPeers(i)
  /\ p \notin connected[i]
  /\ Dial(i, p)
  /\ UNCHANGED <<peerSetVars, startVars, routing, peers, secured, connected, status, events>>

\* sendStatus opens a stream, and NewStream dials a peer that has gone.
SendStatus(i, p) ==
  /\ p \in status[i]
  /\ status' = [status EXCEPT ![i] = @ \ {p}]
  /\ IF p \in connected[i] THEN UNCHANGED dialing ELSE Dial(i, p)
  /\ UNCHANGED <<peerSetVars, startVars, routing, peers, secured, connected, events>>

\* The security handshake of an outbound connection succeeds.
DialSecured(i, p) ==
  /\ p \in dialing[i]
  /\ InterceptSecuredOutbound(i, p)
  /\ Established(i, p)
  /\ dialing' = [dialing EXCEPT ![i] = @ \ {p}]
  /\ UNCHANGED <<peerSetVars, startVars, routing, peers, secured>>

\* Refused, unreachable, timed out, or rejected by the gater.
DialFailed(i, p) ==
  /\ p \in dialing[i]
  /\ dialing' = [dialing EXCEPT ![i] = @ \ {p}]
  /\ UNCHANGED <<peerSetVars, startVars, routing, peers, secured, connected, status, events>>

\* Who can knock at i: any remote peer, and a sibling that is dialling i.
CanReach(i, p) ==
  \A j \in Instance : p = HostID[j] => HostID[i] \in dialing[j]

\* The gater at the end of an inbound security handshake.
InterceptSecuredInbound(i, p) ==
  /\ Listening(i)
  /\ CanReach(i, p)
  /\ IF IsSibling(i, p) THEN UNCHANGED <<peerSetVars, secured>>
     ELSE /\ Claim(p, i)
          /\ secured' = IF assignments'[p] = i
                        THEN [secured EXCEPT ![i] = @ \cup {p}] ELSE secured
  /\ UNCHANGED <<startVars, routing, peers, dialing, connected, status, events>>

\* The inbound connection is upgraded (InterceptUpgraded allows it) ...
Upgraded(i, p) ==
  /\ p \in secured[i]
  /\ Established(i, p)
  /\ secured' = [secured EXCEPT ![i] = @ \ {p}]
  /\ UNCHANGED <<peerSetVars, startVars, routing, peers, dialing>>

\* ... or fails before that.
UpgradeFailed(i, p) ==
  /\ p \in secured[i]
  /\ secured' = [secured EXCEPT ![i] = @ \ {p}]
  /\ UNCHANGED <<peerSetVars, startVars, routing, peers, dialing, connected, status, events>>

\* The last connection to p goes away.
Disconnect(i, p) ==
  /\ p \in connected[i]
  /\ CanEmit(i)
  /\ connected' = [connected EXCEPT ![i] = @ \ {p}]
  /\ Emit(i, [peer |-> p, to |-> "NotConnected"])
  /\ UNCHANGED <<peerSetVars, startVars, routing, peers, dialing, secured, status>>

(***************************************************************************)
(* HandleInboundPeers takes the next event: a peer that has come up is     *)
(* claimed, and closed when it turns out to be another instance's.         *)
(***************************************************************************)
HandleInbound(i) ==
  /\ events[i] # <<>>
  /\ LET e == Head(events[i]) IN
     IF e.to = "Connected"
     THEN /\ Claim(e.peer, i)
          /\ connected' = IF assignments'[e.peer] = i THEN connected
                          ELSE [connected EXCEPT ![i] = @ \ {e.peer}]
          /\ events' = [events EXCEPT ![i] =
                          IF connected' = connected THEN Tail(@)
                          ELSE Append(Tail(@), [peer |-> e.peer, to |-> "NotConnected"])]
     ELSE /\ UNCHANGED <<peerSetVars, connected>>
          /\ events' = [events EXCEPT ![i] = Tail(@)]
  /\ UNCHANGED <<startVars, routing, peers, dialing, secured, status>>

-----------------------------------------------------------------------------

Next ==
  \/ StartHost
  \/ StartServices
  \/ \E i \in Instance : Subscribe(i) \/ HandleInbound(i)
  \/ \E r \in Router : AddPeerAssign(r) \/ AddPeerStore(r)
  \/ \E r \in Router, p \in Peer : Discover(r, p)
  \/ \E i \in Instance, p \in Peer :
       \/ PullDial(i, p)
       \/ SendStatus(i, p)
       \/ DialSecured(i, p)
       \/ DialFailed(i, p)
       \/ InterceptSecuredInbound(i, p)
       \/ Upgraded(i, p)
       \/ UpgradeFailed(i, p)
       \/ Disconnect(i, p)

Spec == Init /\ [][Next]_vars

(***************************************************************************)
(* A router inside Route only takes locks that are held for a few map      *)
(* operations, so it gets to the end of it.                                *)
(***************************************************************************)
Fairness == \A r \in Router : WF_vars(AddPeerAssign(r)) /\ WF_vars(AddPeerStore(r))

FairSpec == Spec /\ Fairness

-----------------------------------------------------------------------------

(***************************************************************************)
(* inbound.go ("enforces disjoint peer sets across instances"), gater.go,  *)
(* sharedpeerset.go: no peer is ever connected to two instances, whatever  *)
(* the order of discovery, dials, redials by sendStatus, inbound           *)
(* connections and disconnections.                                         *)
(***************************************************************************)
DisjointPeerSets ==
  \A i, j \in Instance : i # j => connected[i] \cap connected[j] = {}

(***************************************************************************)
(* gater.go, InterceptSecured: outbound connections are let through        *)
(* because "callers are responsible for only dialing peers assigned to     *)
(* this instance".  They are: what the peer manager may be given, and what *)
(* the swarm is dialling (for the peer manager or for sendStatus), is      *)
(* owned by the instance, even though AddPeer uses the owner it read after *)
(* the lock under which it read it is released.                            *)
(***************************************************************************)
DialsOnlyOwned ==
  \A i \in Instance : \A p \in peers[i] \cup dialing[i] : assignments[p] = i

(***************************************************************************)
(* inbound.go, HandleInboundPeers, is "a defense-in-depth safety net" for  *)
(* a peer that "gets assigned to another instance between InterceptSecured *)
(* and connection establishment".  The net has nothing to catch: a peer in *)
(* a queued connected event is already owned by the instance, so the       *)
(* handler neither claims nor closes anything.                             *)
(***************************************************************************)
SafetyNetIdle ==
  \A i \in Instance : \A k \in 1 .. Len(events[i]) :
    events[i][k].to = "Connected" => assignments[events[i][k].peer] = i

(***************************************************************************)
(* gater.go: sibling instances never connect to each other, although       *)
(* discovery finds them like any other node and deals them out.            *)
(***************************************************************************)
NoSiblingLink ==
  \A i, j \in Instance : HostID[j] \notin connected[i]

(***************************************************************************)
(* peerfinder.go, Route: a peer given to Route is stored for some instance *)
(* in the end, also when it connects, or is claimed by an inbound          *)
(* connection, while Route is running.                                     *)
(***************************************************************************)
NeverDropped ==
  \A r \in Router, p \in Peer :
    (routing[r].pc # "idle" /\ routing[r].id = p) ~> (\E i \in Instance : p \in peers[i])

(***************************************************************************)
(* The probe implements the abstract promise: the table is who took whom,  *)
(* the connections are the links.  An assignment is therefore never        *)
(* changed, and no connection comes up before its peer is taken.           *)
(***************************************************************************)
Promise == INSTANCE DisjointPeers WITH owner <- assignments, link <- connected

KeepsPromise == Promise!Spec
=============================================================================
