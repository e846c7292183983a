----------------------------- MODULE Discovery -----------------------------
(***************************************************************************)
(* discovery/discovery.go: the walkers (discoverPeers over discv5 and      *)
(* discv4), the crawl file writer and its notifee, and the bootstrap loop  *)
(* (RouteBootstrapPeers, called again and again by main.go).  Every step   *)
(* takes and drops a lock or goes to the network.                          *)
(*                                                                         *)
(* A peer publishes a first ENR and later ones that may say something      *)
(* else; the discovery tables hand out old ones too.  The process can be   *)
(* stopped and started again: as a crawler, which appends the ENRs of the  *)
(* peers it reached to a file, or as a probe, which reads that file.       *)
(***************************************************************************)
EXTENDS Enr, FiniteSets, SequencesExt

CONSTANTS
  Peer,        \* remote nodes
  Walker,      \* the discoverPeers goroutines
  Boot,        \* the goroutine of the bootstrap loop
  None,        \* no peer
  Enrs,        \* peer -> the ENRs it publishes, one after the other
  ForkDigest,  \* the fork digest, computed once at start-up
  Subnets,     \* cfg.Subnets
  MaxRun       \* bound: how many times the process is started

ASSUME DiscoveryAssumption ==
  /\ MaxRun \in Nat \ {0}
  /\ None \notin Peer /\ Boot \notin Walker /\ Subnets \subseteq Nat
  /\ \A p \in Peer : Enrs[p] \in Seq(Record({Enrs[p][k].fork : k \in DOMAIN Enrs[p]}))
                       /\ Enrs[p] # <<>>

VARIABLES
  mode,       \* "crawl" or "probe"
  quicOnly,   \* QuicOnly of the first instance
  published,  \* peer -> which of its ENRs is the current one
  hand,       \* goroutine -> where it is, and the ENR at hand
  todo,       \* bootstrap: the lines read from the file and not yet handled
  stored,     \* PeerFinder: peer -> the ENR its addresses are from, 0 if none
  pending,    \* crawlFileWriter.pending: peer -> its registered ENR, or 0
  seen,       \* crawlFileWriter.seen
  file,       \* lines of the crawl file: an ENR and the run that wrote it
  connected,  \* peers the process is connected to
  notify,     \* peers whose new connection the notifee has not seen yet
  early,      \* history: connected before anything was registered for them
  run         \* which run of the process this is

writerVars == <<pending, seen, file>>
connVars == <<connected, notify, early>>
runVars == <<mode, quicOnly, run>>
vars == <<runVars, published, hand, todo, stored, writerVars, connVars>>

Goroutine == Walker \cup {Boot}
PC == {"next", "read", "hasPeer", "register", "route"}
Versions(p) == 1 .. Len(Enrs[p])

Hand == [pc : PC, peer : Peer \cup {None}, ver : Nat]
Line == [peer : Peer, ver : Nat, run : 1 .. MaxRun]

\* Every variable has a value the Go types allow, and refers to an ENR that
\* its peer publishes.
TypeOK ==
  /\ mode \in {"crawl", "probe"} /\ quicOnly \in BOOLEAN /\ run \in 1 .. MaxRun
  /\ {published, stored, pending} \subseteq [Peer -> Nat]
  /\ hand \in [Goroutine -> Hand]
  /\ {seen, connected, notify, early} \subseteq SUBSET Peer
  /\ todo \subseteq [peer : Peer, ver : Nat]
  /\ file \in Seq(Line)
  /\ \A p \in Peer : /\ published[p] \in Versions(p)
                     /\ {stored[p], pending[p]} \subseteq {0} \cup Versions(p)
  /\ \A g \in Goroutine : hand[g].pc \in {"hasPeer", "register", "route"} =>
       hand[g].peer \in Peer /\ hand[g].ver \in Versions(hand[g].peer)
  /\ \A line \in todo \cup Range(file) : line.ver \in Versions(line.peer)

AtRest(pc) == [pc |-> pc, peer |-> None, ver |-> 0]

\* The volatile state of a run that starts.
StartRun ==
  /\ mode' \in {"crawl", "probe"} /\ quicOnly' \in BOOLEAN
  /\ hand' = [g \in Goroutine |-> AtRest("next")]
  /\ todo' = {} /\ seen' = {} /\ connected' = {} /\ notify' = {} /\ early' = {}
  /\ stored' = [p \in Peer |-> 0] /\ pending' = [p \in Peer |-> 0]

Init ==
  /\ mode \in {"crawl", "probe"} /\ quicOnly \in BOOLEAN
  /\ hand = [g \in Goroutine |-> AtRest("next")]
  /\ todo = {} /\ seen = {} /\ connected = {} /\ notify = {} /\ early = {}
  /\ stored = [p \in Peer |-> 0] /\ pending = [p \in Peer |-> 0]
  /\ published = [p \in Peer |-> 1]
  /\ file = <<>>
  /\ run = 1

-----------------------------------------------------------------------------
(* Filters.                                                                *)

\* The fork filter of the iterator, then the checks of discoverPeers.
WalkerKeeps(enr) ==
  /\ matchesForkDigest(enr, ForkDigest)
  /\ mode = "crawl" \/ hasSubnetOverlap(enr, Subnets)
  /\ enodeToAddrInfo(enr) # {}
  /\ quicOnly => hasQUICAddr(enodeToAddrInfo(enr))

\* The checks of RouteBootstrapPeers.
BootKeeps(enr) ==
  /\ matchesForkDigest(enr, ForkDigest)
  /\ hasSubnetOverlap(enr, Subnets)
  /\ enodeToAddrInfo(enr) # {}
  /\ quicOnly => hasQUICAddr(enodeToAddrInfo(enr))

-----------------------------------------------------------------------------
(* discoverPeers.                                                          *)

Goto(g, pc) == hand' = [hand EXCEPT ![g].pc = pc]

\* The iterator yields an ENR of p, current or old, that is not skipped.
Discover(w, p, v) ==
  /\ hand[w].pc = "next"
  /\ v <= published[p]
  /\ WalkerKeeps(Enrs[p][v])
  /\ p \notin connected
  /\ hand' = [hand EXCEPT ![w] = [pc |-> IF mode = "crawl" THEN "hasPeer" ELSE "route",
                                  peer |-> p, ver |-> v]]
  /\ UNCHANGED <<runVars, published, todo, stored, writerVars, connVars>>

HasPeer(p) == p \in seen \/ pending[p] # 0

CheckHasPeer(w) ==
  /\ hand[w].pc = "hasPeer"
  /\ IF HasPeer(hand[w].peer) THEN hand' = [hand EXCEPT ![w] = AtRest("next")]
                              ELSE Goto(w, "register")
  /\ UNCHANGED <<runVars, published, todo, stored, writerVars, connVars>>

\* Mutant: the ENR of a peer that is connected by now is not registered.
RegisteredUnlessConnected(p, v) == IF p \in connected THEN pending ELSE [pending EXCEPT ![p] = v]

\* Mutant: the ENR after the one at hand is registered.
RegisteredNext(p, v) == [pending EXCEPT ![p] = v + 1]

\* c.pending[id] = enrStr
Registered(p, v) == [pending EXCEPT ![p] = v]

RegisterENR(w) ==
  /\ hand[w].pc = "register"
  /\ pending' = Registered(hand[w].peer, hand[w].ver)
  /\ Goto(w, "route")
  /\ UNCHANGED <<runVars, published, todo, stored, seen, file, connVars>>

\* Where a goroutine goes from Route.
AfterRoute(g) == AtRest(IF g = Boot THEN "read" ELSE "next")

\* Router.Route: AddPeer replaces the addresses stored before.
Route(g) ==
  /\ hand[g].pc = "route"
  /\ stored' = [stored EXCEPT ![hand[g].peer] = hand[g].ver]
  /\ hand' = [hand EXCEPT ![g] = AfterRoute(g)]
  /\ UNCHANGED <<runVars, published, todo, writerVars, connVars>>

-----------------------------------------------------------------------------
(* RouteBootstrapPeers, and the loop around it in main.go.                 *)

\* The file is read; its lines are then handled in random order.
BootOpen ==
  /\ mode = "probe"
  /\ hand[Boot].pc = "next"
  /\ todo' = {[peer |-> line.peer, ver |-> line.ver] : line \in Range(file)}
  /\ hand' = [hand EXCEPT ![Boot] = AtRest("read")]
  /\ UNCHANGED <<runVars, published, stored, writerVars, connVars>>

\* Mutant: the filters look at the ENR from the file, not at the fresh one.
KeepsStaleLine(line, v) == BootKeeps(Enrs[line.peer][line.ver])

\* v is the ENR to go by: the current one if RequestENR answers, else the old.
KeepsLine(line, v) == BootKeeps(Enrs[line.peer][v])

\* Mutant: an ENR that cannot be refreshed ends the pass over the file.
LinesUnlessFailed(line, v) == IF v = published[line.peer] THEN todo \ {line} ELSE {}

LinesLeft(line, v) == todo \ {line}

BootLine(line, v) ==
  /\ hand[Boot].pc = "read"
  /\ line \in todo
  /\ v \in {line.ver, published[line.peer]}
  /\ todo' = LinesLeft(line, v)
  /\ hand' = IF KeepsLine(line, v) /\ line.peer \notin connected
             THEN [hand EXCEPT ![Boot] = [pc |-> "route", peer |-> line.peer, ver |-> v]]
             ELSE hand
  /\ UNCHANGED <<runVars, published, stored, writerVars, connVars>>

\* The pass is over; the next one starts after 60 seconds.
BootEnd ==
  /\ hand[Boot].pc = "read"
  /\ todo = {}
  /\ Goto(Boot, "next")
  /\ UNCHANGED <<runVars, published, todo, stored, writerVars, connVars>>

BootStep ==
  \/ BootOpen \/ BootEnd \/ Route(Boot)
  \/ \E line \in todo : \E v \in Versions(line.peer) : BootLine(line, v)

-----------------------------------------------------------------------------
(* The network (external), the notifee, and the life of the process.       *)

\* p publishes its next ENR.
Publish(p) ==
  /\ published[p] < Len(Enrs[p])
  /\ published' = [published EXCEPT ![p] = @ + 1]
  /\ UNCHANGED <<runVars, hand, todo, stored, writerVars, connVars>>

\* The peer manager dials peers that are stored; anyone may dial in.
ConnectionUp(p) ==
  /\ p \notin connected
  /\ connected' = connected \cup {p}
  /\ notify' = IF mode = "crawl" THEN notify \cup {p} ELSE notify
  /\ UNCHANGED <<runVars, published, hand, todo, stored, writerVars, early>>

ConnectionDown(p) ==
  /\ p \in connected
  /\ connected' = connected \ {p}
  /\ early' = early \ {p}
  /\ UNCHANGED <<runVars, published, hand, todo, stored, writerVars, notify>>

\* Mutant: WriteConnected trusts pending and does not look at seen.
ShouldWritePending(p) == pending[p] # 0

\* Mutant: WriteConnected is meant for peers the peer manager was given.
ShouldWriteStored(p) == pending[p] # 0 /\ p \notin seen /\ stored[p] # 0

ShouldWrite(p) == pending[p] # 0 /\ p \notin seen

\* ConnectedF calls WriteConnected.
WriteConnected(p) ==
  /\ p \in notify
  /\ notify' = notify \ {p}
  /\ early' = IF HasPeer(p) \/ p \notin connected THEN early ELSE early \cup {p}
  /\ pending' = [pending EXCEPT ![p] = 0]
  /\ IF ShouldWrite(p)
     THEN /\ seen' = seen \cup {p}
          /\ file' = Append(file, [peer |-> p, ver |-> pending[p], run |-> run])
     ELSE UNCHANGED <<seen, file>>
  /\ UNCHANGED <<runVars, published, hand, todo, stored, connected>>

\* The process stops and starts again, with the same file.
Restart ==
  /\ run < MaxRun
  /\ run' = run + 1
  /\ StartRun
  /\ UNCHANGED <<published, file>>

Next ==
  \/ BootStep
  \/ \E w \in Walker : CheckHasPeer(w) \/ RegisterENR(w) \/ Route(w)
  \/ \E w \in Walker, p \in Peer : \E v \in Versions(p) : Discover(w, p, v)
  \/ \E p \in Peer : Publish(p) \/ ConnectionUp(p) \/ ConnectionDown(p) \/ WriteConnected(p)
  \/ Restart

Spec == Init /\ [][Next]_vars

\* The bootstrap loop waits for nobody: RequestENR times out on its own.
FairSpec == Spec /\ WF_vars(BootStep)

-----------------------------------------------------------------------------

(***************************************************************************)
(* discovery.go, crawlFileWriter: within a run no peer is written twice,   *)
(* though both walkers can pass HasPeer before either registers, and one   *)
(* of them can then register a peer that was already written.              *)
(***************************************************************************)
NoDuplicateInRun ==
  \A j, k \in DOMAIN file :
    file[j].peer = file[k].peer /\ file[j].run = file[k].run => j = k

(***************************************************************************)
(* discovery.go, "register the ENR before sending to PeerManager": the     *)
(* writer knows every peer that was routed, so the connection the peer     *)
(* manager makes to it finds its ENR, or finds it already written.         *)
(***************************************************************************)
RoutedIsKnown == mode = "crawl" => \A p \in Peer : stored[p] # 0 => HasPeer(p)

(***************************************************************************)
(* discovery.go, "WriteConnected writes the ENR for a peer that has        *)
(* successfully connected": a registered peer that is connected has been   *)
(* written or is about to be.  The one exception is a peer that connected  *)
(* between the walker's connectedness check and RegisterENR, and that      *)
(* lasts only as long as that connection.                                  *)
(***************************************************************************)
ConnectedIsWritten ==
  \A p \in connected : pending[p] # 0 => p \in notify \cup early \cup seen

(***************************************************************************)
(* discovery.go, discoverPeers and RouteBootstrapPeers: what is kept of a  *)
(* peer comes from one ENR that passed every filter of the mode it was     *)
(* kept in, the ENR that RequestENR brought back included; in particular   *)
(* an instance with quic-only gets nobody without a QUIC address.          *)
(***************************************************************************)
KeptPassesFilters ==
  /\ \A p \in Peer : \A v \in {stored[p], pending[p]} \ {0} : WalkerKeeps(Enrs[p][v])
  /\ \A line \in Range(file) : /\ matchesForkDigest(Enrs[line.peer][line.ver], ForkDigest)
                               /\ enodeToAddrInfo(Enrs[line.peer][line.ver]) # {}

(***************************************************************************)
(* rpc.go, MakeAttnetsBytes, and discovery.go, hasSubnetOverlap: for every *)
(* choice of subnets, what we announce is what we want, and a peer is      *)
(* taken exactly if its current ENR announces one of them.                 *)
(***************************************************************************)
AttnetsAgree ==
  \A ids \in SUBSET Subnets :
    AnnouncesExactly(ids) /\ \A p \in Peer : OverlapIsShared(Enrs[p][published[p]], ids)

\* An ENR of p from the file, and all that p publishes after it, pass.
AlwaysKept(p, v) ==
  \A k \in Versions(p) : k = v \/ k >= published[p] => BootKeeps(Enrs[p][k])

(***************************************************************************)
(* discovery.go, RouteBootstrapPeers, and the loop in main.go: a peer from *)
(* the bootstrap file that passes the filters is handed to the PeerFinder, *)
(* unless it is connected already, also when RequestENR keeps failing for  *)
(* it or for others, or finds an ENR that no longer passes.                *)
(***************************************************************************)
BootstrapReaches ==
  \A p \in Peer :
    (mode = "probe" /\ \E line \in Range(file) : line.peer = p /\ AlwaysKept(p, line.ver))
      ~> (stored[p] # 0 \/ p \in connected \/ mode = "crawl")
=============================================================================
