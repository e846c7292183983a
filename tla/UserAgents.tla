----------------------------- MODULE UserAgents -----------------------------
(***************************************************************************)
(* node/useragent.go: TrackUserAgents keeps, for each normalised user      *)
(* agent, the number of peers that have it, in a map that is logged and in *)
(* a Prometheus gauge.  It is fed by two subscriptions, each first-in      *)
(* first-out, but its select takes from either at random, so the order     *)
(* between an identification and a disconnection is lost.                  *)
(***************************************************************************)
EXTENDS Integers, Sequences, FiniteSets

CONSTANTS
  Peer,      \* remote peers
  Name,      \* client names
  Major,     \* major versions
  Rest,      \* what follows the major version
  None,      \* no value
  EventBuf   \* bound: capacity of a subscription

ASSUME UserAgentsAssumption ==
  /\ EventBuf \in Nat \ {0}
  /\ None \notin Name \cup Major \cup Rest \cup {"unknown"}
  \* A peer ID has a bounded length.
  /\ IsFiniteSet(Peer)

(***************************************************************************)
(* User agent strings, by what normalizeUserAgent tells apart: the empty   *)
(* string, a bare name, and a name with a version, whose "v" is optional.  *)
(***************************************************************************)
Empty == [name |-> None, v |-> FALSE, major |-> None, rest |-> None]
Bare == [name : Name, v : {FALSE}, major : {None}, rest : {None}]
Versioned == [name : Name, v : BOOLEAN, major : Major, rest : Rest]
AgentVersion == {Empty} \cup Bare \cup Versioned

VARIABLES
  subscribed,  \* how many of the two subscriptions exist
  identQueue,  \* identification events, oldest first
  connQueue,   \* connectedness events, oldest first
  peers,       \* peer -> normalised agent, None for no entry
  counts,      \* normalised agent -> count, 0 for no entry
  gauge,       \* normalised agent -> value of the Prometheus gauge
  connected    \* the peers the host is connected to

vars == <<subscribed, identQueue, connQueue, peers, counts, gauge, connected>>

\* Mutant: the label keeps everything after the name.
NormalizeKeepsRest(raw) ==
  IF raw = Empty THEN [name |-> "unknown", v |-> FALSE, major |-> None]
  ELSE [name |-> raw.name, v |-> raw.v, major |-> raw.rest]

\* "name/vMAJOR", the name alone if there is no version, or "unknown".
normalizeUserAgent(raw) ==
  IF raw = Empty THEN [name |-> "unknown", v |-> FALSE, major |-> None]
  ELSE [name |-> raw.name, v |-> raw.v, major |-> raw.major]

Label == [name : Name, v : BOOLEAN, major : Major]
           \cup [name : Name \cup {"unknown"}, v : {FALSE}, major : {None}]

\* A peer without an entry in peers is told apart from one with a label.
ASSUME LabelAssumption == None \notin Label

\* Every variable has a value the Go types allow; the labels are normalised.
TypeOK ==
  /\ subscribed \in 0 .. 2
  /\ identQueue \in Seq([peer : Peer, agent : AgentVersion]) /\ Len(identQueue) <= EventBuf
  /\ connQueue \in Seq([peer : Peer, to : {"Connected", "NotConnected"}])
  /\ Len(connQueue) <= EventBuf
  /\ peers \in [Peer -> Label \cup {None}]
  /\ counts \in [Label -> 0 .. Cardinality(Peer)]
  /\ gauge \in [Label -> Int]
  /\ connected \in SUBSET Peer

Init ==
  /\ subscribed = 0
  /\ identQueue = <<>>
  /\ connQueue = <<>>
  /\ peers = [p \in Peer |-> None]
  /\ counts = [l \in Label |-> 0]
  /\ gauge = [l \in Label |-> 0]
  /\ connected = {}

-----------------------------------------------------------------------------
(* The host (external).  Events nobody has subscribed to yet are lost.     *)

Connectedness(p, to) ==
  /\ Len(connQueue) < EventBuf
  /\ connQueue' = IF subscribed = 2 THEN Append(connQueue, [peer |-> p, to |-> to])
                  ELSE connQueue

Connect(p) ==
  /\ p \notin connected
  /\ connected' = connected \cup {p}
  /\ Connectedness(p, "Connected")
  /\ UNCHANGED <<subscribed, identQueue, peers, counts, gauge>>

Disconnect(p) ==
  /\ p \in connected
  /\ connected' = connected \ {p}
  /\ Connectedness(p, "NotConnected")
  /\ UNCHANGED <<subscribed, identQueue, peers, counts, gauge>>

\* Identify, or its push protocol later on, completes for a connected peer.
Identified(p, raw) ==
  /\ p \in connected
  /\ Len(identQueue) < EventBuf
  /\ identQueue' = IF subscribed >= 1 THEN Append(identQueue, [peer |-> p, agent |-> raw])
                   ELSE identQueue
  /\ UNCHANGED <<subscribed, connQueue, peers, counts, gauge, connected>>

-----------------------------------------------------------------------------
(* TrackUserAgents.                                                        *)

Subscribe ==
  /\ subscribed < 2
  /\ subscribed' = subscribed + 1
  /\ UNCHANGED <<identQueue, connQueue, peers, counts, gauge, connected>>

\* counts[ua]--, and the entry is deleted once it is not positive.
Decremented(f, ua) == [f EXCEPT ![ua] = IF @ - 1 <= 0 THEN 0 ELSE @ - 1]

\* Mutant: a peer that identifies again is counted again.
UntrackNobody(p) == [counts |-> counts, gauge |-> gauge]

\* What counts and gauge become when p's entry, if it has one, is taken out.
Untrack(p) ==
  IF peers[p] = None THEN [counts |-> counts, gauge |-> gauge]
  ELSE [counts |-> Decremented(counts, peers[p]),
        gauge |-> [gauge EXCEPT ![peers[p]] = @ - 1]]

HandleIdentify ==
  /\ subscribed = 2
  /\ identQueue # <<>>
  /\ LET p == Head(identQueue).peer
         ua == normalizeUserAgent(Head(identQueue).agent)
         before == Untrack(p)
     IN  /\ peers' = [peers EXCEPT ![p] = ua]
         /\ counts' = [before.counts EXCEPT ![ua] = @ + 1]
         /\ gauge' = [before.gauge EXCEPT ![ua] = @ + 1]
  /\ identQueue' = Tail(identQueue)
  /\ UNCHANGED <<subscribed, connQueue, connected>>

HandleConnectedness ==
  /\ connQueue # <<>>
  /\ LET e == Head(connQueue) IN
     IF e.to = "NotConnected"
     THEN /\ peers' = [peers EXCEPT ![e.peer] = None]
          /\ counts' = Untrack(e.peer).counts
          /\ gauge' = Untrack(e.peer).gauge
     ELSE UNCHANGED <<peers, counts, gauge>>
  /\ connQueue' = Tail(connQueue)
  /\ UNCHANGED <<subscribed, identQueue, connected>>

Next ==
  \/ Subscribe
  \/ HandleIdentify
  \/ HandleConnectedness
  \/ \E p \in Peer : Connect(p) \/ Disconnect(p)
  \/ \E p \in Peer, raw \in AgentVersion : Identified(p, raw)

Spec == Init /\ [][Next]_vars

\* Nothing happens before both subscriptions exist, so that no event is lost.
SubscribedSpec == Init /\ [][Next /\ (subscribed = 2 \/ Subscribe)]_vars

-----------------------------------------------------------------------------

(***************************************************************************)
(* useragent.go, TrackUserAgents: the logged count and the gauge of every  *)
(* user agent are the number of tracked peers that have it, through        *)
(* re-identification with another version, repeated disconnects, and the   *)
(* deletion of counts that reach zero.                                     *)
(***************************************************************************)
CountsMatch ==
  \A ua \in Label :
    /\ counts[ua] = Cardinality({p \in Peer : peers[p] = ua})
    /\ gauge[ua] = counts[ua]

(***************************************************************************)
(* metrics.go: the gauge is the "Number of connected peers by user agent". *)
(* Once the tracker, which has missed no event (SubscribedSpec), has       *)
(* caught up with both of its queues, only connected peers are counted.    *)
(***************************************************************************)
GaugeCountsConnected ==
  (subscribed = 2 /\ identQueue = <<>> /\ connQueue = <<>>)
    => \A p \in Peer : peers[p] # None => p \in connected
=============================================================================
