--------------------------- MODULE DisjointPeers ---------------------------
(***************************************************************************)
(* What the probe promises about peers, whatever goroutines and gaters it  *)
(* uses to keep the promise: a peer is taken by at most one instance, once *)
(* and for ever, and an instance only ever has a link to a peer it took.   *)
(***************************************************************************)
CONSTANTS Peer, Instance, NoOwner

VARIABLES
  owner,  \* peer -> the instance that took it, or NoOwner
  link    \* instance -> the peers it is connected to

disjointVars == <<owner, link>>

Init ==
  /\ owner = [p \in Peer |-> NoOwner]
  /\ link = [i \in Instance |-> {}]

Take(p, i) ==
  /\ owner[p] = NoOwner
  /\ owner' = [owner EXCEPT ![p] = i]
  /\ UNCHANGED link

Connect(p, i) ==
  /\ owner[p] = i
  /\ link' = [link EXCEPT ![i] = @ \cup {p}]
  /\ UNCHANGED owner

Drop(p, i) ==
  /\ link' = [link EXCEPT ![i] = @ \ {p}]
  /\ UNCHANGED owner

Next ==
  \E p \in Peer, i \in Instance : Take(p, i) \/ Connect(p, i) \/ Drop(p, i)

Spec == Init /\ [][Next]_disjointVars
=============================================================================
