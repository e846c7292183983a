---------------------------- MODULE SharedPeerSet ----------------------------
(***************************************************************************)
(* node/sharedpeerset.go: the table, shared by every instance of the probe *)
(* and guarded by one mutex, that says which instance owns which peer.     *)
(* Every method runs under s.mu from its first to its last line, so each   *)
(* one is a single step here.  The steps are conjoined into the actions of *)
(* the module that calls them (Probe).                                     *)
(*                                                                         *)
(* What a method returns is read from the primed table: after              *)
(* AssignOrGet(id) or Claim(id, inst) the owner returned is                *)
(* assignments'[id].                                                       *)
(***************************************************************************)
EXTENDS Integers, Sequences, FiniteSets

CONSTANTS
  Peer,       \* libp2p peer IDs, those of the probe's own hosts included
  Instance,   \* instance names
  instances,  \* the names in the order of the configuration file
  NoOwner     \* the empty string: what Owner returns for an unassigned peer

(***************************************************************************)
(* config.Validate: at least one instance, names not empty, names unique.  *)
(***************************************************************************)
ASSUME InstancesAssumption ==
  /\ instances \in Seq(Instance)
  /\ Len(instances) > 0
  /\ \A i \in Instance : \E k \in 1 .. Len(instances) : instances[k] = i
  /\ \A j, k \in 1 .. Len(instances) : instances[j] = instances[k] => j = k
  /\ NoOwner \notin Instance

VARIABLES
  assignments,  \* peer -> owning instance, NoOwner for a missing map entry
  nextIdx,      \* round-robin cursor
  dealt         \* history: the peers that AssignOrGet, not Claim, assigned

peerSetVars == <<assignments, nextIdx, dealt>>

PeerSetTypeOK ==
  /\ assignments \in [Peer -> Instance \cup {NoOwner}]
  /\ nextIdx \in Nat
  /\ dealt \in SUBSET Peer

\* The map is made empty and the cursor is the zero value.
NewSharedPeerSet ==
  /\ assignments = [p \in Peer |-> NoOwner]
  /\ nextIdx = 0
  /\ dealt = {}

Assigned(id) == assignments[id] # NoOwner

\* s.instances[idx % uint64(len(s.instances))], with TLA+'s one-based sequence.
NextInRobin == instances[(nextIdx % Len(instances)) + 1]

(***************************************************************************)
(* The owner of a known peer is returned unchanged; an unknown peer gets   *)
(* the instance under the cursor, and the cursor moves.                    *)
(***************************************************************************)
AssignOrGet(id) ==
  \/ Assigned(id) /\ UNCHANGED peerSetVars
  \/ /\ ~Assigned(id)
     /\ assignments' = [assignments EXCEPT ![id] = NextInRobin]
     /\ nextIdx' = nextIdx + 1
     /\ dealt' = dealt \cup {id}

\* Mutant: Claim takes its turn in the round-robin and moves the cursor too.
ClaimMovesCursor(id, inst) ==
  /\ assignments' = [assignments EXCEPT ![id] = IF Assigned(id) THEN @ ELSE inst]
  /\ nextIdx' = IF Assigned(id) THEN nextIdx ELSE nextIdx + 1
  /\ UNCHANGED dealt

\* Mutant: the lookup that protects an existing assignment is gone.
ClaimOverwrites(id, inst) ==
  /\ assignments' = [assignments EXCEPT ![id] = inst]
  /\ UNCHANGED <<nextIdx, dealt>>

(***************************************************************************)
(* An unknown peer becomes inst's, a known one keeps its owner.  The       *)
(* cursor does not move in either case.                                    *)
(***************************************************************************)
Claim(id, inst) ==
  /\ assignments' = [assignments EXCEPT ![id] = IF Assigned(id) THEN @ ELSE inst]
  /\ UNCHANGED <<nextIdx, dealt>>

-----------------------------------------------------------------------------

Share(inst) == {id \in dealt : assignments[id] = inst}

(***************************************************************************)
(* sharedpeerset.go, AssignOrGet: however Claims of inbound peers are      *)
(* interleaved with discovery, the peers that discovery deals out are      *)
(* spread evenly: no instance is ever ahead of another by more than one.   *)
(* (The whole table may be as uneven as the inbound traffic is.)           *)
(***************************************************************************)
Balanced ==
  \A i, j \in Instance : Cardinality(Share(i)) <= Cardinality(Share(j)) + 1
=============================================================================
