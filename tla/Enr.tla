-------------------------------- MODULE Enr --------------------------------
(***************************************************************************)
(* The parts of a node record (ENR) that discovery reads, and what it      *)
(* makes of them: discovery/discovery.go, matchesForkDigest to             *)
(* hasQUICAddr, and rpc/rpc.go, MakeAttnetsBytes.  A byte is the set of    *)
(* its one bits.  An entry that is absent is a digest nobody has, an empty *)
(* bit vector, or port 0.                                                  *)
(***************************************************************************)
EXTENDS Integers, Sequences

Byte == SUBSET (0 .. 7)

\* What an ENR is known to hold, with digests from the set Digest.
Record(Digest) ==
  [fork : Digest, attnets : Seq(Byte), key : BOOLEAN, ip : BOOLEAN,
   quic : Nat, tcp : Nat]

\* The bit vector of 64 subnets; other subnet IDs are ignored.
MakeAttnetsBytes(ids) ==
  [k \in 1 .. 8 |-> {id % 8 : id \in {x \in ids : x < 64 /\ x \div 8 = k - 1}}]

matchesForkDigest(enr, digest) == enr.fork = digest

\* Mutant: the guard on the length of the bit vector is off by one byte.
OverlapNotInLastByte(enr, ids) ==
  \E id \in ids :
    /\ id < 64 /\ Len(enr.attnets) > id \div 8 + 1
    /\ id % 8 \in enr.attnets[id \div 8 + 1]

hasSubnetOverlap(enr, ids) ==
  \E id \in ids :
    /\ id < 64 /\ Len(enr.attnets) > id \div 8
    /\ id % 8 \in enr.attnets[id \div 8 + 1]

\* enodeToAddrInfo: the addresses built by retrieveMultiAddrsFromNode.  None
\* is what the callers skip, be it an error or a nil AddrInfo.
enodeToAddrInfo(enr) ==
  {t \in {"quic", "tcp"} : enr.key /\ enr.ip /\ enr[t] # 0}

hasQUICAddr(addrs) == "quic" \in addrs

-----------------------------------------------------------------------------
(* Reference definitions.                                                  *)

\* The subnets whose bit is set in a vector of whatever length.
SubnetsIn(attnets) == UNION {{8 * (k - 1) + b : b \in attnets[k]} : k \in DOMAIN attnets}

(***************************************************************************)
(* rpc.go, MakeAttnetsBytes: the vector announces the subnets given to it  *)
(* that are in range, and no other.                                        *)
(***************************************************************************)
AnnouncesExactly(ids) ==
  SubnetsIn(MakeAttnetsBytes(ids)) = {id \in ids : id < 64}

(***************************************************************************)
(* discovery.go, hasSubnetOverlap: an ENR is taken exactly if one of the   *)
(* subnets we want is in range and set in its vector, however short or     *)
(* long the vector is.                                                     *)
(***************************************************************************)
OverlapIsShared(enr, ids) ==
  hasSubnetOverlap(enr, ids) <=> \E id \in ids \cap SubnetsIn(enr.attnets) : id < 64
=============================================================================
