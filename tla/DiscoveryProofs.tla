-------------------------- MODULE DiscoveryProofs --------------------------
(***************************************************************************)
(* Proofs about discovery.go for any number of peers, ENRs, walkers and    *)
(* runs of the process.  TypeOK comes first; each further theorem adds the *)
(* strengthening that makes its property inductive.                        *)
(***************************************************************************)
EXTENDS Discovery, SequenceTheorems, TLAPS

-----------------------------------------------------------------------------
(* Subnet bits: what rpc.go writes into a bit vector and what discovery.go *)
(* reads out of one, for every list of subnets and every vector.           *)

\* The byte and the bit a subnet ID is stored at ...
LEMMA ByteAndBit ==
  ASSUME NEW id \in Nat
  PROVE  /\ id % 8 \in 0 .. 7 /\ id \div 8 \in Nat
         /\ id = 8 * (id \div 8) + (id % 8)
BY SMT

\* ... are its own: no other pair stands for the same ID.
LEMMA OnlyByteAndBit ==
  ASSUME NEW id \in Nat, NEW q \in Int, NEW b \in 0 .. 7, id = 8 * q + b
  PROVE  q = id \div 8 /\ b = id % 8
BY SMT

\* A subnet is in a vector if its byte is there and has its bit.
LEMMA InVector ==
  ASSUME NEW v \in Seq(Byte), NEW id \in Nat
  PROVE  id \in SubnetsIn(v) <=> Len(v) > id \div 8 /\ id % 8 \in v[id \div 8 + 1]
<1>1. ASSUME id \in SubnetsIn(v)
      PROVE  Len(v) > id \div 8 /\ id % 8 \in v[id \div 8 + 1]
  <2>1. PICK k \in DOMAIN v : id \in {8 * (k - 1) + b : b \in v[k]}
    BY <1>1 DEF SubnetsIn
  <2>2. PICK b \in v[k] : id = 8 * (k - 1) + b
    BY <2>1
  <2>3. k \in 1 .. Len(v) /\ v[k] \subseteq 0 .. 7
    BY <2>1 DEF Byte
  <2> DEFINE q == k - 1
  <2>4. q \in Int /\ b \in 0 .. 7 /\ id = 8 * q + b
    BY <2>2, <2>3
  <2> HIDE DEF q
  <2>5. q = id \div 8 /\ b = id % 8
    BY <2>4, OnlyByteAndBit
  <2>6. k - 1 = id \div 8 /\ b = id % 8
    BY <2>5 DEF q
  <2>7. k = id \div 8 + 1 /\ Len(v) \in Nat
    BY <2>3, <2>6, ByteAndBit
  <2>8. id \div 8 < Len(v)
    BY <2>3, <2>7, ByteAndBit
  <2> QED BY <2>2, <2>6, <2>7, <2>8, ByteAndBit
<1>2. ASSUME Len(v) > id \div 8, id % 8 \in v[id \div 8 + 1]
      PROVE  id \in SubnetsIn(v)
  <2> DEFINE k == id \div 8 + 1
  <2>1. k \in DOMAIN v /\ k - 1 = id \div 8
    BY <1>2, ByteAndBit
  <2>2. id \in {8 * (k - 1) + b : b \in v[k]}
    BY <1>2, <2>1, ByteAndBit
  <2> QED BY <2>1, <2>2 DEF SubnetsIn
<1> QED BY <1>1, <1>2

\* What a vector announces are numbers.
LEMMA SubnetsAreNat ==
  ASSUME NEW v \in Seq(Byte)
  PROVE  SubnetsIn(v) \subseteq Nat
<1>1. SUFFICES ASSUME NEW id \in SubnetsIn(v) PROVE id \in Nat
  OBVIOUS
<1>2. PICK k \in DOMAIN v : id \in {8 * (k - 1) + b : b \in v[k]}
  BY DEF SubnetsIn
<1>3. v[k] \subseteq 0 .. 7 /\ k \in 1 .. Len(v)
  BY <1>2 DEF Byte
<1> QED BY <1>2, <1>3

(***************************************************************************)
(* rpc.go, MakeAttnetsBytes: whatever subnets it is given, the vector      *)
(* announces those of them that are in range, and no other.                *)
(***************************************************************************)
THEOREM VectorIsExact ==
  \A ids \in SUBSET Nat : AnnouncesExactly(ids)
<1> SUFFICES ASSUME NEW ids \in SUBSET Nat PROVE AnnouncesExactly(ids)
  OBVIOUS
<1> DEFINE v == MakeAttnetsBytes(ids)
<1>1. v \in Seq(Byte) /\ Len(v) = 8
  <2>1. \A k \in 1 .. 8 : {id % 8 : id \in {x \in ids : x < 64 /\ x \div 8 = k - 1}} \in Byte
    BY ByteAndBit DEF Byte
  <2>2. v = [k \in 1 .. 8 |-> v[k]] /\ \A k \in 1 .. 8 : v[k] \in Byte
    BY <2>1 DEF MakeAttnetsBytes
  <2> HIDE DEF v
  <2>3. v \in [1 .. 8 -> Byte]
    BY <2>2
  <2>4. [1 .. 8 -> Byte] \in {[1 .. n -> Byte] : n \in Nat}
    OBVIOUS
  <2>5. v \in Seq(Byte)
    BY <2>3, <2>4, SeqDef, Zenon
  <2> QED BY <2>3, <2>5
<1>2. ASSUME NEW id \in Nat
      PROVE  id \in SubnetsIn(v) <=> id \in ids /\ id < 64
  <2>1. id \in SubnetsIn(v) <=> 8 > id \div 8 /\ id % 8 \in v[id \div 8 + 1]
    BY <1>1, InVector
  <2>2. 8 > id \div 8 <=> id < 64
    BY ByteAndBit
  <2>3. CASE ~(8 > id \div 8)
    BY <2>1, <2>2, <2>3
  <2>4. CASE 8 > id \div 8
    <3> DEFINE same == {x \in ids : x < 64 /\ x \div 8 = id \div 8}
    <3>1. v[id \div 8 + 1] = {x % 8 : x \in same}
      <4> DEFINE k == id \div 8 + 1
      <4>1. k \in 1 .. 8 /\ k - 1 = id \div 8
        BY <2>4, ByteAndBit
      <4> HIDE DEF k
      <4>2. v[k] = {x % 8 : x \in {y \in ids : y < 64 /\ y \div 8 = k - 1}}
        BY <4>1 DEF MakeAttnetsBytes
      <4> QED BY <4>1, <4>2 DEF k
    <3>2. \A x \in same : x % 8 = id % 8 => x = id
      BY ByteAndBit
    <3>3. id \in ids => id \in same
      BY <2>2, <2>4
    <3> HIDE DEF v
    <3> QED BY <2>1, <2>2, <2>4, <3>1, <3>2, <3>3
  <2> QED BY <2>3, <2>4
<1> QED BY <1>1, <1>2, SubnetsAreNat DEF AnnouncesExactly

(***************************************************************************)
(* discovery.go, hasSubnetOverlap: for every ENR, its vector of any length *)
(* or missing, and whatever subnets we want, a peer is taken exactly if it *)
(* announces one of them.                                                  *)
(***************************************************************************)
THEOREM OverlapIsExact ==
  ASSUME NEW Digest, NEW enr \in Record(Digest), NEW ids \in SUBSET Nat
  PROVE  OverlapIsShared(enr, ids)
<1>1. enr.attnets \in Seq(Byte)
  BY DEF Record
<1>2. \A id \in ids : id \in SubnetsIn(enr.attnets)
        <=> Len(enr.attnets) > id \div 8 /\ id % 8 \in enr.attnets[id \div 8 + 1]
  BY <1>1, InVector
<1> QED BY <1>2 DEF OverlapIsShared, hasSubnetOverlap

(***************************************************************************)
(* rpc.go with discovery.go: two probes take each other's ENRs for useful  *)
(* exactly if they were given a subnet in common that is in range.  What   *)
(* one writes is what the other reads.                                     *)
(***************************************************************************)
THEOREM WriterMeetsReader ==
  ASSUME NEW Digest, NEW enr \in Record(Digest), NEW mine \in SUBSET Nat,
         NEW theirs \in SUBSET Nat, enr.attnets = MakeAttnetsBytes(theirs)
  PROVE  hasSubnetOverlap(enr, mine) <=> \E id \in mine \cap theirs : id < 64
<1>1. SubnetsIn(enr.attnets) = {id \in theirs : id < 64}
  BY VectorIsExact DEF AnnouncesExactly
<1>2. hasSubnetOverlap(enr, mine) <=> \E id \in mine \cap SubnetsIn(enr.attnets) : id < 64
  BY OverlapIsExact DEF OverlapIsShared
<1> QED BY <1>1, <1>2

-----------------------------------------------------------------------------
(* Types.                                                                  *)

\* A peer's ENRs are numbered from 1, and it publishes at least one.
LEMMA VersionsOK ==
  ASSUME NEW p \in Peer
  PROVE  /\ Enrs[p] \in Seq(Record({Enrs[p][k].fork : k \in DOMAIN Enrs[p]}))
         /\ Len(Enrs[p]) \in Nat /\ 1 \in Versions(p) /\ Versions(p) \subseteq Nat
<1>1. /\ Enrs[p] \in Seq(Record({Enrs[p][k].fork : k \in DOMAIN Enrs[p]}))
      /\ Enrs[p] # <<>>
  BY DiscoveryAssumption
<1>2. Len(Enrs[p]) \in Nat \ {0}
  BY <1>1, EmptySeq, Zenon
<1> QED BY <1>1, <1>2 DEF Versions

\* The lines of the file after one was appended.
LEMMA RangeAppend ==
  ASSUME NEW q \in Seq(Line), NEW line \in Line
  PROVE  /\ Append(q, line) \in Seq(Line)
         /\ Range(Append(q, line)) = Range(q) \cup {line}
<1>1. /\ Append(q, line) \in Seq(Line) /\ Len(Append(q, line)) = Len(q) + 1
      /\ \A j \in 1 .. Len(q) : Append(q, line)[j] = q[j]
      /\ Append(q, line)[Len(q) + 1] = line
      /\ Len(q) \in Nat /\ DOMAIN q = 1 .. Len(q)
      /\ DOMAIN Append(q, line) = 1 .. (Len(q) + 1)
  OBVIOUS
<1> QED BY <1>1 DEF Range

-----------------------------------------------------------------------------
(* Types.                                                                  *)

\* The first run starts with empty tables.
LEMMA InitType == Init => TypeOK
<1> SUFFICES ASSUME Init PROVE TypeOK
  OBVIOUS
<1>1. file \in Seq(Line) /\ Range(file) = {}
  BY DEF Init, Range
<1>2. hand \in [Goroutine -> Hand] /\ \A g \in Goroutine : hand[g].pc = "next"
  BY DEF Init, AtRest, Hand, PC
<1>3. /\ {published, stored, pending} \subseteq [Peer -> Nat]
      /\ \A p \in Peer : published[p] \in Versions(p) /\ stored[p] = 0 /\ pending[p] = 0
  <2>1. \A p \in Peer : 1 \in Versions(p)
    BY VersionsOK
  <2>2. published \in [Peer -> Nat] /\ stored \in [Peer -> Nat] /\ pending \in [Peer -> Nat]
    BY DEF Init
  <2>3. \A p \in Peer : published[p] = 1 /\ stored[p] = 0 /\ pending[p] = 0
    BY DEF Init
  <2> QED BY <2>1, <2>2, <2>3
<1>4. run \in 1 .. MaxRun /\ mode \in {"crawl", "probe"} /\ quicOnly \in BOOLEAN
  BY DiscoveryAssumption DEF Init
<1>5. {seen, connected, notify, early} \subseteq SUBSET Peer /\ todo = {}
  BY DEF Init
<1> QED BY <1>1, <1>2, <1>3, <1>4, <1>5 DEF TypeOK

\* Every step of every goroutine, of the network and of the operator.
LEMMA StepType == TypeOK /\ [Next]_vars => TypeOK'
<1> SUFFICES ASSUME TypeOK, [Next]_vars PROVE TypeOK'
  OBVIOUS
<1> USE DEF TypeOK
<1>1. CASE UNCHANGED vars
  BY <1>1 DEF vars, runVars, writerVars, connVars
<1>2. ASSUME NEW w \in Walker, NEW p \in Peer, NEW v \in Versions(p), Discover(w, p, v)
      PROVE  TypeOK'
  BY <1>2, VersionsOK DEF Discover, Goroutine, Hand, PC, runVars, writerVars, connVars
<1>3. ASSUME NEW w \in Walker, CheckHasPeer(w) PROVE TypeOK'
  <2>1. CASE HasPeer(hand[w].peer)
    <3>1. hand' = [hand EXCEPT ![w] = AtRest("next")]
      BY <1>3, <2>1 DEF CheckHasPeer
    <3>2. hand' \in [Goroutine -> Hand] /\ \A g \in Goroutine : hand'[g] = hand[g] \/ hand'[g].pc = "next"
      BY <3>1 DEF AtRest, Goroutine, Hand, PC
    <3> QED BY <1>3, <3>2 DEF CheckHasPeer, runVars, writerVars, connVars
  <2>2. CASE ~HasPeer(hand[w].peer)
    <3>1. hand' = [hand EXCEPT ![w].pc = "register"] /\ hand[w].pc = "hasPeer" /\ w \in Goroutine
      BY <1>3, <2>2 DEF CheckHasPeer, Goto, Goroutine
    <3>2. /\ hand' \in [Goroutine -> Hand]
          /\ \A g \in Goroutine : hand'[g].pc \in {"hasPeer", "register", "route"} =>
               hand'[g].peer \in Peer /\ hand'[g].ver \in Versions(hand'[g].peer)
      BY <3>1 DEF Hand, PC
    <3> QED BY <1>3, <3>2 DEF CheckHasPeer, runVars, writerVars, connVars
  <2> QED BY <2>1, <2>2
<1>4. ASSUME NEW w \in Walker, RegisterENR(w) PROVE TypeOK'
  <2>1. hand' = [hand EXCEPT ![w].pc = "route"] /\ hand[w].pc = "register" /\ w \in Goroutine
    BY <1>4 DEF RegisterENR, Goto, Goroutine
  <2>2. /\ hand' \in [Goroutine -> Hand]
        /\ \A g \in Goroutine : hand'[g].pc \in {"hasPeer", "register", "route"} =>
             hand'[g].peer \in Peer /\ hand'[g].ver \in Versions(hand'[g].peer)
    BY <2>1 DEF Hand, PC
  <2>3. /\ pending' \in [Peer -> Nat]
        /\ \A p \in Peer : pending'[p] \in {0} \cup Versions(p)
    BY <1>4, <2>1 DEF RegisterENR, Registered, Hand
  <2> QED BY <1>4, <2>2, <2>3 DEF RegisterENR, runVars, connVars
<1>5. ASSUME NEW g \in Goroutine, Route(g) PROVE TypeOK'
  BY <1>5 DEF Route, AfterRoute, AtRest, Goroutine, Hand, PC, runVars, writerVars, connVars
<1>6. CASE BootOpen
  <2>1. \A line \in Range(file) : line \in Line /\ line.ver \in Versions(line.peer)
    BY DEF Range
  <2>2. todo' \subseteq [peer : Peer, ver : Nat] /\ \A line \in todo' : line.ver \in Versions(line.peer)
    BY <1>6, <2>1 DEF BootOpen, Line
  <2>3. /\ hand' \in [Goroutine -> Hand]
        /\ \A g \in Goroutine : hand'[g] = hand[g] \/ hand'[g].pc = "read"
    BY <1>6 DEF BootOpen, AtRest, Goroutine, Hand, PC
  <2> QED BY <1>6, <2>2, <2>3 DEF BootOpen, runVars, writerVars, connVars
<1>7. CASE BootEnd
  BY <1>7 DEF BootEnd, Goto, Goroutine, Hand, PC, runVars, writerVars, connVars
<1>8. ASSUME NEW line \in todo, NEW v \in Versions(line.peer), BootLine(line, v) PROVE TypeOK'
  BY <1>8, VersionsOK DEF BootLine, LinesLeft, Goroutine, Hand, PC, runVars, writerVars, connVars
<1>9. ASSUME NEW p \in Peer, Publish(p) PROVE TypeOK'
  BY <1>9, VersionsOK DEF Publish, Versions, runVars, writerVars, connVars
<1>10. ASSUME NEW p \in Peer, ConnectionUp(p) PROVE TypeOK'
  BY <1>10 DEF ConnectionUp, runVars, writerVars
<1>11. ASSUME NEW p \in Peer, ConnectionDown(p) PROVE TypeOK'
  BY <1>11 DEF ConnectionDown, runVars, writerVars
<1>12. ASSUME NEW p \in Peer, WriteConnected(p) PROVE TypeOK'
  <2>1. CASE ShouldWrite(p)
    <3> DEFINE line == [peer |-> p, ver |-> pending[p], run |-> run]
    <3>1. line \in Line /\ line.ver \in Versions(line.peer)
      BY <2>1 DEF ShouldWrite, Line
    <3>2. file' = Append(file, line)
      BY <1>12, <2>1 DEF WriteConnected
    <3>3. file' \in Seq(Line) /\ Range(file') = Range(file) \cup {line}
      BY <3>1, <3>2, RangeAppend
    <3> QED BY <1>12, <2>1, <3>1, <3>3 DEF WriteConnected, runVars
  <2>2. CASE ~ShouldWrite(p)
    BY <1>12, <2>2 DEF WriteConnected, runVars
  <2> QED BY <2>1, <2>2
<1>13. CASE Restart
  BY <1>13, DiscoveryAssumption DEF Restart, StartRun, AtRest, Hand, PC, Line
<1> QED BY <1>1, <1>2, <1>3, <1>4, <1>5, <1>6, <1>7, <1>8, <1>9, <1>10, <1>11, <1>12, <1>13
        DEF Next, BootStep, Goroutine

(***************************************************************************)
(* discovery.go: no variable leaves its type, and no goroutine, table or   *)
(* file refers to an ENR that its peer has not published.                  *)
(***************************************************************************)
THEOREM TypeCorrect == Spec => []TypeOK
<1>1. Init => TypeOK
  BY InitType
<1>2. TypeOK /\ [Next]_vars => TypeOK'
  BY StepType
<1> QED BY <1>1, <1>2, PTL DEF Spec

-----------------------------------------------------------------------------
(* The crawl file.                                                         *)

\* Only WriteConnected writes, and only a new run forgets what was written.
LEMMA WhoWrites ==
  [Next]_vars => \/ UNCHANGED <<file, run, seen>>
                 \/ \E p \in Peer : WriteConnected(p)
                 \/ Restart
<1> SUFFICES ASSUME [Next]_vars, ~(\E p \in Peer : WriteConnected(p)), ~Restart
             PROVE  UNCHANGED <<file, run, seen>>
  OBVIOUS
<1> QED BY DEF Next, vars, runVars, writerVars, connVars, BootStep, BootOpen, BootEnd, BootLine,
               Discover, CheckHasPeer, RegisterENR, Route, Publish, ConnectionUp, ConnectionDown

\* No line is from the future, and those of this run are the peers in seen.
WrittenIsSeen ==
  \A k \in DOMAIN file : file[k].run <= run /\ (file[k].run = run => file[k].peer \in seen)

(***************************************************************************)
(* discovery.go, crawlFileWriter: for any number of walkers and runs, no   *)
(* peer is written twice in a run.                                         *)
(***************************************************************************)
THEOREM NoDuplicates == Spec => []NoDuplicateInRun
<1> DEFINE IInv == WrittenIsSeen /\ NoDuplicateInRun
<1>1. Init => IInv
  BY DEF Init, WrittenIsSeen, NoDuplicateInRun
<1>2. TypeOK /\ IInv /\ [Next]_vars => IInv'
  <2> SUFFICES ASSUME TypeOK, IInv, [Next]_vars PROVE IInv'
    OBVIOUS
  <2>1. file \in Seq(Line) /\ Len(file) \in Nat /\ DOMAIN file = 1 .. Len(file) /\ run \in Nat
        /\ \A k \in DOMAIN file : file[k] \in Line
    BY DEF TypeOK
  <2>2. CASE UNCHANGED <<file, run, seen>>
    BY <2>2 DEF WrittenIsSeen, NoDuplicateInRun
  <2>3. ASSUME NEW p \in Peer, WriteConnected(p) PROVE IInv'
    <3>1. run' = run
      BY <2>3 DEF WriteConnected, runVars
    <3>2. CASE ~ShouldWrite(p)
      BY <2>2, <2>3, <3>1, <3>2 DEF WriteConnected
    <3>3. CASE ShouldWrite(p)
      <4> DEFINE line == [peer |-> p, ver |-> pending[p], run |-> run]
      <4>1. file' = Append(file, line) /\ seen' = seen \cup {p} /\ p \notin seen
        BY <2>3, <3>3 DEF WriteConnected, ShouldWrite
      <4>2. line \in Line
        BY DEF Line, TypeOK
      <4>3. /\ DOMAIN file' = 1 .. (Len(file) + 1)
            /\ \A k \in 1 .. Len(file) : file'[k] = file[k]
            /\ file'[Len(file) + 1] = line
        BY <2>1, <4>1, <4>2
      <4>4. \A k \in DOMAIN file : ~(file[k].peer = p /\ file[k].run = run)
        BY <4>1 DEF WrittenIsSeen
      <4>5. WrittenIsSeen'
        BY <2>1, <3>1, <4>1, <4>3 DEF WrittenIsSeen
      <4>6. NoDuplicateInRun'
        BY <2>1, <4>3, <4>4 DEF NoDuplicateInRun
      <4> QED BY <4>5, <4>6
    <3> QED BY <3>2, <3>3
  <2>4. CASE Restart
    <3>1. UNCHANGED file /\ run' = run + 1
      BY <2>4 DEF Restart
    <3>2. \A k \in DOMAIN file : file[k].run < run'
      BY <2>1, <3>1 DEF WrittenIsSeen, Line
    <3> QED BY <2>1, <3>1, <3>2 DEF WrittenIsSeen, NoDuplicateInRun, Line
  <2> QED BY <2>2, <2>3, <2>4, WhoWrites
<1> QED BY <1>1, <1>2, TypeCorrect, PTL DEF Spec

-----------------------------------------------------------------------------
(* What the crawl file writer knows.                                       *)

\* A walker that asked HasPeer starts over, or registers what it has at hand.
LEMMA AfterHasPeer ==
  ASSUME TypeOK, NEW w \in Walker, CheckHasPeer(w)
  PROVE  /\ hand[w].pc = "hasPeer"
         /\ \A g \in Goroutine : g # w => hand'[g] = hand[g]
         /\ \/ hand'[w].pc = "next"
            \/ hand'[w].pc = "register" /\ hand'[w].peer = hand[w].peer /\ hand'[w].ver = hand[w].ver
<1>1. hand \in [Goroutine -> Hand] /\ w \in Goroutine
  BY DEF TypeOK, Goroutine
<1>2. CASE HasPeer(hand[w].peer)
  <2>1. hand' = [hand EXCEPT ![w] = AtRest("next")]
    BY <1>2 DEF CheckHasPeer
  <2> QED BY <1>1, <2>1 DEF CheckHasPeer, AtRest
<1>3. CASE ~HasPeer(hand[w].peer)
  <2>1. hand' = [hand EXCEPT ![w].pc = "register"]
    BY <1>3 DEF CheckHasPeer, Goto
  <2> QED BY <1>1, <2>1 DEF CheckHasPeer, Hand
<1> QED BY <1>2, <1>3

\* In crawl mode there is no bootstrap loop, and a walker routes what it has
\* registered; in probe mode nothing is registered and nobody is notified.
ModeInv ==
  /\ mode = "crawl" =>
       /\ hand[Boot].pc = "next"
       /\ \A w \in Walker : hand[w].pc = "route" => HasPeer(hand[w].peer)
  /\ mode = "probe" =>
       /\ notify = {}
       /\ \A p \in Peer : pending[p] = 0
       /\ \A w \in Walker : hand[w].pc \notin {"hasPeer", "register"}

\* In crawl mode every connected peer was seen by the notifee, or will be.
NotifeeInv == mode = "crawl" => connected \subseteq notify \cup early \cup seen

KnownInv == ModeInv /\ NotifeeInv /\ RoutedIsKnown

\* Nothing is routed, registered or connected yet.
LEMMA InitKnown == Init => KnownInv
BY DEF Init, AtRest, Goroutine, KnownInv, ModeInv, NotifeeInv, RoutedIsKnown

\* HasPeer(p) stays true in a run: what leaves pending is in seen.
LEMMA StepKnown == TypeOK /\ KnownInv /\ [Next]_vars => KnownInv'
<1> SUFFICES ASSUME TypeOK, KnownInv, [Next]_vars PROVE KnownInv'
  OBVIOUS
<1> USE DiscoveryAssumption
    DEF TypeOK, KnownInv, ModeInv, NotifeeInv, RoutedIsKnown, HasPeer, Goroutine
<1>1. CASE UNCHANGED vars
  BY <1>1 DEF vars, runVars, writerVars, connVars
<1>2. ASSUME NEW w \in Walker, NEW p \in Peer, NEW v \in Versions(p), Discover(w, p, v)
      PROVE  KnownInv'
  BY <1>2 DEF Discover, runVars, writerVars, connVars
<1>3. ASSUME NEW w \in Walker, CheckHasPeer(w) PROVE KnownInv'
  <2>1. /\ hand[w].pc = "hasPeer" /\ hand'[w].pc \in {"next", "register"}
        /\ \A g \in Goroutine : g # w => hand'[g] = hand[g]
    BY <1>3, AfterHasPeer
  <2>2. mode' = "crawl"
    BY <1>3, <2>1 DEF CheckHasPeer, runVars
  <2> QED BY <1>3, <2>1, <2>2 DEF CheckHasPeer, runVars, writerVars, connVars
<1>4. ASSUME NEW w \in Walker, RegisterENR(w) PROVE KnownInv'
  BY <1>4 DEF RegisterENR, Registered, Goto, Versions, runVars, connVars
<1>5. ASSUME NEW g \in Goroutine, Route(g) PROVE KnownInv'
  BY <1>5 DEF Route, AfterRoute, AtRest, runVars, writerVars, connVars
<1>6. CASE BootOpen
  BY <1>6 DEF BootOpen, AtRest, runVars, writerVars, connVars
<1>7. CASE BootEnd
  BY <1>7 DEF BootEnd, Goto, runVars, writerVars, connVars
<1>8. ASSUME NEW line \in todo, NEW v \in Versions(line.peer), BootLine(line, v) PROVE KnownInv'
  BY <1>8 DEF BootLine, runVars, writerVars, connVars
<1>9. ASSUME NEW p \in Peer, Publish(p) PROVE KnownInv'
  BY <1>9 DEF Publish, runVars, writerVars, connVars
<1>10. ASSUME NEW p \in Peer, ConnectionUp(p) PROVE KnownInv'
  BY <1>10 DEF ConnectionUp, runVars, writerVars
<1>11. ASSUME NEW p \in Peer, ConnectionDown(p) PROVE KnownInv'
  BY <1>11 DEF ConnectionDown, runVars, writerVars
<1>12. ASSUME NEW p \in Peer, WriteConnected(p) PROVE KnownInv'
  BY <1>12 DEF WriteConnected, ShouldWrite, runVars
<1>13. CASE Restart
  BY <1>13 DEF Restart, StartRun, AtRest
<1> QED BY <1>1, <1>2, <1>3, <1>4, <1>5, <1>6, <1>7, <1>8, <1>9, <1>10, <1>11, <1>12, <1>13
        DEF Next, BootStep

\* The two, combined.
LEMMA KnownInvariant == Spec => []KnownInv
<1>1. Init => KnownInv
  BY InitKnown
<1>2. TypeOK /\ KnownInv /\ [Next]_vars => KnownInv'
  BY StepKnown
<1> QED BY <1>1, <1>2, TypeCorrect, PTL DEF Spec

(***************************************************************************)
(* discovery.go, "register the ENR before sending to PeerManager": with    *)
(* any number of walkers the writer knows every peer that was routed.      *)
(***************************************************************************)
THEOREM RoutedKnown == Spec => []RoutedIsKnown
<1>1. KnownInv => RoutedIsKnown
  BY DEF KnownInv
<1> QED BY <1>1, KnownInvariant, PTL

(***************************************************************************)
(* discovery.go, WriteConnected: a registered peer that is connected is    *)
(* written or about to be, unless it connected before it was registered.   *)
(***************************************************************************)
THEOREM ConnectedWritten == Spec => []ConnectedIsWritten
<1>1. TypeOK /\ KnownInv => ConnectedIsWritten
  BY DEF TypeOK, KnownInv, ModeInv, NotifeeInv, ConnectedIsWritten
<1> QED BY <1>1, KnownInvariant, TypeCorrect, PTL

-----------------------------------------------------------------------------
(* Filters.                                                                *)

\* What a goroutine has at hand has passed the filters of its mode.
HandPasses ==
  \A g \in Goroutine : hand[g].pc \in {"hasPeer", "register", "route"} =>
    WalkerKeeps(Enrs[hand[g].peer][hand[g].ver])

KeptInv == HandPasses /\ KeptPassesFilters

Busy == {g \in Goroutine : hand[g].pc \in {"hasPeer", "register", "route"}}

\* A step keeps KeptInv if what it stores comes from a goroutine's hand.
LEMMA KeptFrame ==
  ASSUME TypeOK, KeptInv, UNCHANGED <<mode, quicOnly>>, Range(file') = Range(file),
         \A g \in Busy' : g \in Busy /\ hand'[g].peer = hand[g].peer /\ hand'[g].ver = hand[g].ver,
         \A p \in Peer : \A v \in {stored'[p], pending'[p]} \ {0, stored[p], pending[p]} :
           \E g \in Busy : hand[g].peer = p /\ hand[g].ver = v
  PROVE  KeptInv'
<1>1. HandPasses'
  BY DEF KeptInv, HandPasses, WalkerKeeps, Busy
<1>2. \A p \in Peer : \A v \in {stored'[p], pending'[p]} \ {0} : WalkerKeeps(Enrs[p][v])
  BY DEF KeptInv, HandPasses, KeptPassesFilters, Busy
<1>3. KeptPassesFilters'
  BY <1>2 DEF KeptInv, KeptPassesFilters, WalkerKeeps
<1> QED BY <1>1, <1>3 DEF KeptInv

\* An ENR gets into a hand through the filters, and from there to a table.
LEMMA StepKept == TypeOK /\ KeptInv /\ [Next]_vars => KeptInv'
<1> SUFFICES ASSUME TypeOK, KeptInv, [Next]_vars PROVE KeptInv'
  OBVIOUS
<1>0. UNCHANGED file => Range(file') = Range(file)
  BY DEF Range
<1>1. CASE UNCHANGED vars
  BY <1>0, <1>1, KeptFrame DEF Busy, vars, runVars, writerVars, connVars
<1>2. ASSUME NEW w \in Walker, NEW p \in Peer, NEW v \in Versions(p), Discover(w, p, v)
      PROVE  KeptInv'
  BY <1>2 DEF TypeOK, KeptInv, HandPasses, KeptPassesFilters, WalkerKeeps, Goroutine,
    Discover, runVars, writerVars, connVars
<1>3. ASSUME NEW w \in Walker, CheckHasPeer(w) PROVE KeptInv'
  BY <1>0, <1>3, AfterHasPeer, KeptFrame
     DEF Busy, Goroutine, CheckHasPeer, runVars, writerVars, connVars
<1>4. ASSUME NEW w \in Walker, RegisterENR(w) PROVE KeptInv'
  BY <1>0, <1>4, KeptFrame DEF Busy, Goroutine, TypeOK, Hand, RegisterENR, Registered, Goto, runVars, connVars
<1>5. ASSUME NEW g \in Goroutine, Route(g) PROVE KeptInv'
  BY <1>0, <1>5, KeptFrame DEF Busy, Goroutine, TypeOK, Hand, Route, AfterRoute, AtRest, runVars, writerVars, connVars
<1>6. CASE BootOpen
  BY <1>0, <1>6, KeptFrame DEF Busy, Goroutine, TypeOK, Hand, BootOpen, AtRest, runVars, writerVars, connVars
<1>7. CASE BootEnd
  BY <1>0, <1>7, KeptFrame DEF Busy, Goroutine, TypeOK, Hand, BootEnd, Goto, runVars, writerVars, connVars
<1>8. ASSUME NEW line \in todo, NEW v \in Versions(line.peer), BootLine(line, v) PROVE KeptInv'
  BY <1>8 DEF TypeOK, KeptInv, HandPasses, KeptPassesFilters, WalkerKeeps, Goroutine,
    BootLine, KeepsLine, BootKeeps, runVars, writerVars, connVars
<1>9. ASSUME NEW p \in Peer, Publish(p) \/ ConnectionUp(p) \/ ConnectionDown(p) PROVE KeptInv'
  BY <1>0, <1>9, KeptFrame DEF Busy, Goroutine, TypeOK, Hand, Publish, ConnectionUp, ConnectionDown, runVars, writerVars, connVars
<1>10. ASSUME NEW p \in Peer, WriteConnected(p) PROVE KeptInv'
  <2>1. CASE ShouldWrite(p)
    <3> DEFINE line == [peer |-> p, ver |-> pending[p], run |-> run]
    <3>1. line \in Line /\ pending[p] # 0
      BY <2>1 DEF TypeOK, Line, ShouldWrite
    <3>2. Range(file') = Range(file) \cup {line}
      BY <1>10, <2>1, <3>1, RangeAppend DEF TypeOK, WriteConnected
    <3>3. WalkerKeeps(Enrs[p][pending[p]])
      BY <3>1 DEF KeptInv, KeptPassesFilters
    <3>4. HandPasses'
      BY <1>10 DEF WriteConnected, KeptInv, HandPasses, WalkerKeeps, runVars
    <3>5. \A q \in Peer : stored'[q] = stored[q] /\ pending'[q] \in {0, pending[q]}
      BY <1>10 DEF WriteConnected, TypeOK
    <3>6. \A l \in Range(file') : /\ matchesForkDigest(Enrs[l.peer][l.ver], ForkDigest)
                                  /\ enodeToAddrInfo(Enrs[l.peer][l.ver]) # {}
      BY <3>2, <3>3 DEF KeptInv, KeptPassesFilters, WalkerKeeps
    <3>7. UNCHANGED <<mode, quicOnly>>
      BY <1>10 DEF WriteConnected, runVars
    <3> QED BY <3>4, <3>5, <3>6, <3>7 DEF KeptInv, KeptPassesFilters, WalkerKeeps
  <2>2. CASE ~ShouldWrite(p)
    BY <1>0, <1>10, <2>2, KeptFrame DEF Busy, TypeOK, WriteConnected, runVars
  <2> QED BY <2>1, <2>2
<1>11. CASE Restart
  BY <1>0, <1>11 DEF TypeOK, KeptInv, HandPasses, KeptPassesFilters, WalkerKeeps, Goroutine,
    Restart, StartRun, AtRest
<1> QED BY <1>1, <1>2, <1>3, <1>4, <1>5, <1>6, <1>7, <1>8, <1>9, <1>10, <1>11
        DEF Next, BootStep, Goroutine

(***************************************************************************)
(* discovery.go, discoverPeers and RouteBootstrapPeers: for all ENRs, fork *)
(* digests and subnets, what is kept of a peer is from one ENR that passed *)
(* every filter of the mode, however often the peer changes its ENR.       *)
(***************************************************************************)
THEOREM KeptPasses == Spec => []KeptPassesFilters
<1>1. Init => KeptInv
  <2> SUFFICES ASSUME Init PROVE KeptInv
    OBVIOUS
  <2>1. Range(file) = {}
    BY DEF Init, Range
  <2> QED BY <2>1 DEF Init, AtRest, KeptInv, HandPasses, KeptPassesFilters
<1>2. TypeOK /\ KeptInv /\ [Next]_vars => KeptInv'
  BY StepKept
<1>3. KeptInv => KeptPassesFilters
  BY DEF KeptInv
<1> QED BY <1>1, <1>2, <1>3, TypeCorrect, PTL DEF Spec

(***************************************************************************)
(* rpc.go and discovery.go: for every set of subnets and all ENRs, we      *)
(* announce what we want and take who announces it.                        *)
(***************************************************************************)
THEOREM AttnetsAlwaysAgree == Spec => []AttnetsAgree
<1>1. TypeOK => AttnetsAgree
  <2> SUFFICES ASSUME TypeOK, NEW ids \in SUBSET Subnets
               PROVE  AnnouncesExactly(ids) /\ \A p \in Peer : OverlapIsShared(Enrs[p][published[p]], ids)
    BY DEF AttnetsAgree
  <2>1. ids \in SUBSET Nat
    BY DiscoveryAssumption
  <2>2. ASSUME NEW p \in Peer PROVE OverlapIsShared(Enrs[p][published[p]], ids)
    <3> DEFINE Digest == {Enrs[p][k].fork : k \in DOMAIN Enrs[p]}
    <3>1. Enrs[p] \in Seq(Record(Digest)) /\ published[p] \in 1 .. Len(Enrs[p])
      BY VersionsOK DEF TypeOK, Versions
    <3> HIDE DEF Digest
    <3>2. Enrs[p][published[p]] \in Record(Digest)
      BY <3>1
    <3> QED BY <2>1, <3>2, OverlapIsExact
  <2> QED BY <2>1, <2>2, VectorIsExact
<1> QED BY <1>1, TypeCorrect, PTL
=============================================================================
