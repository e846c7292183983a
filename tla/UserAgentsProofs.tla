-------------------------- MODULE UserAgentsProofs --------------------------
(***************************************************************************)
(* Proofs about the user agent tracker, for any number of peers, names and *)
(* versions, and any capacity of the subscriptions.                        *)
(*                                                                         *)
(* TypeOK is not inductive on its own: that a count stays within the       *)
(* number of peers, and that counts[old]-- never meets a count of zero,    *)
(* needs CountsMatch; and CountsMatch needs the labels of TypeOK.          *)
(***************************************************************************)
EXTENDS UserAgents, SequenceTheorems, FiniteSetTheorems, TLAPS

\* The peers that are tracked with user agent ua.
Tracked(ua) == {p \in Peer : peers[p] = ua}

IInv == TypeOK /\ CountsMatch

\* Every set of peers has a size.
LEMMA CountPeers ==
  ASSUME NEW S \in SUBSET Peer
  PROVE  IsFiniteSet(S) /\ Cardinality(S) \in Nat /\ Cardinality(S) \in 0 .. Cardinality(Peer)
BY FS_Subset, FS_CardinalityType, UserAgentsAssumption

\* useragent.go, normalizeUserAgent: every user agent string has a label.
LEMMA NormalizeType ==
  ASSUME NEW raw \in AgentVersion
  PROVE  normalizeUserAgent(raw) \in Label
<1>1. CASE raw = Empty
  BY <1>1 DEF normalizeUserAgent, Label
<1>2. CASE raw # Empty /\ raw \in Bare
  BY <1>2 DEF normalizeUserAgent, Label, Bare
<1>3. CASE raw # Empty /\ raw \in Versioned
  BY <1>3 DEF normalizeUserAgent, Label, Versioned
<1> QED BY <1>1, <1>2, <1>3 DEF AgentVersion

\* Taking a peer out leaves every count at the number of the others.
LEMMA Untracked ==
  ASSUME IInv, NEW p \in Peer
  PROVE  /\ Untrack(p).counts \in [Label -> Nat]
         /\ Untrack(p).gauge \in [Label -> Int]
         /\ \A ua \in Label : /\ Untrack(p).counts[ua] = Cardinality(Tracked(ua) \ {p})
                              /\ Untrack(p).gauge[ua] = Cardinality(Tracked(ua) \ {p})
<1>1. /\ counts \in [Label -> Nat] /\ gauge \in [Label -> Int]
      /\ peers \in [Peer -> Label \cup {None}]
  <2>1. Cardinality(Peer) \in Nat
    BY FS_CardinalityType, UserAgentsAssumption
  <2> QED BY <2>1 DEF IInv, TypeOK
<1>2. \A ua \in Label : /\ IsFiniteSet(Tracked(ua)) /\ Cardinality(Tracked(ua)) \in Nat
                        /\ counts[ua] = Cardinality(Tracked(ua)) /\ gauge[ua] = counts[ua]
  <2>1. \A ua \in Label : Tracked(ua) \in SUBSET Peer
    BY DEF Tracked
  <2> QED BY <2>1, CountPeers DEF IInv, CountsMatch, Tracked
<1>3. \A ua \in Label : Cardinality(Tracked(ua) \ {p})
                          = IF p \in Tracked(ua) THEN Cardinality(Tracked(ua)) - 1 ELSE Cardinality(Tracked(ua))
  BY <1>2, FS_RemoveElement
<1>4. CASE peers[p] = None
  <2>1. \A ua \in Label : p \notin Tracked(ua)
    BY <1>4, LabelAssumption DEF Tracked
  <2> QED BY <1>1, <1>2, <1>3, <1>4, <2>1 DEF Untrack
<1>5. CASE peers[p] # None
  <2>1. PICK old \in Label : peers[p] = old
    BY <1>1, <1>5
  <2>2. \A ua \in Label : p \in Tracked(ua) <=> ua = old
    BY <2>1 DEF Tracked
  <2>3. counts[old] >= 1
    <3>1. Tracked(old) # {}
      BY <2>2
    <3> QED BY <1>2, <3>1, FS_EmptySet
  <2>4. /\ Untrack(p).counts = [counts EXCEPT ![old] = counts[old] - 1]
        /\ Untrack(p).gauge = [gauge EXCEPT ![old] = gauge[old] - 1]
    <3>1. (IF counts[old] - 1 <= 0 THEN 0 ELSE counts[old] - 1) = counts[old] - 1
      BY <1>1, <2>3
    <3>2. Decremented(counts, old) = [counts EXCEPT ![old] = counts[old] - 1]
      BY <3>1 DEF Decremented
    <3> QED BY <1>5, <2>1, <3>2 DEF Untrack
  <2>5. Untrack(p).counts \in [Label -> Nat] /\ Untrack(p).gauge \in [Label -> Int]
    BY <1>1, <2>3, <2>4
  <2> QED BY <1>1, <1>2, <1>3, <2>2, <2>4, <2>5
<1> QED BY <1>4, <1>5

\* Counts that match are in range.
LEMMA CountsType ==
  ASSUME counts' \in [Label -> Nat],
         \A ua \in Label : counts'[ua] = Cardinality(Tracked(ua)') /\ gauge'[ua] = counts'[ua]
  PROVE  CountsMatch' /\ counts' \in [Label -> 0 .. Cardinality(Peer)]
<1>1. \A ua \in Label : Tracked(ua)' \in SUBSET Peer
  BY DEF Tracked
<1>2. \A ua \in Label : counts'[ua] \in 0 .. Cardinality(Peer)
  BY <1>1, CountPeers
<1> QED BY <1>2 DEF CountsMatch, Tracked

LEMMA InitInv == Init => IInv
<1> SUFFICES ASSUME Init PROVE IInv
  OBVIOUS
<1>1. \A ua \in Label : Tracked(ua) = {}
  BY LabelAssumption DEF Init, Tracked
<1>2. CountsMatch
  BY <1>1, FS_EmptySet DEF CountsMatch, Tracked, Init
<1>3. Cardinality(Peer) \in Nat
  BY FS_CardinalityType, UserAgentsAssumption
<1>4. /\ counts \in [Label -> 0 .. Cardinality(Peer)] /\ gauge \in [Label -> Int]
      /\ peers \in [Peer -> Label \cup {None}] /\ subscribed \in 0 .. 2
  BY <1>3 DEF Init
<1>5. Len(<<>>) <= EventBuf
  BY EmptySeq, UserAgentsAssumption
<1>6. identQueue = <<>> /\ connQueue = <<>> /\ connected = {}
  BY DEF Init
<1> QED BY <1>2, <1>4, <1>5, <1>6, EmptySeq DEF IInv, TypeOK

LEMMA StepInv == IInv /\ [Next]_vars => IInv'
<1> SUFFICES ASSUME IInv, [Next]_vars PROVE IInv'
  OBVIOUS
<1> DEFINE Ident == [peer : Peer, agent : AgentVersion]
           Conn == [peer : Peer, to : {"Connected", "NotConnected"}]
<1>t. /\ identQueue \in Seq(Ident) /\ Len(identQueue) <= EventBuf
      /\ connQueue \in Seq(Conn) /\ Len(connQueue) <= EventBuf
      /\ subscribed \in 0 .. 2 /\ connected \in SUBSET Peer /\ gauge \in [Label -> Int]
      /\ counts \in [Label -> 0 .. Cardinality(Peer)] /\ peers \in [Peer -> Label \cup {None}]
      /\ EventBuf \in Nat /\ CountsMatch
  BY UserAgentsAssumption DEF IInv, TypeOK
<1> DEFINE QueuesOK == /\ identQueue' \in Seq(Ident) /\ Len(identQueue') <= EventBuf
                       /\ connQueue' \in Seq(Conn) /\ Len(connQueue') <= EventBuf
                       /\ subscribed' \in 0 .. 2 /\ connected' \in SUBSET Peer
<1>same. ASSUME QueuesOK, UNCHANGED <<peers, counts, gauge>> PROVE IInv'
  BY <1>t, <1>same DEF IInv, TypeOK, CountsMatch
<1>1. CASE UNCHANGED vars
  BY <1>1, <1>t, <1>same DEF vars
<1>2. CASE Subscribe
  BY <1>2, <1>t, <1>same DEF Subscribe
<1>3. ASSUME NEW p \in Peer, Connect(p) \/ Disconnect(p) PROVE IInv'
  <2>1. PICK to \in {"Connected", "NotConnected"} : Connectedness(p, to)
    BY <1>3 DEF Connect, Disconnect
  <2>2. [peer |-> p, to |-> to] \in Conn
    OBVIOUS
  <2> HIDE DEF Conn
  <2>3. connQueue' \in Seq(Conn) /\ Len(connQueue') <= EventBuf
    BY <2>1, <2>2, <1>t, AppendProperties, LenProperties DEF Connectedness
  <2>4. UNCHANGED <<peers, counts, gauge, identQueue, subscribed>> /\ connected' \in SUBSET Peer
    BY <1>3, <1>t DEF Connect, Disconnect
  <2> QED BY <1>t, <2>3, <2>4, <1>same
<1>4. ASSUME NEW p \in Peer, NEW raw \in AgentVersion, Identified(p, raw) PROVE IInv'
  <2>1. [peer |-> p, agent |-> raw] \in Ident
    OBVIOUS
  <2> HIDE DEF Ident
  <2>2. identQueue' \in Seq(Ident) /\ Len(identQueue') <= EventBuf
    BY <1>4, <2>1, <1>t, AppendProperties, LenProperties DEF Identified
  <2>3. UNCHANGED <<peers, counts, gauge, connQueue, subscribed, connected>>
    BY <1>4 DEF Identified
  <2> QED BY <1>t, <2>2, <2>3, <1>same
<1>5. CASE HandleIdentify
  <2>1. PICK e \in Ident : e = Head(identQueue)
    BY <1>5, <1>t, HeadTailProperties DEF HandleIdentify
  <2>2. PICK p \in Peer, ua \in Label : p = e.peer /\ ua = normalizeUserAgent(e.agent)
    BY <2>1, NormalizeType
  <2>3. QueuesOK
    <3> HIDE DEF Ident
    <3>1. /\ Tail(identQueue) \in Seq(Ident) /\ Len(Tail(identQueue)) = Len(identQueue) - 1
          /\ Len(identQueue) \in Nat
      BY <1>5, <1>t, HeadTailProperties, LenProperties DEF HandleIdentify
    <3> QED BY <1>5, <1>t, <3>1 DEF HandleIdentify
  <2>4. /\ peers' = [peers EXCEPT ![p] = ua]
        /\ counts' = [Untrack(p).counts EXCEPT ![ua] = @ + 1]
        /\ gauge' = [Untrack(p).gauge EXCEPT ![ua] = @ + 1]
    BY <1>5, <2>1, <2>2 DEF HandleIdentify
  <2>5. ASSUME NEW l \in Label
        PROVE  Cardinality(Tracked(l)') = Cardinality(Tracked(l) \ {p}) + (IF l = ua THEN 1 ELSE 0)
    <3>1. Tracked(l)' = IF l = ua THEN (Tracked(l) \ {p}) \cup {p} ELSE Tracked(l) \ {p}
      BY <2>4, <1>t DEF Tracked
    <3>2. Tracked(l) \ {p} \in SUBSET Peer
      BY DEF Tracked
    <3>3. IsFiniteSet(Tracked(l) \ {p}) /\ Cardinality(Tracked(l) \ {p}) \in Nat
      BY <3>2, CountPeers
    <3>4. Cardinality((Tracked(l) \ {p}) \cup {p}) = Cardinality(Tracked(l) \ {p}) + 1
      <4>1. p \notin Tracked(l) \ {p}
        OBVIOUS
      <4> QED BY <3>3, <4>1, FS_AddElement
    <3> QED BY <3>1, <3>3, <3>4
  <2>6. /\ counts' \in [Label -> Nat] /\ gauge' \in [Label -> Int]
        /\ \A l \in Label : counts'[l] = Cardinality(Tracked(l)') /\ gauge'[l] = counts'[l]
    <3>1. /\ Untrack(p).counts \in [Label -> Nat]
          /\ Untrack(p).gauge \in [Label -> Int]
          /\ \A l \in Label : /\ Untrack(p).counts[l] = Cardinality(Tracked(l) \ {p})
                              /\ Untrack(p).gauge[l] = Cardinality(Tracked(l) \ {p})
      BY Untracked
    <3> DEFINE c == Untrack(p).counts
               g == Untrack(p).gauge
               n(l) == Cardinality(Tracked(l) \ {p})
               m(l) == Cardinality(Tracked(l)')
    <3>2. /\ c \in [Label -> Nat] /\ g \in [Label -> Int]
          /\ \A l \in Label : c[l] = n(l) /\ g[l] = n(l) /\ m(l) = n(l) + (IF l = ua THEN 1 ELSE 0)
          /\ counts' = [c EXCEPT ![ua] = @ + 1] /\ gauge' = [g EXCEPT ![ua] = @ + 1]
      BY <2>4, <2>5, <3>1
    <3> HIDE DEF c, g, n
    <3>3. /\ counts' \in [Label -> Nat] /\ gauge' \in [Label -> Int]
          /\ \A l \in Label : counts'[l] = n(l) + (IF l = ua THEN 1 ELSE 0) /\ gauge'[l] = counts'[l]
      BY <3>2
    <3> QED BY <3>2, <3>3
  <2>7. CountsMatch' /\ counts' \in [Label -> 0 .. Cardinality(Peer)]
    BY <2>6, CountsType
  <2>8. peers' \in [Peer -> Label \cup {None}]
    BY <1>t, <2>4
  <2> QED BY <2>3, <2>6, <2>7, <2>8 DEF IInv, TypeOK
<1>6. CASE HandleConnectedness
  <2>1. PICK e \in Conn : e = Head(connQueue)
    BY <1>6, <1>t, HeadTailProperties DEF HandleConnectedness
  <2>2. QueuesOK
    <3> HIDE DEF Conn
    <3>1. /\ Tail(connQueue) \in Seq(Conn) /\ Len(Tail(connQueue)) = Len(connQueue) - 1
          /\ Len(connQueue) \in Nat
      BY <1>6, <1>t, HeadTailProperties, LenProperties DEF HandleConnectedness
    <3> QED BY <1>6, <1>t, <3>1 DEF HandleConnectedness
  <2>3. CASE e.to # "NotConnected"
    BY <1>6, <2>1, <2>2, <2>3, <1>same DEF HandleConnectedness
  <2>4. CASE e.to = "NotConnected"
    <3>1. PICK p \in Peer : p = e.peer
      BY <2>1
    <3>2. /\ peers' = [peers EXCEPT ![p] = None]
          /\ counts' = Untrack(p).counts /\ gauge' = Untrack(p).gauge
      BY <1>6, <2>1, <2>4, <3>1 DEF HandleConnectedness
    <3>3. \A l \in Label : Tracked(l)' = Tracked(l) \ {p}
      BY <3>2, <1>t, LabelAssumption DEF Tracked
    <3>4. /\ counts' \in [Label -> Nat] /\ gauge' \in [Label -> Int]
          /\ \A l \in Label : counts'[l] = Cardinality(Tracked(l)') /\ gauge'[l] = counts'[l]
      BY <3>2, <3>3, Untracked
    <3>5. CountsMatch' /\ counts' \in [Label -> 0 .. Cardinality(Peer)]
      BY <3>4, CountsType
    <3>6. peers' \in [Peer -> Label \cup {None}]
      BY <1>t, <3>2
    <3> QED BY <2>2, <3>4, <3>5, <3>6 DEF IInv, TypeOK
  <2> QED BY <2>3, <2>4
<1> QED BY <1>1, <1>2, <1>3, <1>4, <1>5, <1>6 DEF Next

\* useragent.go, TrackUserAgents: every variable keeps its type; the labels
\* are normalised and no count exceeds the number of peers.
THEOREM TypeCorrect == Spec => []TypeOK
<1>1. IInv => TypeOK
  BY DEF IInv
<1> QED BY <1>1, InitInv, StepInv, PTL DEF Spec

\* useragent.go, TrackUserAgents: the counts and the gauge are the numbers of
\* tracked peers, in whatever order identifications and disconnections come.
THEOREM CountsMatchHolds == Spec => []CountsMatch
<1>1. IInv => CountsMatch
  BY DEF IInv
<1> QED BY <1>1, InitInv, StepInv, PTL DEF Spec
=============================================================================
