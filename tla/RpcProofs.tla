----------------------------- MODULE RpcProofs -----------------------------
(***************************************************************************)
(* Proofs about the request/response streams, for any number of streams    *)
(* and any clock.                                                          *)
(***************************************************************************)
EXTENDS Rpc, SequenceTheorems, TLAPS

-----------------------------------------------------------------------------
(* Scripts.                                                                *)

MessageType == SSZ \cup Code \cup {"eof"}
Op == [do : {"read", "write"}, type : MessageType]

\* A script is not empty, and fits the range of pc.
ScriptOK(s) == s \in Seq(Op) /\ Len(s) \in 1 .. 5

LEMMA ScriptLen == ASSUME NEW s, ScriptOK(s) PROVE Len(s) >= 1
BY DEF ScriptOK

\* A sequence of messages to read, or to write.
LEMMA AllOps ==
  ASSUME NEW ts \in Seq(MessageType)
  PROVE  /\ ReadsAll(ts) \in Seq(Op) /\ Len(ReadsAll(ts)) = Len(ts)
         /\ WritesAll(ts) \in Seq(Op) /\ Len(WritesAll(ts)) = Len(ts)
         /\ \A k \in 1 .. Len(ts) : ReadsAll(ts)[k] = Reads(ts[k]) /\ WritesAll(ts)[k] = Writes(ts[k])
<1>1. Len(ts) \in Nat /\ \A k \in 1 .. Len(ts) : ts[k] \in MessageType
  BY LenProperties
<1>2. \A t \in MessageType : Reads(t) \in Op /\ Writes(t) \in Op
  BY DEF Reads, Writes, Op
<1>3. ReadsAll(ts) \in [1 .. Len(ts) -> Op] /\ WritesAll(ts) \in [1 .. Len(ts) -> Op]
  BY <1>1, <1>2 DEF ReadsAll, WritesAll
<1>4. [1 .. Len(ts) -> Op] \in {[1 .. n -> Op] : n \in Nat}
  BY <1>1
<1>5. ReadsAll(ts) \in Seq(Op) /\ WritesAll(ts) \in Seq(Op)
  BY <1>3, <1>4, SeqDef, Zenon
<1> HIDE DEF Op
<1>6. Len(ReadsAll(ts)) = Len(ts) /\ Len(WritesAll(ts)) = Len(ts)
  BY <1>1, <1>3, <1>5, LenProperties
<1> QED BY <1>1, <1>5, <1>6 DEF ReadsAll, WritesAll

\* One sequence of operations after another.
LEMMA ConcatOps ==
  ASSUME NEW a \in Seq(Op), NEW b \in Seq(Op), NEW i, NEW j, Len(a) = i, Len(b) = j
  PROVE  /\ a \o b \in Seq(Op) /\ Len(a \o b) = i + j
         /\ \A k \in 1 .. i + j : (a \o b)[k] = IF k <= i THEN a[k] ELSE b[k - i]
BY ConcatProperties

\* Requests have at most one part, responses at most two.
LEMMA PartsType ==
  ASSUME NEW p \in Protocol
  PROVE  /\ Request(p) \in Seq(MessageType) /\ Len(Request(p)) \in 0 .. 1
         /\ Response(p) \in Seq(MessageType) /\ Len(Response(p)) \in 0 .. 2
         /\ Len(Request(p)) + Len(Response(p)) >= 1
<1>1. CASE p = "status1"
  BY <1>1 DEF Request, Response, MessageType, SSZ, Code, StatusProtocol
<1>2. CASE p = "status2"
  BY <1>2 DEF Request, Response, MessageType, SSZ, Code, StatusProtocol
<1>3. CASE p = "ping"
  BY <1>3 DEF Request, Response, MessageType, SSZ, Code
<1>4. CASE p = "goodbye"
  BY <1>4 DEF Request, Response, MessageType, SSZ, Code
<1>5. CASE p = "metadata1"
  BY <1>5 DEF Request, Response, MessageType, SSZ, Code
<1>6. CASE p = "metadata2"
  BY <1>6 DEF Request, Response, MessageType, SSZ, Code
<1>7. CASE p = "metadata3"
  BY <1>7 DEF Request, Response, MessageType, SSZ, Code
<1> QED BY <1>1, <1>2, <1>3, <1>4, <1>5, <1>6, <1>7 DEF Protocol, StatusProtocol

\* The order in which a peer asks: the request and its end, then the answer.
LEMMA AskScript ==
  ASSUME NEW kind \in Kind, kind.dir = "in"
  PROVE  LET p == kind.proto
             n == Len(Request(p))
             answer == Append(Response(p), "eof")
         IN  /\ ScriptOK(PeerScript(kind)) /\ Len(PeerScript(kind)) = n + 2 + Len(Response(p))
             /\ \A k \in 1 .. n : PeerScript(kind)[k] = Writes(Request(p)[k])
             /\ PeerScript(kind)[n + 1] = Writes("eof")
             /\ \A k \in 1 .. Len(Response(p)) + 1 : PeerScript(kind)[n + 1 + k] = Reads(answer[k])
<1> DEFINE p == kind.proto
           q == Append(Request(p), "eof")
           r == Append(Response(p), "eof")
           n == Len(Request(p))
           m == Len(Response(p))
<1>0. p \in Protocol
  BY DEF Kind
<1>1. "eof" \in MessageType
  BY DEF MessageType
<1>2. /\ q \in Seq(MessageType) /\ Len(q) = n + 1 /\ (\A k \in 1 .. n : q[k] = Request(p)[k]) /\ q[n + 1] = "eof"
      /\ r \in Seq(MessageType) /\ Len(r) = m + 1
      /\ n \in 0 .. 1 /\ m \in 0 .. 2
  BY <1>0, <1>1, PartsType, AppendProperties
<1>3. PeerScript(kind) = WritesAll(q) \o ReadsAll(r)
  BY DEF PeerScript
<1> HIDE DEF q, r, n, m
<1>4. /\ WritesAll(q) \in Seq(Op) /\ Len(WritesAll(q)) = n + 1
      /\ \A k \in 1 .. n + 1 : WritesAll(q)[k] = Writes(q[k])
      /\ ReadsAll(r) \in Seq(Op) /\ Len(ReadsAll(r)) = m + 1
      /\ \A k \in 1 .. m + 1 : ReadsAll(r)[k] = Reads(r[k])
  BY <1>2, AllOps
<1>5. /\ PeerScript(kind) \in Seq(Op) /\ Len(PeerScript(kind)) = (n + 1) + (m + 1)
      /\ \A k \in 1 .. (n + 1) + (m + 1) :
           PeerScript(kind)[k] = IF k <= n + 1 THEN WritesAll(q)[k] ELSE ReadsAll(r)[k - (n + 1)]
  BY <1>3, <1>4, ConcatOps
<1>6. \A k \in 1 .. n + 1 : PeerScript(kind)[k] = Writes(q[k])
  BY <1>2, <1>4, <1>5
<1>7. \A k \in 1 .. m + 1 : PeerScript(kind)[n + 1 + k] = Reads(r[k])
  BY <1>2, <1>4, <1>5
<1>8. Len(PeerScript(kind)) \in 1 .. 5 /\ Len(PeerScript(kind)) = n + 2 + m
  BY <1>2, <1>5
<1>9. \A k \in 1 .. n : PeerScript(kind)[k] = Writes(Request(p)[k])
  BY <1>2, <1>6
<1>10. PeerScript(kind)[n + 1] = Writes("eof")
  BY <1>2, <1>6
<1> QED BY <1>5, <1>7, <1>8, <1>9, <1>10 DEF ScriptOK, n, m, r

\* The order in which a peer answers.
LEMMA AnswerScript ==
  ASSUME NEW kind \in Kind, kind.dir = "out"
  PROVE  LET p == kind.proto
             n == Len(Request(p))
         IN  /\ ScriptOK(PeerScript(kind)) /\ Len(PeerScript(kind)) = n + Len(Response(p))
             /\ \A k \in 1 .. n : PeerScript(kind)[k] = Reads(Request(p)[k])
             /\ \A k \in 1 .. Len(Response(p)) : PeerScript(kind)[n + k] = Writes(Response(p)[k])
<1> DEFINE p == kind.proto
           q == Request(p)
           r == Response(p)
           n == Len(q)
           m == Len(r)
<1>0. p \in Protocol
  BY DEF Kind
<1>1. q \in Seq(MessageType) /\ r \in Seq(MessageType) /\ n \in 0 .. 1 /\ m \in 0 .. 2 /\ n + m >= 1
  BY <1>0, PartsType
<1>2. PeerScript(kind) = ReadsAll(q) \o WritesAll(r)
  BY DEF PeerScript
<1> HIDE DEF q, r
<1>3. /\ ReadsAll(q) \in Seq(Op) /\ Len(ReadsAll(q)) = n
      /\ \A k \in 1 .. n : ReadsAll(q)[k] = Reads(q[k])
      /\ WritesAll(r) \in Seq(Op) /\ Len(WritesAll(r)) = m
      /\ \A k \in 1 .. m : WritesAll(r)[k] = Writes(r[k])
  BY <1>1, AllOps
<1> HIDE DEF n, m
<1>4. /\ PeerScript(kind) \in Seq(Op) /\ Len(PeerScript(kind)) = n + m
      /\ \A k \in 1 .. n + m :
           PeerScript(kind)[k] = IF k <= n THEN ReadsAll(q)[k] ELSE WritesAll(r)[k - n]
  BY <1>2, <1>3, ConcatOps
<1>5. \A k \in 1 .. n : PeerScript(kind)[k] = Reads(q[k])
  BY <1>1, <1>3, <1>4
<1>6. \A k \in 1 .. m : PeerScript(kind)[n + k] = Writes(r[k])
  <2> SUFFICES ASSUME NEW k \in 1 .. m PROVE PeerScript(kind)[n + k] = Writes(r[k])
    OBVIOUS
  <2>0. n \in Nat /\ m \in Nat
    BY <1>1
  <2>1. n + k \in 1 .. n + m /\ ~(n + k <= n) /\ (n + k) - n = k
    BY <2>0
  <2>2. PeerScript(kind)[n + k] = WritesAll(r)[(n + k) - n]
    BY <2>1, <1>4, Zenon
  <2> QED BY <2>1, <2>2, <1>3
<1>7. Len(PeerScript(kind)) \in 1 .. 5
  BY <1>1, <1>4
<1> QED BY <1>4, <1>5, <1>6, <1>7 DEF ScriptOK, n, m, q, r

\* The scripts of rpc.go.
LEMMA OurScriptOK == ASSUME NEW kind PROVE ScriptOK(OurScript(kind))
<1> USE DEF ScriptOK, Op, MessageType, SSZ, Code, Reads, Writes
<1>1. ScriptOK(sendStatus)
  BY DEF sendStatus
<1>2. ScriptOK(handleStatus)
  BY DEF handleStatus
<1>3. ScriptOK(handlePing)
  BY DEF handlePing
<1>4. ScriptOK(handleGoodbye)
  BY DEF handleGoodbye
<1>5. \A p : ScriptOK(handleMetadata(p))
  BY DEF handleMetadata, Metadata
<1> QED BY <1>1, <1>2, <1>3, <1>4, <1>5 DEF OurScript

LEMMA PeerScriptOK == ASSUME NEW kind \in Kind PROVE ScriptOK(PeerScript(kind))
<1>1. kind.dir \in {"in", "out"}
  BY DEF Kind
<1> QED BY <1>1, AskScript, AnswerScript

-----------------------------------------------------------------------------
(* Types.                                                                  *)

\* An end that is not open yet has done nothing, and one that is has not
\* run off its script.
ScriptInv ==
  \A x \in Stream :
    /\ our[x].at \in {"idle", "opening"} => our[x].pc = 1 /\ their[x] = Start
    /\ our[x].at = "open" => our[x].pc <= Len(OurScript(stream[x]))
    /\ their[x].at = "open" => their[x].pc <= Len(PeerScript(stream[x]))

TypeInv == TypeOK /\ ScriptInv

\* What we put into a message, and the end of file.
LEMMA MsgType ==
  ASSUME TypeOK, NEW t \in MessageType
  PROVE  Msg(t) \in Message /\ Msg(t).type = t /\ Msg(t).head \in 0 .. now
<1>1. now \in Nat /\ now <= LastSlot /\ LastSlot <= Modulus - 1 /\ LastSlot \in Nat /\ Modulus \in Nat
  BY RpcAssumption DEF TypeOK
<1>2. headSlot \in 0 .. now /\ 0 \in 0 .. now /\ 0 .. now \subseteq 0 .. Modulus - 1
  BY <1>1 DEF headSlot
<1> QED BY <1>2 DEF Msg, Message, MessageType

\* An end that only changes place.
LEMMA Placed ==
  ASSUME NEW f \in [Stream -> End], NEW x \in Stream, NEW v \in Place
  PROVE  /\ [f EXCEPT ![x].at = v] \in [Stream -> End]
         /\ [f EXCEPT ![x].at = v][x].at = v
         /\ [f EXCEPT ![x].at = v][x].pc = f[x].pc
         /\ \A y \in Stream \ {x} : [f EXCEPT ![x].at = v][y] = f[y]
<1>1. f[x] \in End
  OBVIOUS
<1>2. [f[x] EXCEPT !.at = v] \in End
  BY <1>1 DEF End
<1>3. [f[x] EXCEPT !.at = v].at = v /\ [f[x] EXCEPT !.at = v].pc = f[x].pc
  BY <1>1 DEF End
<1> QED BY <1>2, <1>3

\* One operation of either end.
LEMMA OpType ==
  ASSUME TypeOK, NEW e \in End, NEW s, ScriptOK(s), e.pc <= Len(s),
         NEW r \in Seq(Message), NEW w \in Seq(Message), Goes(e, s, r)
  PROVE  /\ Moved(e, s) \in End
         /\ Moved(e, s).pc = e.pc + 1
         /\ Moved(e, s).at = IF e.pc = Len(s) THEN "done" ELSE "open"
         /\ Moved(e, s).at = "open" => Moved(e, s).pc <= Len(s)
         /\ s[e.pc] \in Op /\ e.pc \in 1 .. Len(s)
         /\ Unread(e, s, r) \in Seq(Message)
         /\ Written(e, s, w) \in Seq(Message)
         /\ \A f : Closed(f, Written(e, s, w)) \in Seq(Message)
<1>1. e.pc \in 1 .. 6 /\ Len(s) \in 1 .. 5 /\ s \in Seq(Op) /\ e.pc \in 1 .. Len(s)
  BY DEF End, ScriptOK
<1>2. s[e.pc] \in Op
  BY <1>1, ElementOfSeq
<1>3. /\ Moved(e, s) \in End /\ Moved(e, s).pc = e.pc + 1
      /\ Moved(e, s).at = IF e.pc = Len(s) THEN "done" ELSE "open"
      /\ Moved(e, s).at = "open" => Moved(e, s).pc <= Len(s)
  <2> DEFINE a == IF e.pc = Len(s) THEN "done" ELSE "open"
  <2>1. Moved(e, s) = [at |-> a, pc |-> e.pc + 1]
    BY DEF Moved
  <2>2. a \in Place /\ (a = "open" => e.pc + 1 <= Len(s)) /\ e.pc + 1 \in 1 .. 6
    <3>1. a \in Place
      BY DEF Place
    <3>2. e.pc + 1 \in 1 .. 6 /\ (e.pc # Len(s) => e.pc + 1 <= Len(s))
      <4> DEFINE i == e.pc
                 l == Len(s)
      <4> HIDE DEF i, l
      <4>1. i \in 1 .. l /\ l \in 1 .. 5
        BY <1>1 DEF i, l
      <4>2. i + 1 \in 1 .. 6 /\ (i # l => i + 1 <= l)
        BY <4>1
      <4> QED BY <4>2 DEF i, l
    <3> QED BY <3>1, <3>2
  <2> HIDE DEF a
  <2>3. [at |-> a, pc |-> e.pc + 1] \in End
    BY <2>2 DEF End
  <2>4. Moved(e, s).at = a /\ Moved(e, s).pc = e.pc + 1
    BY <2>1
  <2> QED BY <2>1, <2>2, <2>3, <2>4 DEF a
<1>4. Unread(e, s, r) \in Seq(Message)
  <2>1. s[e.pc].do = "read" => r # <<>>
    BY DEF Goes
  <2> QED BY <2>1, HeadTailProperties DEF Unread
<1>5. Msg(s[e.pc].type) \in Message
  BY <1>2, MsgType DEF Op
<1>6. Written(e, s, w) \in Seq(Message)
  BY <1>5, AppendProperties DEF Written
<1>7. Msg("eof") \in Message
  BY MsgType DEF MessageType
<1>8. \A f : Closed(f, Written(e, s, w)) \in Seq(Message)
  BY <1>6, <1>7, AppendProperties DEF Closed
<1> QED BY <1>1, <1>2, <1>3, <1>4, <1>6, <1>8

LEMMA InitType == Init => TypeInv
<1> SUFFICES ASSUME Init PROVE TypeInv
  OBVIOUS
<1>1. Start \in End /\ Unopened \in Kind
  BY DEF Start, End, Place, Unopened, Kind, Protocol
<1>2. 0 \in 0 .. LastSlot
  BY RpcAssumption
<1>3. TypeOK
  BY <1>1, <1>2, EmptySeq DEF Init, TypeOK
<1>4. ScriptInv
  BY DEF Init, ScriptInv, Start
<1> QED BY <1>3, <1>4 DEF TypeInv

LEMMA StepType == TypeInv /\ [Next]_vars => TypeInv'
<1> SUFFICES ASSUME TypeInv, [Next]_vars PROVE TypeInv'
  OBVIOUS
<1>t. /\ TypeOK /\ ScriptInv /\ now \in 0 .. LastSlot /\ stream \in [Stream -> Kind]
      /\ our \in [Stream -> End] /\ their \in [Stream -> End]
      /\ toUs \in [Stream -> Seq(Message)] /\ toPeer \in [Stream -> Seq(Message)]
  BY DEF TypeInv, TypeOK
<1>same. ASSUME UNCHANGED <<stream, our, their>> PROVE ScriptInv'
  BY <1>same, <1>t DEF ScriptInv
<1>1. CASE UNCHANGED vars
  BY <1>1, <1>t, <1>same DEF vars, TypeInv, TypeOK
<1>2. CASE SlotPasses
  <2>1. now' \in 0 .. LastSlot
    BY <1>2, <1>t, RpcAssumption DEF SlotPasses
  <2> QED BY <1>2, <2>1, <1>t, <1>same DEF SlotPasses, TypeInv, TypeOK
<1>3. ASSUME NEW x \in Stream, Expire(x) \/ Break(x) PROVE TypeInv'
  BY <1>3, <1>t, <1>same DEF Expire, Break, TypeInv, TypeOK
<1>4. ASSUME NEW x \in Stream, Accept(x) PROVE TypeInv'
  <2>1. PICK p \in Protocol, b \in BOOLEAN :
          stream' = [stream EXCEPT ![x] = [dir |-> "in", proto |-> p, supports |-> {}, honest |-> b]]
    BY <1>4 DEF Accept
  <2>2. stream' \in [Stream -> Kind]
    BY <2>1, <1>t DEF Kind
  <2>3. our' \in [Stream -> End] /\ their' \in [Stream -> End]
    <3>1. /\ [our EXCEPT ![x].at = "open"] \in [Stream -> End]
          /\ [their EXCEPT ![x].at = "open"] \in [Stream -> End]
      <4>1. "open" \in Place
        BY DEF Place
      <4> QED BY <4>1, <1>t, Placed
    <3>2. our' = [our EXCEPT ![x].at = "open"] /\ their' = [their EXCEPT ![x].at = "open"]
      BY <1>4 DEF Accept
    <3> QED BY <3>1, <3>2, Zenon
  <2>4. TypeOK'
    BY <1>4, <2>2, <2>3, <1>t DEF Accept, TypeOK
  <2>5. our[x].pc = 1 /\ their[x].pc = 1
    BY <1>4, <1>t DEF Accept, ScriptInv, Start
  <2>6. our'[x].pc = 1 /\ our'[x].at = "open" /\ their'[x].pc = 1
    BY <1>4, <2>5, <1>t DEF Accept, End
  <2>7. \A y \in Stream \ {x} : our'[y] = our[y] /\ their'[y] = their[y] /\ stream'[y] = stream[y]
    BY <1>4, <2>1, <1>t DEF Accept
  <2>8. Len(OurScript(stream'[x])) >= 1 /\ Len(PeerScript(stream'[x])) >= 1
    <3>1. stream'[x] \in Kind
      BY <2>2
    <3>2. ScriptOK(OurScript(stream'[x]))
      BY OurScriptOK
    <3>3. ScriptOK(PeerScript(stream'[x]))
      BY <3>1, PeerScriptOK
    <3> QED BY <3>2, <3>3, ScriptLen
  <2> QED BY <2>4, <2>6, <2>7, <2>8, <1>t DEF TypeInv, ScriptInv
<1>5. ASSUME NEW x \in Stream, ConnectedF(x) PROVE TypeInv'
  <2>1. PICK s \in SUBSET StatusProtocol, b \in BOOLEAN :
          stream' = [stream EXCEPT ![x] = [dir |-> "out", proto |-> "status2", supports |-> s, honest |-> b]]
    BY <1>5 DEF ConnectedF
  <2>2. stream' \in [Stream -> Kind]
    BY <2>1, <1>t DEF Kind, Protocol, StatusProtocol
  <2>3. our' \in [Stream -> End]
    <3>1. [our EXCEPT ![x].at = "opening"] \in [Stream -> End]
      <4>1. "opening" \in Place
        BY DEF Place
      <4> QED BY <4>1, <1>t, Placed
    <3>2. our' = [our EXCEPT ![x].at = "opening"]
      BY <1>5 DEF ConnectedF
    <3> QED BY <3>1, <3>2, Zenon
  <2>4. TypeOK'
    BY <1>5, <2>2, <2>3, <1>t DEF ConnectedF, TypeOK
  <2>5. our'[x].pc = 1 /\ our'[x].at = "opening" /\ their'[x] = Start
    BY <1>5, <1>t, Placed DEF ConnectedF, ScriptInv, Place
  <2>6. \A y \in Stream \ {x} : our'[y] = our[y] /\ their'[y] = their[y] /\ stream'[y] = stream[y]
    BY <1>5, <2>1, <1>t DEF ConnectedF
  <2>7. ScriptInv'
    <3> SUFFICES ASSUME NEW y \in Stream
                 PROVE  /\ our'[y].at \in {"idle", "opening"} => our'[y].pc = 1 /\ their'[y] = Start
                        /\ our'[y].at = "open" => our'[y].pc <= Len(OurScript(stream'[y]))
                        /\ their'[y].at = "open" => their'[y].pc <= Len(PeerScript(stream'[y]))
      BY DEF ScriptInv
    <3>1. CASE y = x
      BY <3>1, <2>5 DEF Start
    <3>2. CASE y # x
      BY <3>2, <2>6, <1>t DEF ScriptInv
    <3> QED BY <3>1, <3>2
  <2> QED BY <2>4, <2>7 DEF TypeInv
<1>6. ASSUME NEW x \in Stream, NewStream(x) PROVE TypeInv'
  <2>1. Preferred(stream[x].supports) \in StatusProtocol
    BY DEF Preferred, StatusProtocol
  <2>2. stream' \in [Stream -> Kind]
    BY <1>6, <2>1, <1>t DEF NewStream, Kind, Protocol
  <2>3. our' \in [Stream -> End] /\ their' \in [Stream -> End]
    BY <1>6, <1>t DEF NewStream, End, Place
  <2>4. TypeOK'
    BY <1>6, <2>2, <2>3, <1>t DEF NewStream, TypeOK
  <2>5. our[x].pc = 1 /\ their[x].pc = 1
    BY <1>6, <1>t DEF NewStream, ScriptInv, Start
  <2>6. our'[x].pc = 1 /\ our'[x].at = "open" /\ their'[x].pc = 1
    BY <1>6, <2>5, <1>t DEF NewStream, End
  <2>7. \A y \in Stream \ {x} : our'[y] = our[y] /\ their'[y] = their[y] /\ stream'[y] = stream[y]
    BY <1>6, <1>t DEF NewStream
  <2>8. Len(OurScript(stream'[x])) >= 1 /\ Len(PeerScript(stream'[x])) >= 1
    <3>1. stream'[x] \in Kind
      BY <2>2
    <3>2. ScriptOK(OurScript(stream'[x]))
      BY OurScriptOK
    <3>3. ScriptOK(PeerScript(stream'[x]))
      BY <3>1, PeerScriptOK
    <3> QED BY <3>2, <3>3, ScriptLen
  <2> QED BY <2>4, <2>6, <2>7, <2>8, <1>t DEF TypeInv, ScriptInv
<1>7. ASSUME NEW x \in Stream, NewStreamFails(x) PROVE TypeInv'
  <2>1. TypeOK'
    BY <1>7, <1>t DEF NewStreamFails, TypeOK, End, Place
  <2>2. /\ our'[x].at = "failed" /\ \A y \in Stream \ {x} : our'[y] = our[y]
        /\ UNCHANGED <<stream, their>>
    BY <1>7, <1>t DEF NewStreamFails, End
  <2> QED BY <2>1, <2>2, <1>t DEF TypeInv, ScriptInv
<1>8. ASSUME NEW x \in Stream, OurStep(x) PROVE TypeInv'
  <2> DEFINE s == OurScript(stream[x])
             e1 == Moved(our[x], s)
             w == Closed(e1, Written(our[x], s, toPeer[x]))
  <2>1. /\ our[x].at = "open" /\ Goes(our[x], s, toUs[x]) /\ our[x].pc <= Len(s) /\ ScriptOK(s)
    BY <1>8, <1>t, OurScriptOK DEF OurStep, ScriptInv
  <2>2. /\ e1 \in End /\ e1.at \in {"open", "done"} /\ (e1.at = "open" => e1.pc <= Len(s))
        /\ Unread(our[x], s, toUs[x]) \in Seq(Message) /\ w \in Seq(Message)
    <3> HIDE DEF s
    <3>1. our[x] \in End /\ toUs[x] \in Seq(Message) /\ toPeer[x] \in Seq(Message)
      BY <1>t
    <3> QED BY <2>1, <3>1, <1>t, OpType
  <2>3. /\ our' = [our EXCEPT ![x] = e1]
        /\ toUs' = [toUs EXCEPT ![x] = Unread(our[x], s, toUs[x])]
        /\ toPeer' = [toPeer EXCEPT ![x] = w]
        /\ UNCHANGED <<now, stream, their, late, broken>>
    BY <1>8 DEF OurStep
  <2> HIDE DEF s, e1, w
  <2>4. TypeOK'
    BY <2>2, <2>3, <1>t DEF TypeOK
  <2>5. our'[x] = e1 /\ \A y \in Stream \ {x} : our'[y] = our[y]
    BY <2>3, <1>t
  <2>6. ScriptInv'
    BY <2>2, <2>3, <2>5, <1>t DEF ScriptInv, s
  <2> QED BY <2>4, <2>6 DEF TypeInv
<1>9. ASSUME NEW x \in Stream, OurReturn(x) PROVE TypeInv'
  <2>1. Append(toPeer[x], Msg("eof")) \in Seq(Message)
    BY <1>t, MsgType, AppendProperties DEF MessageType
  <2>2. TypeOK'
    BY <1>9, <2>1, <1>t DEF OurReturn, TypeOK, End, Place
  <2>3. /\ our'[x].at = "failed" /\ \A y \in Stream \ {x} : our'[y] = our[y]
        /\ UNCHANGED <<stream, their>>
    BY <1>9, <1>t DEF OurReturn, End
  <2> QED BY <2>2, <2>3, <1>t DEF TypeInv, ScriptInv
<1>10. ASSUME NEW x \in Stream, PeerStep(x) PROVE TypeInv'
  <2> DEFINE s == PeerScript(stream[x])
             e1 == Moved(their[x], s)
             w == Closed(e1, Written(their[x], s, toUs[x]))
  <2>1. /\ their[x].at = "open" /\ Goes(their[x], s, toPeer[x]) /\ their[x].pc <= Len(s) /\ ScriptOK(s)
    BY <1>10, <1>t, PeerScriptOK DEF PeerStep, ScriptInv
  <2>2. /\ e1 \in End /\ e1.at \in {"open", "done"} /\ (e1.at = "open" => e1.pc <= Len(s))
        /\ Unread(their[x], s, toPeer[x]) \in Seq(Message) /\ w \in Seq(Message)
    <3> HIDE DEF s
    <3>1. their[x] \in End /\ toUs[x] \in Seq(Message) /\ toPeer[x] \in Seq(Message)
      BY <1>t
    <3> QED BY <2>1, <3>1, <1>t, OpType
  <2>3. /\ their' = [their EXCEPT ![x] = e1]
        /\ toPeer' = [toPeer EXCEPT ![x] = Unread(their[x], s, toPeer[x])]
        /\ toUs' = [toUs EXCEPT ![x] = w]
        /\ UNCHANGED <<now, stream, our, late, broken>>
    BY <1>10 DEF PeerStep
  <2> HIDE DEF s, e1, w
  <2>4. TypeOK'
    BY <2>2, <2>3, <1>t DEF TypeOK
  <2>5. their'[x] = e1 /\ \A y \in Stream \ {x} : their'[y] = their[y]
    BY <2>3, <1>t
  <2>6. our[x].at \notin {"idle", "opening"}
    BY <2>1, <1>t DEF ScriptInv, Start
  <2>7. ScriptInv'
    BY <2>2, <2>3, <2>5, <2>6, <1>t DEF ScriptInv, s
  <2> QED BY <2>4, <2>7 DEF TypeInv
<1>11. ASSUME NEW x \in Stream, PeerReturn(x) PROVE TypeInv'
  <2>1. Msg("eof") \in Message /\ Msg("error") \in Message
    BY <1>t, MsgType DEF MessageType, Code
  <2>2. toUs'[x] \in Seq(Message) /\ \A y \in Stream \ {x} : toUs'[y] = toUs[y]
    <3> DEFINE q == IF stream[x].dir = "out" THEN Append(toUs[x], Msg("error")) ELSE toUs[x]
    <3>1. q \in Seq(Message) /\ <<Msg("eof")>> \in Seq(Message)
      BY <2>1, <1>t, AppendProperties
    <3>2. toUs' = [toUs EXCEPT ![x] = q \o <<Msg("eof")>>]
      BY <1>11 DEF PeerReturn
    <3> HIDE DEF q
    <3> QED BY <3>1, <3>2, <1>t, ConcatProperties
  <2>3. toUs' \in [Stream -> Seq(Message)]
    BY <1>11, <2>2, <1>t DEF PeerReturn
  <2>4. TypeOK'
    BY <1>11, <2>3, <1>t DEF PeerReturn, TypeOK, End, Place
  <2>5. /\ their'[x].at = "failed" /\ \A y \in Stream \ {x} : their'[y] = their[y]
        /\ UNCHANGED <<stream, our>>
    BY <1>11, <1>t DEF PeerReturn, End
  <2>6. our[x].at \notin {"idle", "opening"}
    BY <1>11, <1>t DEF PeerReturn, ScriptInv, Start
  <2> QED BY <2>4, <2>5, <2>6, <1>t DEF TypeInv, ScriptInv
<1>12. ASSUME NEW x \in Stream, PeerSends(x) PROVE TypeInv'
  <2>1. \A t \in MessageType : <<Msg(t)>> \in Seq(Message)
    BY <1>t, MsgType
  <2>2. toUs' \in [Stream -> Seq(Message)]
    BY <1>12, <2>1, <1>t DEF PeerSends, MessageType
  <2> QED BY <1>12, <2>2, <1>t, <1>same DEF PeerSends, TypeInv, TypeOK
<1> QED BY <1>1, <1>2, <1>3, <1>4, <1>5, <1>6, <1>7, <1>8, <1>9, <1>10, <1>11, <1>12
        DEF Next, OurAction

\* rpc.go: every variable keeps its type, and no handler runs past its end.
THEOREM TypeCorrect == Spec => []TypeOK
<1>1. TypeInv => TypeOK
  BY DEF TypeInv
<1> QED BY <1>1, InitType, StepType, PTL DEF Spec

-----------------------------------------------------------------------------
(* The head slot of our status.                                            *)

HeadInv == TypeInv /\ HeadNotAhead

\* Every message of a queue claims a slot that has begun.
Begun(q) == \A k \in 1 .. Len(q) : q[k].head \in 0 .. now

LEMMA BegunAppend ==
  ASSUME TypeOK, NEW q \in Seq(Message), Begun(q), NEW t \in MessageType
  PROVE  Begun(Append(q, Msg(t)))
<1>1. Msg(t) \in Message /\ Msg(t).head \in 0 .. now
  BY MsgType
<1> DEFINE m == Msg(t)
<1> HIDE DEF m
<1>2. m \in Message /\ m.head \in 0 .. now
  BY <1>1 DEF m
<1>3. Begun(Append(q, m))
  BY <1>2 DEF Begun
<1> QED BY <1>3 DEF m

LEMMA StepHead == HeadInv /\ [Next]_vars => HeadInv'
<1> SUFFICES ASSUME HeadInv, [Next]_vars PROVE HeadInv'
  OBVIOUS
<1>t. /\ TypeInv /\ TypeInv' /\ TypeOK /\ ScriptInv /\ now \in Nat
      /\ toPeer \in [Stream -> Seq(Message)] /\ stream \in [Stream -> Kind]
      /\ our \in [Stream -> End] /\ their \in [Stream -> End]
      /\ \A y \in Stream : Begun(toPeer[y])
  BY StepType, RpcAssumption DEF HeadInv, TypeInv, TypeOK, HeadNotAhead, Begun
<1>goal. SUFFICES HeadNotAhead'
  BY <1>t DEF HeadInv
<1>later. now' \in Nat /\ now' >= now
  BY <1>t DEF Next, SlotPasses, vars, Accept, ConnectedF, OurAction, NewStream, NewStreamFails, OurStep,
       OurReturn, Expire, Break, PeerStep, PeerReturn, PeerSends
<1>one. ASSUME NEW x \in Stream, NEW q, Begun(q), toPeer' = [toPeer EXCEPT ![x] = q]
        PROVE  HeadNotAhead'
  <2>1. \A y \in Stream : toPeer'[y] = IF y = x THEN q ELSE toPeer[y]
    BY <1>one, <1>t
  <2>2. \A y \in Stream : Begun(toPeer'[y])
    BY <2>1, <1>one, <1>t
  <2> QED BY <2>2, <1>later, <1>t DEF HeadNotAhead, Begun
<1>same. ASSUME UNCHANGED toPeer PROVE HeadNotAhead'
  BY <1>same, <1>later, <1>t DEF HeadNotAhead, Begun
<1>eof. "eof" \in MessageType
  BY DEF MessageType
<1>1. ASSUME NEW x \in Stream, OurStep(x) PROVE HeadNotAhead'
  <2> DEFINE s == OurScript(stream[x])
             w == Written(our[x], s, toPeer[x])
             q == Closed(Moved(our[x], s), w)
  <2>1. s[our[x].pc] \in Op /\ w \in Seq(Message)
    <3>1. /\ our[x].at = "open" /\ Goes(our[x], s, toUs[x]) /\ our[x].pc <= Len(s) /\ ScriptOK(s)
          /\ our[x] \in End /\ toUs[x] \in Seq(Message) /\ toPeer[x] \in Seq(Message)
      BY <1>1, <1>t, OurScriptOK DEF OurStep, ScriptInv, TypeOK
    <3> HIDE DEF s
    <3> QED BY <3>1, <1>t, OpType
  <2>2. toPeer' = [toPeer EXCEPT ![x] = q]
    BY <1>1 DEF OurStep
  <2> HIDE DEF s
  <2>3. Begun(w)
    BY <2>1, <1>t, BegunAppend DEF Written, Op
  <2> HIDE DEF w
  <2>4. Begun(q)
    BY <2>1, <2>3, <1>t, <1>eof, BegunAppend DEF Closed
  <2> HIDE DEF q
  <2> QED BY <2>2, <2>4, <1>one
<1>2. ASSUME NEW x \in Stream, OurReturn(x) PROVE HeadNotAhead'
  <2>1. Begun(Append(toPeer[x], Msg("eof")))
    BY <1>t, <1>eof, BegunAppend
  <2> QED BY <1>2, <2>1, <1>one DEF OurReturn
<1>3. ASSUME NEW x \in Stream, PeerStep(x) PROVE HeadNotAhead'
  <2> DEFINE q == Unread(their[x], PeerScript(stream[x]), toPeer[x])
  <2>1. q = toPeer[x] \/ (q = Tail(toPeer[x]) /\ toPeer[x] # <<>>)
    BY <1>3 DEF PeerStep, Unread, Goes
  <2>2. Begun(q)
    <3>1. CASE q = toPeer[x]
      BY <3>1, <1>t
    <3>2. CASE q = Tail(toPeer[x]) /\ toPeer[x] # <<>>
      <4>1. Begun(Tail(toPeer[x]))
        BY <3>2, <1>t, HeadTailProperties, LenProperties DEF Begun
      <4> QED BY <3>2, <4>1
    <3> QED BY <2>1, <3>1, <3>2
  <2>3. toPeer' = [toPeer EXCEPT ![x] = q]
    BY <1>3 DEF PeerStep
  <2> HIDE DEF q
  <2> QED BY <2>2, <2>3, <1>one
<1>4. ASSUME NEW x \in Stream,
             \/ Accept(x) \/ ConnectedF(x) \/ NewStream(x) \/ NewStreamFails(x)
             \/ Expire(x) \/ Break(x) \/ PeerReturn(x) \/ PeerSends(x)
      PROVE  HeadNotAhead'
  BY <1>4, <1>same DEF Accept, ConnectedF, NewStream, NewStreamFails, Expire, Break, PeerReturn, PeerSends
<1>5. CASE SlotPasses \/ UNCHANGED vars
  BY <1>5, <1>same DEF SlotPasses, vars
<1> QED BY <1>1, <1>2, <1>3, <1>4, <1>5 DEF Next, OurAction

\* rpc.go, MakeStatusProvider: a status that is on its way never claims a
\* head slot that has not begun, from slot 0 on and however long it takes.
THEOREM HeadNotAheadHolds == Spec => []HeadNotAhead
<1>1. Init => HeadInv
  <2>1. Init => HeadNotAhead
    BY EmptySeq DEF Init, HeadNotAhead
  <2> QED BY <2>1, InitType DEF HeadInv
<1>2. HeadInv => HeadNotAhead
  BY DEF HeadInv
<1> QED BY <1>1, <1>2, StepHead, PTL DEF Spec


-----------------------------------------------------------------------------
(* What the two ends have said to each other.                              *)

(***************************************************************************)
(* A request of n parts (0 or 1) of type q, answered by m parts; A is what *)
(* the answering end sends, its end of file included.  The asking end a    *)
(* stops after it has read l parts of A.                                   *)
(***************************************************************************)
Parts(n, m, l, A) ==
  /\ n \in 0 .. 1 /\ m \in 0 .. 2 /\ l \in {m, m + 1} /\ n + m >= 1
  /\ A \in Seq(MessageType) /\ Len(A) = m + 1 /\ A[m + 1] = "eof"

Asks(s, n, l, q, A) ==
  /\ Len(s) = n + 1 + l
  /\ \A k \in 1 .. n : s[k] = Writes(q)
  /\ s[n + 1] = Writes("eof")
  /\ \A k \in 1 .. l : s[n + 1 + k] = Reads(A[k])

Answers(s, n, m, q, A) ==
  /\ Len(s) = n + m
  /\ \A k \in 1 .. n : s[k] = Reads(q)
  /\ \A k \in 1 .. m : s[n + k] = Writes(A[k])

\* How much of A the asking end has read, and the answering end has sent.
Got(a, n) == IF a.pc <= n + 1 THEN 0 ELSE a.pc - n - 2
Said(b, n) == (IF b.pc <= n THEN 0 ELSE b.pc - n - 1) + (IF b.at = "done" THEN 1 ELSE 0)

(***************************************************************************)
(* Neither end has failed.  The answering end waits for the request, and   *)
(* what arrives first is the request; what is on its way back continues A  *)
(* where the asking end has stopped reading.                               *)
(***************************************************************************)
Dialogue(a, b, aq, bq, n, m, l, q, A) ==
  /\ a.at \in {"open", "done"} /\ (a.at = "done" <=> a.pc = n + l + 2) /\ a.pc <= n + l + 2
  /\ b.at \in {"open", "done"} /\ (b.at = "done" <=> b.pc = n + m + 1) /\ b.pc <= n + m + 1
  /\ b.pc <= n => IF a.pc <= n THEN aq = <<>> ELSE aq # <<>> /\ Head(aq).type = q
  /\ Got(a, n) + Len(bq) = Said(b, n)
  /\ \A k \in 1 .. Len(bq) : bq[k].type = A[Got(a, n) + k]

(***************************************************************************)
(* A request of type t that the answering end does not decode: it reads    *)
(* nothing, and sends at most an error and its end of file.                *)
(***************************************************************************)
Deaf(a, b, aq, bq, t) ==
  /\ a.at # "done" /\ a.pc <= 3
  /\ b.at # "done" /\ b.pc = 1
  /\ \A k \in 1 .. Len(aq) : aq[k].type \in {t, "eof"}
  /\ \A k \in 1 .. Len(bq) : bq[k].type \in {"error", "eof"}

Asked(p) == Request(p)[1]
Answer(p) == Append(Response(p), "eof")

\* The ends o (ours) and e (the peer's) of a stream of kind k; u is on its
\* way to us and w to the peer.
TalkIn(k, o, e, u, w) ==
  IF k.proto = "status1"
  THEN Deaf(e, o, u, w, "StatusV1")
  ELSE Dialogue(e, o, u, w, Len(Request(k.proto)), Len(Response(k.proto)), Len(Response(k.proto)) + 1,
                Asked(k.proto), Answer(k.proto))

TalkOut(k, o, e, u, w) ==
  IF k.supports = {} THEN o.at = "failed"
  ELSE /\ k.proto = Preferred(k.supports)
       /\ IF k.proto = "status1"
          THEN Deaf(o, e, w, u, "StatusV2")
          ELSE Dialogue(o, e, w, u, 1, 2, 2, "StatusV2", Answer("status2"))

Talk(k, o, e, u, w) == IF k.dir = "in" THEN TalkIn(k, o, e, u, w) ELSE TalkOut(k, o, e, u, w)

\* Nothing is sent before the stream is open.
Quiet(k, o, u, w) ==
  /\ o.at \in {"idle", "opening"} => u = <<>> /\ w = <<>>
  /\ o.at = "opening" => k.dir = "out"

TalkInv ==
  \A x \in Stream :
    /\ Quiet(stream[x], our[x], toUs[x], toPeer[x])
    /\ Undisturbed(x) /\ our[x].at \notin {"idle", "opening"}
         => Talk(stream[x], our[x], their[x], toUs[x], toPeer[x])

\* A message that arrives last does not change which one is first.
LEMMA HeadStays ==
  ASSUME NEW q \in Seq(Message), q # <<>>, NEW c \in Message
  PROVE  Append(q, c) # <<>> /\ Head(Append(q, c)) = Head(q)
BY AppendProperties, HeadTailProperties, LenProperties

\* Nothing has been said yet.
LEMMA DialogueStarts ==
  ASSUME NEW n, NEW m, NEW l, NEW q, NEW A, Parts(n, m, l, A),
         NEW a \in End, NEW b \in End, a.at = "open", b.at = "open", a.pc = 1, b.pc = 1
  PROVE  Dialogue(a, b, <<>>, <<>>, n, m, l, q, A)
<1>1. n \in 0 .. 1 /\ m \in 0 .. 2 /\ l \in {m, m + 1} /\ n + m >= 1
  BY DEF Parts
<1>2. Got(a, n) = 0 /\ Said(b, n) = 0
  BY <1>1 DEF Got, Said
<1>3. 1 < n + l + 2 /\ 1 < n + m + 1
  BY <1>1
<1> QED BY <1>1, <1>2, <1>3 DEF Dialogue

\* The asking end reads or writes its next part.
LEMMA AskerStep ==
  ASSUME TypeOK, NEW n, NEW m, NEW l, NEW q, n = 1 => q \in MessageType, NEW A, Parts(n, m, l, A),
         NEW s, ScriptOK(s), Asks(s, n, l, q, A),
         NEW a \in End, NEW b \in End, NEW aq \in Seq(Message), NEW bq \in Seq(Message),
         Dialogue(a, b, aq, bq, n, m, l, q, A), a.at = "open", Goes(a, s, bq)
  PROVE  Dialogue(Moved(a, s), b, Closed(Moved(a, s), Written(a, s, aq)), Unread(a, s, bq),
                  n, m, l, q, A)
<1>n. n \in 0 .. 1 /\ m \in 0 .. 2 /\ l \in {m, m + 1} /\ l \in 0 .. 3 /\ a.pc \in 1 .. 6 /\ b.pc \in 1 .. 6
  BY DEF Parts, End
<1>pc. a.pc < n + l + 2 /\ a.pc <= Len(s) /\ Len(s) = n + 1 + l
  <2>1. a.pc <= n + l + 2 /\ a.pc # n + l + 2
    BY DEF Dialogue
  <2>2. Len(s) = n + 1 + l
    BY DEF Asks
  <2> QED BY <2>1, <2>2, <1>n
<1> DEFINE a1 == Moved(a, s)
           w == Written(a, s, aq)
           aq1 == Closed(a1, w)
           bq1 == Unread(a, s, bq)
<1>a. /\ a1.pc = a.pc + 1 /\ a1.at \in {"open", "done"} /\ (a1.at = "done" <=> a1.pc = n + l + 2)
      /\ a1.pc <= n + l + 2
  <2>1. a1.pc = a.pc + 1 /\ a1.at = IF a.pc = Len(s) THEN "done" ELSE "open"
    BY <1>pc, OpType
  <2> QED BY <2>1, <1>n, <1>pc
<1>eof. Msg("eof") \in Message
  BY MsgType DEF MessageType
<1>1. ASSUME NEW c \in Message, w = Append(aq, c) \/ w = aq, aq # <<>>
      PROVE  aq1 # <<>> /\ Head(aq1) = Head(aq)
  <2>1. w \in Seq(Message) /\ w # <<>> /\ Head(w) = Head(aq)
    BY <1>1, HeadStays
  <2>2. aq1 = w \/ aq1 = Append(w, Msg("eof"))
    BY DEF Closed
  <2> HIDE DEF w, aq1
  <2> QED BY <2>1, <2>2, <1>eof, HeadStays
<1>2. CASE a.pc <= n
  <2>1. n = 1 /\ a.pc = 1 /\ s[a.pc] = Writes(q)
    BY <1>2, <1>n DEF Asks
  <2>2. w = Append(aq, Msg(q)) /\ bq1 = bq
    BY <2>1 DEF Written, Unread, Writes
  <2>3. a1.at = "open" /\ aq1 = w
    BY <1>a, <1>n, <2>1 DEF Closed, Ended
  <2>4. Got(a, n) = 0 /\ Got(a1, n) = 0
    BY <1>a, <2>1 DEF Got
  <2>5. b.pc <= n => aq1 # <<>> /\ Head(aq1).type = q
    <3>1. Msg(q) \in Message /\ Msg(q).type = q
      BY <2>1, MsgType
    <3> SUFFICES ASSUME b.pc <= n PROVE aq1 # <<>> /\ Head(aq1).type = q
      OBVIOUS
    <3>2. aq = <<>>
      BY <1>2 DEF Dialogue
    <3>3. aq1 = <<Msg(q)>>
      BY <2>2, <2>3, <3>2
    <3> QED BY <3>1, <3>3
  <2>6. ~(a1.pc <= n)
    BY <1>a, <2>1
  <2> HIDE DEF a1, w, aq1, bq1
  <2> QED BY <1>a, <2>2, <2>4, <2>5, <2>6 DEF Dialogue, a1, w, aq1, bq1
<1>3. CASE a.pc = n + 1
  <2>1. s[a.pc] = Writes("eof")
    BY <1>3 DEF Asks
  <2>2. w = Append(aq, Msg("eof")) /\ bq1 = bq
    BY <2>1 DEF Written, Unread, Writes
  <2>3. Got(a, n) = 0 /\ Got(a1, n) = 0
    BY <1>a, <1>3, <1>n DEF Got
  <2>4. b.pc <= n => aq1 # <<>> /\ Head(aq1).type = q
    <3>1. b.pc <= n => aq # <<>> /\ Head(aq).type = q
      BY <1>3, <1>n DEF Dialogue
    <3> HIDE DEF aq1, w
    <3> QED BY <3>1, <1>1, <2>2, <1>eof
  <2>5. ~(a1.pc <= n)
    BY <1>a, <1>3, <1>n
  <2> HIDE DEF a1, w, aq1, bq1
  <2>6. Dialogue(a1, b, aq1, bq1, n, m, l, q, A)
    BY <1>a, <2>2, <2>3, <2>4, <2>5 DEF Dialogue
  <2> QED BY <2>6 DEF a1, w, aq1, bq1
<1>4. CASE a.pc > n + 1
  <2>1. /\ a.pc - n - 1 \in 1 .. l /\ n + 1 + (a.pc - n - 1) = a.pc
    BY <1>4, <1>n, <1>pc
  <2>2. s[a.pc] = Reads(A[a.pc - n - 1])
    <3>1. s[n + 1 + (a.pc - n - 1)] = Reads(A[a.pc - n - 1])
      BY <2>1 DEF Asks
    <3> QED BY <2>1, <3>1
  <2>3. bq # <<>> /\ w = aq /\ bq1 = Tail(bq)
    BY <2>2 DEF Goes, Written, Unread, Reads
  <2>4. Got(a, n) = a.pc - n - 2 /\ Got(a1, n) = a.pc - n - 1
    BY <1>a, <1>4, <1>n DEF Got
  <2>5. /\ bq1 \in Seq(Message) /\ Len(bq1) = Len(bq) - 1 /\ Len(bq) \in Nat
        /\ \A k \in 1 .. Len(bq1) : bq1[k] = bq[k + 1]
    BY <2>3, HeadTailProperties, LenProperties
  <2>6. b.pc <= n => aq1 # <<>> /\ Head(aq1).type = q
    <3>1. b.pc <= n => aq # <<>> /\ Head(aq).type = q
      BY <1>4, <1>n DEF Dialogue
    <3> HIDE DEF aq1, w
    <3> QED BY <3>1, <1>1, <2>3, <1>eof
  <2>7. ~(a1.pc <= n)
    BY <1>a, <1>4, <1>n
  <2>8. Said(b, n) \in Int
    BY <1>n DEF Said
  <2> HIDE DEF a1, w, aq1, bq1
  <2>9. Got(a1, n) + Len(bq1) = Said(b, n)
    <3>1. Got(a, n) + Len(bq) = Said(b, n)
      BY DEF Dialogue
    <3>2. Got(a1, n) = Got(a, n) + 1 /\ Got(a, n) \in Int
      BY <2>4, <1>n
    <3> QED BY <3>1, <3>2, <2>5
  <2>10. \A k \in 1 .. Len(bq1) : bq1[k].type = A[Got(a1, n) + k]
    <3> SUFFICES ASSUME NEW k \in 1 .. Len(bq1) PROVE bq1[k].type = A[Got(a1, n) + k]
      OBVIOUS
    <3>1. k + 1 \in 1 .. Len(bq) /\ Got(a, n) + (k + 1) = Got(a1, n) + k
      <4>1. Got(a1, n) = Got(a, n) + 1 /\ Got(a, n) \in Int
        BY <2>4, <1>n
      <4> QED BY <4>1, <2>5
    <3>2. bq[k + 1].type = A[Got(a, n) + (k + 1)]
      BY <3>1 DEF Dialogue
    <3> QED BY <3>1, <3>2, <2>5
  <2>11. Dialogue(a1, b, aq1, bq1, n, m, l, q, A)
    BY <1>a, <2>6, <2>7, <2>9, <2>10 DEF Dialogue
  <2> QED BY <2>11 DEF a1, w, aq1, bq1
<1> QED BY <1>n, <1>2, <1>3, <1>4


\* What it reads next is what it expects.
LEMMA AskerDecodes ==
  ASSUME NEW n, NEW m, NEW l, NEW q, NEW A, Parts(n, m, l, A), NEW s, Asks(s, n, l, q, A),
         NEW a \in End, NEW b \in End, NEW aq \in Seq(Message), NEW bq \in Seq(Message),
         Dialogue(a, b, aq, bq, n, m, l, q, A), a.at = "open"
  PROVE  ~Mismatch(a, s, bq)
<1>n. n \in 0 .. 1 /\ m \in 0 .. 2 /\ l \in 0 .. 3 /\ a.pc \in 1 .. 6
  BY DEF Parts, End
<1> SUFFICES ASSUME s[a.pc].do = "read", bq # <<>> PROVE Head(bq).type = s[a.pc].type
  BY DEF Mismatch
<1>1. a.pc <= n + l + 2 /\ a.pc # n + l + 2
  BY DEF Dialogue
<1>2. a.pc > n + 1
  <2>1. a.pc <= n => s[a.pc] = Writes(q)
    BY <1>n DEF Asks
  <2>2. a.pc = n + 1 => s[a.pc] = Writes("eof")
    BY DEF Asks
  <2>3. ~(a.pc <= n) /\ a.pc # n + 1
    BY <2>1, <2>2 DEF Writes
  <2> QED BY <2>3, <1>n
<1>3. a.pc - n - 1 \in 1 .. l /\ n + 1 + (a.pc - n - 1) = a.pc
  <2> DEFINE i == a.pc
  <2>1. i \in Int /\ n \in Int /\ l \in Int
    BY <1>n
  <2>2. i > n + 1 /\ i <= n + l + 2 /\ i # n + l + 2
    BY <1>1, <1>2
  <2> HIDE DEF i
  <2>3. i - n - 1 \in 1 .. l /\ n + 1 + (i - n - 1) = i
    BY <2>1, <2>2
  <2> QED BY <2>3 DEF i
<1>4. s[a.pc] = Reads(A[a.pc - n - 1])
  <2>1. s[n + 1 + (a.pc - n - 1)] = Reads(A[a.pc - n - 1])
    BY <1>3 DEF Asks
  <2> QED BY <1>3, <2>1
<1>5. Got(a, n) + 1 = a.pc - n - 1
  BY <1>2, <1>n DEF Got
<1>6. Head(bq) = bq[1] /\ 1 \in 1 .. Len(bq)
  BY HeadTailProperties, LenProperties
<1>7. bq[1].type = A[Got(a, n) + 1]
  BY <1>6 DEF Dialogue
<1> QED BY <1>4, <1>5, <1>6, <1>7 DEF Reads

\* The answering end reads the request, or writes its next part.
LEMMA AnswererStep ==
  ASSUME TypeOK, NEW n, NEW m, NEW l, NEW q, NEW A, Parts(n, m, l, A),
         NEW s, ScriptOK(s), Answers(s, n, m, q, A),
         NEW a \in End, NEW b \in End, NEW aq \in Seq(Message), NEW bq \in Seq(Message),
         Dialogue(a, b, aq, bq, n, m, l, q, A), b.at = "open", Goes(b, s, aq)
  PROVE  Dialogue(a, Moved(b, s), Unread(b, s, aq), Closed(Moved(b, s), Written(b, s, bq)),
                  n, m, l, q, A)
<1>n. /\ n \in 0 .. 1 /\ m \in 0 .. 2 /\ l \in {m, m + 1} /\ l \in 0 .. 3 /\ n + m >= 1
      /\ a.pc \in 1 .. 6 /\ b.pc \in 1 .. 6 /\ A \in Seq(MessageType) /\ Len(A) = m + 1 /\ A[m + 1] = "eof"
  BY DEF Parts, End
<1>pc. b.pc < n + m + 1 /\ b.pc <= Len(s) /\ Len(s) = n + m
  <2>1. b.pc <= n + m + 1 /\ b.pc # n + m + 1
    BY DEF Dialogue
  <2>2. Len(s) = n + m
    BY DEF Answers
  <2> QED BY <2>1, <2>2, <1>n
<1> DEFINE b1 == Moved(b, s)
           w == Written(b, s, bq)
           aq1 == Unread(b, s, aq)
           bq1 == Closed(b1, w)
           g == Got(a, n)
<1>b. /\ b1.pc = b.pc + 1 /\ b1.at \in {"open", "done"} /\ (b1.at = "done" <=> b1.pc = n + m + 1)
      /\ b1.pc <= n + m + 1
  <2>1. b1.pc = b.pc + 1 /\ b1.at = IF b.pc = Len(s) THEN "done" ELSE "open"
    BY <1>pc, OpType
  <2> QED BY <2>1, <1>n, <1>pc
<1>g. g \in Int /\ g + Len(bq) = Said(b, n) /\ Len(bq) \in Nat
  <2>1. g \in Int
    BY <1>n DEF Got
  <2>2. g + Len(bq) = Said(b, n)
    BY DEF Dialogue
  <2> QED BY <2>1, <2>2, LenProperties
\* w is what has been said before the end closes, i parts of A.
<1>1. PICK i \in 0 .. m : /\ w \in Seq(Message) /\ g + Len(w) = i /\ i = b1.pc - n - 1
                          /\ \A k \in 1 .. Len(w) : w[k].type = A[g + k]
  <2>1. CASE b.pc <= n
    <3>1. n = 1 /\ b.pc = 1 /\ s[b.pc] = Reads(q)
      BY <2>1, <1>n DEF Answers
    <3>2. w = bq
      BY <3>1 DEF Written, Reads
    <3>3. Said(b, n) = 0 /\ b1.pc - n - 1 = 0
      BY <3>1, <1>b DEF Said
    <3>4. g + Len(w) = 0
      BY <3>2, <3>3, <1>g
    <3>5. \A k \in 1 .. Len(w) : w[k].type = A[g + k]
      BY <3>2 DEF Dialogue
    <3>6. 0 \in 0 .. m
      BY <1>n
    <3> HIDE DEF w, g, b1
    <3> QED BY <3>2, <3>3, <3>4, <3>5, <3>6
  <2>2. CASE b.pc > n
    <3> DEFINE j == b.pc - n
    <3>1. j \in 1 .. m /\ n + j = b.pc /\ b1.pc - n - 1 = j
      BY <2>2, <1>n, <1>pc, <1>b
    <3>2. s[b.pc] = Writes(A[j])
      <4>1. s[n + j] = Writes(A[j])
        BY <3>1 DEF Answers
      <4> QED BY <3>1, <4>1
    <3>3. w = Append(bq, Msg(A[j]))
      BY <3>2 DEF Written, Writes
    <3>4. A[j] \in MessageType
      <4>1. j \in 1 .. Len(A)
        BY <3>1, <1>n
      <4> QED BY <4>1, <1>n, ElementOfSeq
    <3>5. Msg(A[j]) \in Message /\ Msg(A[j]).type = A[j]
      BY <3>4, MsgType
    <3>6. Said(b, n) = j - 1
      BY <2>2, <1>n DEF Said
    <3>7. /\ w \in Seq(Message) /\ Len(w) = Len(bq) + 1 /\ w[Len(bq) + 1] = Msg(A[j])
          /\ \A k \in 1 .. Len(bq) : w[k] = bq[k]
      BY <3>3, <3>5, AppendProperties
    <3>8. \A k \in 1 .. Len(bq) : bq[k].type = A[g + k]
      BY DEF Dialogue
    <3> HIDE DEF w, g, b1, j
    <3>9. g + Len(w) = j /\ g + (Len(bq) + 1) = j
      BY <3>6, <3>7, <1>g, <3>1
    <3>10. \A k \in 1 .. Len(w) : w[k].type = A[g + k]
      <4> SUFFICES ASSUME NEW k \in 1 .. Len(w) PROVE w[k].type = A[g + k]
        OBVIOUS
      <4>1. k \in 1 .. Len(bq) \/ k = Len(bq) + 1
        BY <3>7, <1>g
      <4> QED BY <4>1, <3>5, <3>7, <3>8, <3>9
    <3>11. j \in 0 .. m
      BY <3>1, <1>n
    <3> QED BY <3>1, <3>7, <3>9, <3>10, <3>11
  <2> QED BY <2>1, <2>2, <1>n
<1>2. g + Len(bq1) = Said(b1, n) /\ \A k \in 1 .. Len(bq1) : bq1[k].type = A[g + k]
  <2>1. ~(b1.pc <= n) \/ b1.pc - n - 1 = 0
    BY <1>b, <1>n
  <2>2. Said(b1, n) = i + (IF b1.at = "done" THEN 1 ELSE 0)
    <3>1. ~(b1.pc <= n)
      BY <1>1, <1>b, <1>n
    <3> HIDE DEF b1
    <3> QED BY <1>1, <3>1 DEF Said
  <2>3. CASE b1.at = "done"
    <3>1. i = m
      BY <2>3, <1>1, <1>b, <1>n
    <3>2. bq1 = Append(w, Msg("eof"))
      BY <2>3 DEF Closed, Ended
    <3>3. Msg("eof") \in Message /\ Msg("eof").type = "eof"
      BY MsgType DEF MessageType
    <3> HIDE DEF w, bq1, g, b1
    <3>4. /\ Len(bq1) = Len(w) + 1 /\ bq1[Len(w) + 1] = Msg("eof") /\ Len(w) \in Nat
          /\ \A k \in 1 .. Len(w) : bq1[k] = w[k]
      BY <3>2, <3>3, <1>1, AppendProperties, LenProperties
    <3>5. g + (Len(w) + 1) = m + 1
      BY <3>1, <3>4, <1>1, <1>g, <1>n
    <3>6. \A k \in 1 .. Len(bq1) : bq1[k].type = A[g + k]
      <4> SUFFICES ASSUME NEW k \in 1 .. Len(bq1) PROVE bq1[k].type = A[g + k]
        OBVIOUS
      <4>1. k \in 1 .. Len(w) \/ k = Len(w) + 1
        BY <3>4
      <4> QED BY <4>1, <3>3, <3>4, <3>5, <1>1, <1>n
    <3> QED BY <2>2, <2>3, <3>1, <3>4, <3>5, <3>6
  <2>4. CASE b1.at # "done"
    <3>1. bq1 = w
      BY <2>4, <1>b DEF Closed, Ended
    <3> HIDE DEF w, bq1, g, b1
    <3> QED BY <2>2, <2>4, <3>1, <1>1
  <2> QED BY <2>3, <2>4
<1>3. ~(b1.pc <= n)
  BY <1>1, <1>b, <1>n
<1> HIDE DEF b1, w, aq1, bq1
<1>4. Dialogue(a, b1, aq1, bq1, n, m, l, q, A)
  BY <1>b, <1>2, <1>3 DEF Dialogue, g
<1> QED BY <1>4 DEF b1, w, aq1, bq1

\* The request, when it arrives, is what it expects.
LEMMA AnswererDecodes ==
  ASSUME NEW n, NEW m, NEW l, NEW q, NEW A, Parts(n, m, l, A), NEW s, Answers(s, n, m, q, A),
         NEW a \in End, NEW b \in End, NEW aq, NEW bq,
         Dialogue(a, b, aq, bq, n, m, l, q, A), b.at = "open"
  PROVE  ~Mismatch(b, s, aq)
<1>n. n \in 0 .. 1 /\ m \in 0 .. 2 /\ b.pc \in 1 .. 6
  BY DEF Parts, End
<1> SUFFICES ASSUME s[b.pc].do = "read", aq # <<>> PROVE Head(aq).type = s[b.pc].type
  BY DEF Mismatch
<1>1. b.pc <= n + m + 1 /\ b.pc # n + m + 1
  BY DEF Dialogue
<1>2. CASE b.pc > n
  <2> DEFINE j == b.pc - n
  <2>1. j \in 1 .. m /\ n + j = b.pc
    BY <1>1, <1>2, <1>n
  <2>2. s[n + j] = Writes(A[j])
    BY <2>1 DEF Answers
  <2>3. s[b.pc] = Writes(A[j])
    BY <2>1, <2>2
  <2> QED BY <2>3 DEF Writes
<1>3. CASE b.pc <= n
  <2>1. s[b.pc] = Reads(q)
    BY <1>3, <1>n DEF Answers
  <2>2. Head(aq).type = q
    BY <1>3 DEF Dialogue
  <2> QED BY <2>1, <2>2 DEF Reads
<1> QED BY <1>n, <1>2, <1>3


\* A request of type t to an end that expects one of type u.
AsksType(s, t) ==
  Len(s) >= 4 /\ s[1] = Writes(t) /\ s[2] = Writes("eof") /\ s[3] = Reads("success")
Expects(s, t, u) == s[1] = Reads(u) /\ u \notin {t, "eof"}

\* Every message of a queue has one of the types T.
Only(w, T) == \A k \in 1 .. Len(w) : w[k].type \in T

LEMMA OnlyAppend ==
  ASSUME TypeOK, NEW w \in Seq(Message), NEW T, Only(w, T), NEW t \in MessageType, t \in T
  PROVE  Append(w, Msg(t)) \in Seq(Message) /\ Only(Append(w, Msg(t)), T)
<1> DEFINE c == Msg(t)
<1>1. c \in Message /\ c.type = t
  BY MsgType
<1> HIDE DEF c
<1>2. Append(w, c) \in Seq(Message) /\ Only(Append(w, c), T)
  BY <1>1, AppendProperties, LenProperties DEF Only
<1> QED BY <1>2 DEF c

LEMMA OnlyHead ==
  ASSUME NEW w \in Seq(Message), NEW T, Only(w, T), w # <<>>
  PROVE  Head(w).type \in T
BY HeadTailProperties, LenProperties DEF Only

\* The asking end can do no more than ask.
LEMMA DeafAskerStep ==
  ASSUME TypeOK, NEW t \in MessageType, NEW s, ScriptOK(s), AsksType(s, t),
         NEW a \in End, NEW b \in End, NEW aq \in Seq(Message), NEW bq \in Seq(Message),
         Deaf(a, b, aq, bq, t), Goes(a, s, bq)
  PROVE  Deaf(Moved(a, s), b, Closed(Moved(a, s), Written(a, s, aq)), Unread(a, s, bq), t)
<1> DEFINE a1 == Moved(a, s)
<1>1. a.pc \in 1 .. 3 /\ Only(aq, {t, "eof"}) /\ Only(bq, {"error", "eof"})
  BY DEF Deaf, End, Only
<1>2. a.pc # 3
  <2> SUFFICES ASSUME a.pc = 3 PROVE FALSE
    OBVIOUS
  <2>1. bq # <<>> /\ Head(bq).type = "success"
    BY DEF Goes, AsksType, Reads
  <2>2. Head(bq).type \in {"error", "eof"}
    BY <2>1, <1>1, OnlyHead
  <2> QED BY <2>1, <2>2
<1>3. a.pc \in {1, 2}
  BY <1>1, <1>2
<1>4. PICK u \in {t, "eof"} : s[a.pc] = Writes(u)
  BY <1>3 DEF AsksType
<1>5. u \in MessageType
  BY DEF MessageType
<1>6. Written(a, s, aq) = Append(aq, Msg(u)) /\ Unread(a, s, bq) = bq
  BY <1>4 DEF Written, Unread, Writes
<1>7. a.pc # Len(s)
  BY <1>3 DEF AsksType, ScriptOK
<1>8. a1.at = "open" /\ a1.pc = a.pc + 1
  BY <1>7 DEF Moved
<1>9. a1.pc <= 3
  BY <1>3, <1>8
<1>10. Closed(a1, Written(a, s, aq)) = Append(aq, Msg(u))
  BY <1>6, <1>8 DEF Closed, Ended
<1>11. Only(Append(aq, Msg(u)), {t, "eof"})
  BY <1>1, <1>5, OnlyAppend
<1> HIDE DEF a1
<1>12. Deaf(a1, b, Append(aq, Msg(u)), bq, t)
  BY <1>8, <1>9, <1>11 DEF Deaf, Only
<1> QED BY <1>6, <1>10, <1>12 DEF a1

\* It gives up, and closes.
LEMMA DeafAskerReturn ==
  ASSUME TypeOK, NEW t \in MessageType,
         NEW a \in End, NEW b, NEW aq \in Seq(Message), NEW bq,
         Deaf(a, b, aq, bq, t)
  PROVE  Deaf([a EXCEPT !.at = "failed"], b, Append(aq, Msg("eof")), bq, t)
<1> DEFINE a1 == [a EXCEPT !.at = "failed"]
<1>1. a1.at = "failed" /\ a1.pc = a.pc
  BY DEF End
<1>2. Only(Append(aq, Msg("eof")), {t, "eof"})
  <2>1. Only(aq, {t, "eof"}) /\ "eof" \in MessageType
    BY DEF Deaf, Only, MessageType
  <2> QED BY <2>1, OnlyAppend
<1> HIDE DEF a1
<1>3. Deaf(a1, b, Append(aq, Msg("eof")), bq, t)
  BY <1>1, <1>2 DEF Deaf, Only
<1> QED BY <1>3 DEF a1

\* The answering end reads nothing of it.
LEMMA DeafAnswererStuck ==
  ASSUME NEW t, NEW u, NEW s, Expects(s, t, u),
         NEW a, NEW b, NEW aq \in Seq(Message), NEW bq, Deaf(a, b, aq, bq, t)
  PROVE  ~Goes(b, s, aq)
<1> SUFFICES ASSUME aq # <<>> PROVE Head(aq).type # u
  BY DEF Goes, Deaf, Expects, Reads
<1>1. Head(aq).type \in {t, "eof"}
  BY OnlyHead DEF Deaf, Only
<1> QED BY <1>1 DEF Expects

\* It gives up, with an error or without, and closes.
LEMMA DeafAnswererReturn ==
  ASSUME TypeOK, NEW t,
         NEW a, NEW b \in End, NEW aq, NEW bq \in Seq(Message), Deaf(a, b, aq, bq, t)
  PROVE  /\ Deaf(a, [b EXCEPT !.at = "failed"], aq, Append(bq, Msg("eof")), t)
         /\ Deaf(a, [b EXCEPT !.at = "failed"], aq, Append(Append(bq, Msg("error")), Msg("eof")), t)
<1> DEFINE b1 == [b EXCEPT !.at = "failed"]
           T == {"error", "eof"}
<1>1. b1.at = "failed" /\ b1.pc = b.pc
  BY DEF End
<1>2. Only(bq, T) /\ "eof" \in MessageType /\ "error" \in MessageType /\ "eof" \in T /\ "error" \in T
  BY DEF Deaf, Only, MessageType, Code
<1> HIDE DEF b1, T
<1>3. Only(Append(bq, Msg("eof")), T)
  BY <1>2, OnlyAppend
<1>4. Append(bq, Msg("error")) \in Seq(Message) /\ Only(Append(bq, Msg("error")), T)
  BY <1>2, OnlyAppend
<1>5. Only(Append(Append(bq, Msg("error")), Msg("eof")), T)
  BY <1>2, <1>4, OnlyAppend
<1>6. \A w : Only(w, T) => Deaf(a, b1, aq, w, t)
  BY <1>1 DEF Deaf, Only, T
<1> QED BY <1>3, <1>5, <1>6 DEF b1


\* The handlers of rpc.go answer as the p2p specification asks, except to
\* a status request of version 1.
LEMMA InScripts ==
  ASSUME NEW k \in Kind, k.dir = "in", k.proto # "status1"
  PROVE  LET p == k.proto
             n == Len(Request(p))
             m == Len(Response(p))
         IN  /\ Parts(n, m, m + 1, Answer(p)) /\ (n = 1 => Asked(p) \in MessageType)
             /\ Asks(PeerScript(k), n, m + 1, Asked(p), Answer(p))
             /\ Answers(OurScript(k), n, m, Asked(p), Answer(p))
<1> DEFINE p == k.proto
           n == Len(Request(p))
           m == Len(Response(p))
<1>1. p \in Protocol
  BY DEF Kind
<1>2. /\ Request(p) \in Seq(MessageType) /\ n \in 0 .. 1
      /\ Response(p) \in Seq(MessageType) /\ m \in 0 .. 2 /\ n + m >= 1
  BY <1>1, PartsType
<1>3. Parts(n, m, m + 1, Answer(p))
  <2>1. "eof" \in MessageType
    BY DEF MessageType
  <2>2. Answer(p) \in Seq(MessageType) /\ Len(Answer(p)) = m + 1 /\ Answer(p)[m + 1] = "eof"
    BY <1>2, <2>1, AppendProperties DEF Answer
  <2> HIDE DEF n, m
  <2> QED BY <1>2, <2>2 DEF Parts
<1>4. n = 1 => Asked(p) \in MessageType
  BY <1>2, ElementOfSeq DEF Asked
<1>5. Asks(PeerScript(k), n, m + 1, Asked(p), Answer(p))
  <2>1. /\ Len(PeerScript(k)) = n + 2 + m
        /\ \A i \in 1 .. n : PeerScript(k)[i] = Writes(Request(p)[i])
        /\ PeerScript(k)[n + 1] = Writes("eof")
        /\ \A i \in 1 .. m + 1 : PeerScript(k)[n + 1 + i] = Reads(Answer(p)[i])
    BY AskScript DEF Answer
  <2> HIDE DEF n, m
  <2>2. \A i \in 1 .. n : i = 1
    BY <1>2
  <2>3. n + 2 + m = n + 1 + (m + 1)
    BY <1>2
  <2> QED BY <2>1, <2>2, <2>3 DEF Asks, Asked
<1>6. Answers(OurScript(k), n, m, Asked(p), Answer(p))
  <2> USE DEF Answers, OurScript, Asked, Answer, Request, Response, Reads, Writes, StatusProtocol
  <2>1. CASE p = "status2"
    BY <2>1 DEF handleStatus
  <2>2. CASE p = "ping"
    BY <2>2 DEF handlePing
  <2>3. CASE p = "goodbye"
    BY <2>3 DEF handleGoodbye
  <2>4. CASE p = "metadata1"
    BY <2>4 DEF handleMetadata, Metadata
  <2>5. CASE p = "metadata2"
    BY <2>5 DEF handleMetadata, Metadata
  <2>6. CASE p = "metadata3"
    BY <2>6 DEF handleMetadata, Metadata
  <2> QED BY <1>1, <2>1, <2>2, <2>3, <2>4, <2>5, <2>6 DEF Protocol
<1> QED BY <1>3, <1>4, <1>5, <1>6

LEMMA AppendToTwo ==
  ASSUME NEW S, NEW r \in Seq(S), Len(r) = 2, NEW c \in S
  PROVE  /\ Append(r, c) \in Seq(S) /\ Len(Append(r, c)) = 3
         /\ Append(r, c)[1] = r[1] /\ Append(r, c)[2] = r[2] /\ Append(r, c)[3] = c
<1> DEFINE v == Append(r, c)
<1>0. v \in Seq(S) /\ Len(v) = Len(r) + 1 /\ v[Len(r) + 1] = c
  BY AppendProperties
<1>1. \A i \in 1 .. Len(r) : v[i] = r[i]
  BY AppendProperties
<1> HIDE DEF v
<1>2. v \in Seq(S) /\ Len(v) = 3 /\ v[1] = r[1] /\ v[2] = r[2] /\ v[3] = c
  BY <1>0, <1>1
<1> QED BY <1>2 DEF v

\* sendStatus and a peer that answers version 2.
LEMMA OutScripts ==
  ASSUME NEW k \in Kind, k.dir = "out", k.proto = "status2"
  PROVE  /\ Parts(1, 2, 2, Answer("status2")) /\ "StatusV2" \in MessageType
         /\ Asks(OurScript(k), 1, 2, "StatusV2", Answer("status2"))
         /\ Answers(PeerScript(k), 1, 2, "StatusV2", Answer("status2"))
<1>1. "StatusV2" \in MessageType /\ "success" \in MessageType /\ "eof" \in MessageType
  BY DEF MessageType, SSZ, Code
<1>3. Request("status2") = <<"StatusV2">> /\ Response("status2") = <<"success", "StatusV2">>
  BY DEF Request, Response
<1>2. /\ Answer("status2") \in Seq(MessageType) /\ Len(Answer("status2")) = 3
      /\ Answer("status2")[1] = "success" /\ Answer("status2")[2] = "StatusV2" /\ Answer("status2")[3] = "eof"
  <2> DEFINE r == <<"success", "StatusV2">>
  <2>1. r \in Seq(MessageType) /\ Len(r) = 2 /\ r[1] = "success" /\ r[2] = "StatusV2"
    BY <1>1
  <2> HIDE DEF r
  <2>2. /\ Append(r, "eof") \in Seq(MessageType) /\ Len(Append(r, "eof")) = 3
        /\ Append(r, "eof")[1] = "success" /\ Append(r, "eof")[2] = "StatusV2" /\ Append(r, "eof")[3] = "eof"
    BY <1>1, <2>1, AppendToTwo
  <2> QED BY <1>3, <2>2 DEF Answer, r
<1>4. Parts(1, 2, 2, Answer("status2"))
  BY <1>1, <1>2 DEF Parts
<1>5. OurScript(k) = <<Writes("StatusV2"), Writes("eof"), Reads("success"), Reads("StatusV2")>>
  BY DEF OurScript, sendStatus
<1>6. Asks(OurScript(k), 1, 2, "StatusV2", Answer("status2"))
  <2> DEFINE s == OurScript(k)
  <2>1. /\ Len(s) = 4 /\ s[1] = Writes("StatusV2") /\ s[2] = Writes("eof")
        /\ s[3] = Reads(Answer("status2")[1]) /\ s[4] = Reads(Answer("status2")[2])
    BY <1>2, <1>5
  <2> HIDE DEF s
  <2> QED BY <2>1 DEF Asks, s
<1>7. Answers(PeerScript(k), 1, 2, "StatusV2", Answer("status2"))
  <2> DEFINE s == PeerScript(k)
  <2>1. /\ Len(s) = 1 + 2 /\ (\A i \in 1 .. 1 : s[i] = Reads(<<"StatusV2">>[i]))
        /\ \A i \in 1 .. 2 : s[1 + i] = Writes(<<"success", "StatusV2">>[i])
    <3> DEFINE n == Len(Request(k.proto))
               m == Len(Response(k.proto))
    <3>1. /\ Len(s) = n + m /\ (\A i \in 1 .. n : s[i] = Reads(Request(k.proto)[i]))
          /\ \A i \in 1 .. m : s[n + i] = Writes(Response(k.proto)[i])
      BY AnswerScript
    <3>2. n = 1 /\ m = 2
      BY <1>3
    <3> HIDE DEF n, m, s
    <3> QED BY <3>1, <3>2, <1>3
  <2> HIDE DEF s
  <2>2. \A i \in 1 .. 2 : <<"success", "StatusV2">>[i] = Answer("status2")[i]
    BY <1>2
  <2>3. \A i \in 1 .. 1 : s[i] = Reads("StatusV2")
    BY <2>1
  <2>4. \A i \in 1 .. 2 : s[1 + i] = Writes(Answer("status2")[i])
    BY <2>1, <2>2
  <2> QED BY <2>1, <2>3, <2>4 DEF Answers, s
<1> QED BY <1>1, <1>4, <1>6, <1>7

\* Version 1 of the status protocol, in either direction.
LEMMA V1Scripts ==
  ASSUME NEW k \in Kind, k.proto = "status1"
  PROVE  /\ "StatusV1" \in MessageType /\ "StatusV2" \in MessageType
         /\ k.dir = "in" => /\ AsksType(PeerScript(k), "StatusV1")
                            /\ Expects(OurScript(k), "StatusV1", "StatusV2")
         /\ k.dir # "in" => /\ AsksType(OurScript(k), "StatusV2")
                            /\ Expects(PeerScript(k), "StatusV2", "StatusV1")
<1>1. "StatusV1" \in MessageType /\ "StatusV2" \in MessageType
  BY DEF MessageType, SSZ
<1>2. Request("status1") = <<"StatusV1">> /\ Response("status1") = <<"success", "StatusV1">>
  BY DEF Request, Response
<1>3. ASSUME k.dir = "in" PROVE AsksType(PeerScript(k), "StatusV1") /\ Expects(OurScript(k), "StatusV1", "StatusV2")
  <2> DEFINE s == PeerScript(k)
             answer == Append(<<"success", "StatusV1">>, "eof")
  <2>1. /\ Len(s) = 1 + 2 + 2 /\ (\A i \in 1 .. 1 : s[i] = Writes(<<"StatusV1">>[i]))
        /\ s[1 + 1] = Writes("eof")
        /\ \A i \in 1 .. 2 + 1 : s[1 + 1 + i] = Reads(answer[i])
    <3> DEFINE n == Len(Request(k.proto))
               m == Len(Response(k.proto))
    <3>1. /\ Len(s) = n + 2 + m /\ (\A i \in 1 .. n : s[i] = Writes(Request(k.proto)[i]))
          /\ s[n + 1] = Writes("eof")
          /\ \A i \in 1 .. m + 1 : s[n + 1 + i] = Reads(Append(Response(k.proto), "eof")[i])
      BY <1>3, AskScript
    <3>2. n = 1 /\ m = 2
      BY <1>2
    <3> HIDE DEF n, m, s
    <3> QED BY <3>1, <3>2, <1>2
  <2>2. answer[1] = "success"
    OBVIOUS
  <2> HIDE DEF s, answer
  <2>3. s[1] = Writes("StatusV1") /\ s[2] = Writes("eof") /\ s[3] = Reads("success") /\ Len(s) >= 4
    BY <2>1, <2>2
  <2>4. OurScript(k)[1] = Reads("StatusV2")
    BY <1>3 DEF OurScript, handleStatus, StatusProtocol
  <2> QED BY <2>3, <2>4 DEF AsksType, Expects, s
<1>4. ASSUME k.dir # "in" PROVE AsksType(OurScript(k), "StatusV2") /\ Expects(PeerScript(k), "StatusV2", "StatusV1")
  <2>0. k.dir = "out"
    BY <1>4 DEF Kind
  <2>1. OurScript(k) = <<Writes("StatusV2"), Writes("eof"), Reads("success"), Reads("StatusV2")>>
    BY <2>0 DEF OurScript, sendStatus
  <2>2. \A i \in 1 .. 1 : PeerScript(k)[i] = Reads(<<"StatusV1">>[i])
    BY <1>2, <2>0, AnswerScript
  <2>3. PeerScript(k)[1] = Reads("StatusV1")
    BY <2>2
  <2> QED BY <2>1, <2>3 DEF AsksType, Expects
<1> QED BY <1>1, <1>3, <1>4


\* The stream has just been opened.
LEMMA TalkStarts ==
  ASSUME NEW k \in Kind, NEW o \in End, NEW e \in End,
         o.at = "open", e.at = "open", o.pc = 1, e.pc = 1,
         k.dir = "in" \/ (k.supports # {} /\ k.proto = Preferred(k.supports))
  PROVE  Talk(k, o, e, <<>>, <<>>)
<1>1. \A t : Deaf(o, e, <<>>, <<>>, t) /\ Deaf(e, o, <<>>, <<>>, t)
  BY DEF Deaf
<1>2. CASE k.proto = "status1"
  BY <1>1, <1>2 DEF Talk, TalkIn, TalkOut
<1>3. CASE k.proto # "status1" /\ k.dir = "in"
  <2>1. Talk(k, o, e, <<>>, <<>>) = TalkIn(k, o, e, <<>>, <<>>)
    BY <1>3 DEF Talk
  <2> QED BY <1>3, <2>1, InScripts, DialogueStarts DEF TalkIn
<1>4. CASE k.proto # "status1" /\ k.dir # "in"
  <2>1. k.dir = "out" /\ k.supports # {} /\ k.proto = "status2" /\ k.proto = Preferred(k.supports)
    BY <1>4 DEF Preferred, Kind
  <2>2. Dialogue(o, e, <<>>, <<>>, 1, 2, 2, "StatusV2", Answer("status2"))
    BY <2>1, OutScripts, DialogueStarts
  <2> QED BY <1>4, <2>1, <2>2 DEF Talk, TalkOut
<1> QED BY <1>2, <1>3, <1>4

\* Our end goes on, or gives up on what it cannot decode.
LEMMA TalkOurs ==
  ASSUME TypeOK, NEW k \in Kind, NEW o \in End, NEW e \in End,
         NEW u \in Seq(Message), NEW w \in Seq(Message), o.at = "open", Talk(k, o, e, u, w),
         NEW s, s = OurScript(k), ScriptOK(s)
  PROVE  /\ Goes(o, s, u) => Talk(k, Moved(o, s), e, Unread(o, s, u), Closed(Moved(o, s), Written(o, s, w)))
         /\ Mismatch(o, s, u) => Talk(k, [o EXCEPT !.at = "failed"], e, u, Append(w, Msg("eof")))
<1> DEFINE o1 == Moved(o, s)
           u1 == Unread(o, s, u)
           w1 == Closed(o1, Written(o, s, w))
           o2 == [o EXCEPT !.at = "failed"]
           w2 == Append(w, Msg("eof"))
<1> SUFFICES /\ Goes(o, s, u) => Talk(k, o1, e, u1, w1)
             /\ Mismatch(o, s, u) => Talk(k, o2, e, u, w2)
  OBVIOUS
<1>1. CASE k.proto = "status1" /\ k.dir = "in"
  <2>1. "StatusV1" \in MessageType /\ Expects(s, "StatusV1", "StatusV2")
    BY <1>1, V1Scripts
  <2>2. Deaf(e, o, u, w, "StatusV1")
    BY <1>1 DEF Talk, TalkIn
  <2>3. ~Goes(o, s, u)
    BY <2>1, <2>2, DeafAnswererStuck
  <2>4. Deaf(e, o2, u, w2, "StatusV1")
    BY <2>2, DeafAnswererReturn
  <2> HIDE DEF o1, u1, w1, o2, w2
  <2> QED BY <1>1, <2>3, <2>4 DEF Talk, TalkIn
<1>2. CASE k.proto # "status1" /\ k.dir = "in"
  <2> DEFINE p == k.proto
             n == Len(Request(p))
             m == Len(Response(p))
  <2>1. Parts(n, m, m + 1, Answer(p)) /\ Answers(s, n, m, Asked(p), Answer(p))
    BY <1>2, InScripts
  <2>2. Dialogue(e, o, u, w, n, m, m + 1, Asked(p), Answer(p))
    BY <1>2 DEF Talk, TalkIn
  <2>3. \A v, v1, v2 : Dialogue(e, v, v1, v2, n, m, m + 1, Asked(p), Answer(p)) => Talk(k, v, e, v1, v2)
    BY <1>2 DEF Talk, TalkIn
  <2> HIDE DEF p, n, m
  <2>4. Goes(o, s, u) => Dialogue(e, o1, u1, w1, n, m, m + 1, Asked(p), Answer(p))
    BY <2>1, <2>2, AnswererStep
  <2>5. ~Mismatch(o, s, u)
    BY <2>1, <2>2, AnswererDecodes
  <2> HIDE DEF o1, u1, w1, o2, w2
  <2> QED BY <2>3, <2>4, <2>5
<1>3. CASE k.dir # "in" /\ k.supports = {}
  BY <1>3 DEF Talk, TalkOut
<1>4. CASE k.proto = "status1" /\ k.dir # "in" /\ k.supports # {}
  <2>1. "StatusV2" \in MessageType /\ AsksType(s, "StatusV2")
    BY <1>4, V1Scripts
  <2>2. Deaf(o, e, w, u, "StatusV2") /\ k.proto = Preferred(k.supports)
    BY <1>4 DEF Talk, TalkOut
  <2>3. Goes(o, s, u) => Deaf(o1, e, w1, u1, "StatusV2")
    BY <2>1, <2>2, DeafAskerStep
  <2>4. Deaf(o2, e, w2, u, "StatusV2")
    BY <2>1, <2>2, DeafAskerReturn
  <2> HIDE DEF o1, u1, w1, o2, w2
  <2> QED BY <1>4, <2>2, <2>3, <2>4 DEF Talk, TalkOut
<1>5. CASE k.proto # "status1" /\ k.dir # "in" /\ k.supports # {}
  <2>1. Dialogue(o, e, w, u, 1, 2, 2, "StatusV2", Answer("status2")) /\ k.proto = Preferred(k.supports)
    BY <1>5 DEF Talk, TalkOut
  <2>2. k.dir = "out" /\ k.proto = "status2"
    BY <1>5, <2>1 DEF Kind, Preferred
  <2>3. /\ Parts(1, 2, 2, Answer("status2")) /\ "StatusV2" \in MessageType
        /\ Asks(s, 1, 2, "StatusV2", Answer("status2"))
    BY <2>2, OutScripts
  <2>4. Goes(o, s, u) => Dialogue(o1, e, w1, u1, 1, 2, 2, "StatusV2", Answer("status2"))
    BY <2>1, <2>3, AskerStep
  <2>5. ~Mismatch(o, s, u)
    BY <2>1, <2>3, AskerDecodes
  <2> HIDE DEF o1, u1, w1, o2, w2
  <2> QED BY <1>5, <2>1, <2>4, <2>5 DEF Talk, TalkOut
<1> QED BY <1>1, <1>2, <1>3, <1>4, <1>5

\* The same for the peer's end.
LEMMA TalkTheirs ==
  ASSUME TypeOK, NEW k \in Kind, NEW o \in End, NEW e \in End,
         NEW u \in Seq(Message), NEW w \in Seq(Message), e.at = "open", Talk(k, o, e, u, w),
         NEW s, s = PeerScript(k), ScriptOK(s)
  PROVE  /\ Goes(e, s, w) => Talk(k, o, Moved(e, s), Closed(Moved(e, s), Written(e, s, u)), Unread(e, s, w))
         /\ Mismatch(e, s, w)
              => /\ k.dir = "in" => Talk(k, o, [e EXCEPT !.at = "failed"], Append(u, Msg("eof")), w)
                 /\ k.dir # "in" => Talk(k, o, [e EXCEPT !.at = "failed"],
                                         Append(Append(u, Msg("error")), Msg("eof")), w)
<1> DEFINE e1 == Moved(e, s)
           w1 == Unread(e, s, w)
           u1 == Closed(e1, Written(e, s, u))
           e2 == [e EXCEPT !.at = "failed"]
           u2 == Append(u, Msg("eof"))
           u3 == Append(Append(u, Msg("error")), Msg("eof"))
<1> SUFFICES /\ Goes(e, s, w) => Talk(k, o, e1, u1, w1)
             /\ Mismatch(e, s, w) => /\ k.dir = "in" => Talk(k, o, e2, u2, w)
                                     /\ k.dir # "in" => Talk(k, o, e2, u3, w)
  OBVIOUS
<1>1. CASE k.proto = "status1" /\ k.dir = "in"
  <2>1. "StatusV1" \in MessageType /\ AsksType(s, "StatusV1")
    BY <1>1, V1Scripts
  <2>2. Deaf(e, o, u, w, "StatusV1")
    BY <1>1 DEF Talk, TalkIn
  <2>3. Goes(e, s, w) => Deaf(e1, o, u1, w1, "StatusV1")
    BY <2>1, <2>2, DeafAskerStep
  <2>4. Deaf(e2, o, u2, w, "StatusV1")
    BY <2>1, <2>2, DeafAskerReturn
  <2> HIDE DEF e1, u1, w1, e2, u2, u3
  <2> QED BY <1>1, <2>3, <2>4 DEF Talk, TalkIn
<1>2. CASE k.proto # "status1" /\ k.dir = "in"
  <2> DEFINE p == k.proto
             n == Len(Request(p))
             m == Len(Response(p))
  <2>1. /\ Parts(n, m, m + 1, Answer(p)) /\ Asks(s, n, m + 1, Asked(p), Answer(p))
        /\ n = 1 => Asked(p) \in MessageType
    BY <1>2, InScripts
  <2>2. Dialogue(e, o, u, w, n, m, m + 1, Asked(p), Answer(p))
    BY <1>2 DEF Talk, TalkIn
  <2>3. \A v, v1, v2 : Dialogue(v, o, v1, v2, n, m, m + 1, Asked(p), Answer(p)) => Talk(k, o, v, v1, v2)
    BY <1>2 DEF Talk, TalkIn
  <2> HIDE DEF p, n, m
  <2>4. Goes(e, s, w) => Dialogue(e1, o, u1, w1, n, m, m + 1, Asked(p), Answer(p))
    BY <2>1, <2>2, AskerStep
  <2>5. ~Mismatch(e, s, w)
    BY <2>1, <2>2, AskerDecodes
  <2> HIDE DEF e1, u1, w1, e2, u2, u3
  <2> QED BY <2>3, <2>4, <2>5
<1>3. CASE k.dir # "in" /\ k.supports = {}
  BY <1>3 DEF Talk, TalkOut
<1>4. CASE k.proto = "status1" /\ k.dir # "in" /\ k.supports # {}
  <2>1. "StatusV2" \in MessageType /\ Expects(s, "StatusV2", "StatusV1")
    BY <1>4, V1Scripts
  <2>2. Deaf(o, e, w, u, "StatusV2") /\ k.proto = Preferred(k.supports)
    BY <1>4 DEF Talk, TalkOut
  <2>3. ~Goes(e, s, w)
    BY <2>1, <2>2, DeafAnswererStuck
  <2>4. Deaf(o, e2, w, u3, "StatusV2")
    BY <2>2, DeafAnswererReturn
  <2> HIDE DEF e1, u1, w1, e2, u2, u3
  <2> QED BY <1>4, <2>2, <2>3, <2>4 DEF Talk, TalkOut
<1>5. CASE k.proto # "status1" /\ k.dir # "in" /\ k.supports # {}
  <2>1. Dialogue(o, e, w, u, 1, 2, 2, "StatusV2", Answer("status2")) /\ k.proto = Preferred(k.supports)
    BY <1>5 DEF Talk, TalkOut
  <2>2. k.dir = "out" /\ k.proto = "status2"
    BY <1>5, <2>1 DEF Kind, Preferred
  <2>3. /\ Parts(1, 2, 2, Answer("status2")) /\ "StatusV2" \in MessageType
        /\ Answers(s, 1, 2, "StatusV2", Answer("status2"))
    BY <2>2, OutScripts
  <2>4. Goes(e, s, w) => Dialogue(o, e1, w1, u1, 1, 2, 2, "StatusV2", Answer("status2"))
    BY <2>1, <2>3, AnswererStep
  <2>5. ~Mismatch(e, s, w)
    BY <2>1, <2>3, AnswererDecodes
  <2> HIDE DEF e1, u1, w1, e2, u2, u3
  <2> QED BY <1>5, <2>1, <2>4, <2>5 DEF Talk, TalkOut
<1> QED BY <1>1, <1>2, <1>3, <1>4, <1>5


LEMMA StepTalk == TypeInv /\ TalkInv /\ [Next]_vars => TalkInv'
<1> SUFFICES ASSUME TypeInv, TalkInv, [Next]_vars PROVE TalkInv'
  OBVIOUS
<1>t. /\ TypeOK /\ ScriptInv /\ stream \in [Stream -> Kind]
      /\ our \in [Stream -> End] /\ their \in [Stream -> End]
      /\ toUs \in [Stream -> Seq(Message)] /\ toPeer \in [Stream -> Seq(Message)]
      /\ TypeOK' /\ stream' \in [Stream -> Kind]
      /\ our' \in [Stream -> End] /\ their' \in [Stream -> End]
  BY StepType DEF TypeInv, TypeOK
<1> DEFINE Same(y) == /\ stream'[y] = stream[y] /\ our'[y] = our[y] /\ their'[y] = their[y]
                      /\ toUs'[y] = toUs[y] /\ toPeer'[y] = toPeer[y]
           Grows == late \subseteq late' /\ broken \subseteq broken'
           Goal(y) == /\ Quiet(stream'[y], our'[y], toUs'[y], toPeer'[y])
                      /\ Undisturbed(y)' /\ our'[y].at \notin {"idle", "opening"}
                           => Talk(stream'[y], our'[y], their'[y], toUs'[y], toPeer'[y])
<1>goal. SUFFICES \A y \in Stream : Goal(y)
  BY DEF TalkInv
<1>frame. ASSUME NEW y \in Stream, Same(y), Grows PROVE Goal(y)
  <2>1. Undisturbed(y)' => Undisturbed(y)
    BY <1>frame DEF Undisturbed
  <2>2. /\ Quiet(stream[y], our[y], toUs[y], toPeer[y])
        /\ Undisturbed(y) /\ our[y].at \notin {"idle", "opening"}
             => Talk(stream[y], our[y], their[y], toUs[y], toPeer[y])
    BY DEF TalkInv
  <2> QED BY <1>frame, <2>1, <2>2
<1>1. CASE SlotPasses \/ UNCHANGED vars
  <2>1. Grows /\ \A y \in Stream : Same(y)
    BY <1>1 DEF SlotPasses, vars
  <2> HIDE DEF Goal, Same, Grows
  <2> QED BY <2>1, <1>frame
<1>2. ASSUME NEW x \in Stream, Expire(x) \/ Break(x) PROVE \A y \in Stream : Goal(y)
  <2>1. Grows /\ \A y \in Stream : Same(y)
    BY <1>2 DEF Expire, Break
  <2> HIDE DEF Goal, Same, Grows
  <2> QED BY <2>1, <1>frame
<1>3. ASSUME NEW x \in Stream, Accept(x) PROVE \A y \in Stream : Goal(y)
  <2>1. Grows /\ \A y \in Stream \ {x} : Same(y)
    BY <1>3, <1>t DEF Accept
  <2>2. our[x].at = "idle" /\ our[x].pc = 1 /\ their[x].pc = 1 /\ toUs[x] = <<>> /\ toPeer[x] = <<>>
    BY <1>3, <1>t DEF Accept, ScriptInv, Start, TalkInv, Quiet
  <2>3. /\ our'[x].at = "open" /\ our'[x].pc = 1 /\ their'[x].at = "open" /\ their'[x].pc = 1
        /\ toUs'[x] = <<>> /\ toPeer'[x] = <<>> /\ stream'[x].dir = "in"
    BY <1>3, <2>2, <1>t DEF Accept, End
  <2>4. Talk(stream'[x], our'[x], their'[x], <<>>, <<>>)
    BY <2>3, <1>t, TalkStarts
  <2>5. Quiet(stream'[x], our'[x], toUs'[x], toPeer'[x])
    BY <2>3 DEF Quiet
  <2>6. Goal(x)
    BY <2>3, <2>4, <2>5
  <2> HIDE DEF Goal, Same, Grows
  <2> QED BY <2>1, <2>6, <1>frame
<1>4. ASSUME NEW x \in Stream, ConnectedF(x) PROVE \A y \in Stream : Goal(y)
  <2>1. Grows /\ \A y \in Stream \ {x} : Same(y)
    BY <1>4, <1>t DEF ConnectedF
  <2>2. toUs[x] = <<>> /\ toPeer[x] = <<>>
    BY <1>4 DEF ConnectedF, TalkInv, Quiet
  <2>3. our'[x].at = "opening" /\ toUs'[x] = <<>> /\ toPeer'[x] = <<>> /\ stream'[x].dir = "out"
    BY <1>4, <2>2, <1>t DEF ConnectedF, End
  <2>4. Goal(x)
    BY <2>3 DEF Quiet
  <2> HIDE DEF Goal, Same, Grows
  <2> QED BY <2>1, <2>4, <1>frame
<1>5. ASSUME NEW x \in Stream, NewStream(x) PROVE \A y \in Stream : Goal(y)
  <2>1. Grows /\ \A y \in Stream \ {x} : Same(y)
    BY <1>5, <1>t DEF NewStream
  <2>2. our[x].at = "opening" /\ our[x].pc = 1 /\ their[x].pc = 1 /\ toUs[x] = <<>> /\ toPeer[x] = <<>>
    BY <1>5, <1>t DEF NewStream, ScriptInv, Start, TalkInv, Quiet
  <2>3. /\ our'[x].at = "open" /\ our'[x].pc = 1 /\ their'[x].at = "open" /\ their'[x].pc = 1
        /\ toUs'[x] = <<>> /\ toPeer'[x] = <<>>
    BY <1>5, <2>2, <1>t DEF NewStream, End
  <2>4. stream'[x].supports # {} /\ stream'[x].proto = Preferred(stream'[x].supports)
    BY <1>5, <1>t DEF NewStream, Kind
  <2>5. Talk(stream'[x], our'[x], their'[x], <<>>, <<>>)
    BY <2>3, <2>4, <1>t, TalkStarts
  <2>6. Quiet(stream'[x], our'[x], toUs'[x], toPeer'[x])
    BY <2>3 DEF Quiet
  <2>7. Goal(x)
    BY <2>3, <2>5, <2>6
  <2> HIDE DEF Goal, Same, Grows
  <2> QED BY <2>1, <2>7, <1>frame
<1>6. ASSUME NEW x \in Stream, NewStreamFails(x) PROVE \A y \in Stream : Goal(y)
  <2>1. Grows /\ \A y \in Stream \ {x} : Same(y)
    BY <1>6, <1>t DEF NewStreamFails
  <2>2. our'[x].at = "failed" /\ stream'[x] = stream[x] /\ stream[x].dir = "out"
    BY <1>6, <1>t DEF NewStreamFails, End, TalkInv, Quiet
  <2>3. Undisturbed(x)' => stream'[x].supports = {}
    BY <1>6 DEF NewStreamFails, Undisturbed
  <2>4. Goal(x)
    BY <2>2, <2>3 DEF Quiet, Talk, TalkOut
  <2> HIDE DEF Goal, Same, Grows
  <2> QED BY <2>1, <2>4, <1>frame
<1>7. ASSUME NEW x \in Stream, OurStep(x) \/ OurReturn(x) PROVE \A y \in Stream : Goal(y)
  <2>1. Grows /\ \A y \in Stream \ {x} : Same(y)
    BY <1>7, <1>t DEF OurStep, OurReturn
  <2>2. our[x].at = "open" /\ UNCHANGED <<stream, their, late, broken>>
    BY <1>7 DEF OurStep, OurReturn
  <2>3. our'[x].at \notin {"idle", "opening"}
    BY <1>7, <1>t DEF OurStep, OurReturn, Moved, End
  <2>4. ASSUME Undisturbed(x) PROVE Talk(stream[x], our'[x], their[x], toUs'[x], toPeer'[x])
    <3> DEFINE k == stream[x]
               s == OurScript(k)
    <3>1. ScriptOK(s) /\ Talk(k, our[x], their[x], toUs[x], toPeer[x])
      BY <2>2, <2>4, OurScriptOK DEF TalkInv
    <3>2. /\ k \in Kind /\ our[x] \in End /\ their[x] \in End
          /\ toUs[x] \in Seq(Message) /\ toPeer[x] \in Seq(Message)
      BY <1>t
    <3>3. /\ Goes(our[x], s, toUs[x])
               => Talk(k, Moved(our[x], s), their[x], Unread(our[x], s, toUs[x]),
                       Closed(Moved(our[x], s), Written(our[x], s, toPeer[x])))
          /\ Mismatch(our[x], s, toUs[x])
               => Talk(k, [our[x] EXCEPT !.at = "failed"], their[x], toUs[x], Append(toPeer[x], Msg("eof")))
      BY <2>2, <3>1, <3>2, <1>t, TalkOurs
    <3>4. CASE OurStep(x)
      <4>1. /\ Goes(our[x], s, toUs[x]) /\ our'[x] = Moved(our[x], s)
            /\ toUs'[x] = Unread(our[x], s, toUs[x])
            /\ toPeer'[x] = Closed(Moved(our[x], s), Written(our[x], s, toPeer[x]))
        BY <3>4, <1>t DEF OurStep
      <4> HIDE DEF s
      <4> QED BY <3>3, <4>1
    <3>5. CASE OurReturn(x)
      <4>1. /\ Mismatch(our[x], s, toUs[x]) /\ our'[x] = [our[x] EXCEPT !.at = "failed"]
            /\ toUs'[x] = toUs[x] /\ toPeer'[x] = Append(toPeer[x], Msg("eof"))
        BY <3>5, <2>4, <1>t DEF OurReturn, Undisturbed
      <4> HIDE DEF s
      <4> QED BY <3>3, <4>1
    <3> QED BY <1>7, <3>4, <3>5
  <2>5. Undisturbed(x)' => Undisturbed(x)
    BY <2>2 DEF Undisturbed
  <2>6. Goal(x)
    BY <2>2, <2>3, <2>4, <2>5 DEF Quiet
  <2> HIDE DEF Goal, Same, Grows
  <2> QED BY <2>1, <2>6, <1>frame
<1>8. ASSUME NEW x \in Stream, PeerStep(x) \/ PeerReturn(x) PROVE \A y \in Stream : Goal(y)
  <2>1. Grows /\ \A y \in Stream \ {x} : Same(y)
    BY <1>8, <1>t DEF PeerStep, PeerReturn
  <2>2. their[x].at = "open" /\ UNCHANGED <<stream, our, late, broken>>
    BY <1>8 DEF PeerStep, PeerReturn
  <2>3. our[x].at \notin {"idle", "opening"}
    BY <2>2, <1>t DEF ScriptInv, Start
  <2>4. ASSUME Undisturbed(x) PROVE Talk(stream[x], our[x], their'[x], toUs'[x], toPeer'[x])
    <3> DEFINE k == stream[x]
               s == PeerScript(k)
    <3>1. ScriptOK(s) /\ Talk(k, our[x], their[x], toUs[x], toPeer[x])
      BY <2>3, <2>4, <1>t, PeerScriptOK DEF TalkInv
    <3>2. /\ k \in Kind /\ our[x] \in End /\ their[x] \in End
          /\ toUs[x] \in Seq(Message) /\ toPeer[x] \in Seq(Message) /\ k.dir \in {"in", "out"}
      BY <1>t DEF Kind
    <3>3. /\ Goes(their[x], s, toPeer[x])
               => Talk(k, our[x], Moved(their[x], s),
                       Closed(Moved(their[x], s), Written(their[x], s, toUs[x])), Unread(their[x], s, toPeer[x]))
          /\ Mismatch(their[x], s, toPeer[x])
               => /\ k.dir = "in" => Talk(k, our[x], [their[x] EXCEPT !.at = "failed"],
                                          Append(toUs[x], Msg("eof")), toPeer[x])
                  /\ k.dir # "in" => Talk(k, our[x], [their[x] EXCEPT !.at = "failed"],
                                          Append(Append(toUs[x], Msg("error")), Msg("eof")), toPeer[x])
      BY <2>2, <3>1, <3>2, <1>t, TalkTheirs
    <3>4. CASE PeerStep(x)
      <4>1. /\ Goes(their[x], s, toPeer[x]) /\ their'[x] = Moved(their[x], s)
            /\ toPeer'[x] = Unread(their[x], s, toPeer[x])
            /\ toUs'[x] = Closed(Moved(their[x], s), Written(their[x], s, toUs[x]))
        BY <3>4, <1>t DEF PeerStep
      <4> HIDE DEF s
      <4> QED BY <3>3, <4>1
    <3>5. CASE PeerReturn(x)
      <4> DEFINE v == IF k.dir = "out" THEN Append(toUs[x], Msg("error")) ELSE toUs[x]
      <4>1. /\ Mismatch(their[x], s, toPeer[x]) /\ their'[x] = [their[x] EXCEPT !.at = "failed"]
            /\ toPeer'[x] = toPeer[x] /\ toUs'[x] = v \o <<Msg("eof")>>
        BY <3>5, <1>t DEF PeerReturn
      <4>2. Msg("eof") \in Message /\ Msg("error") \in Message
        BY <1>t, MsgType DEF MessageType, Code
      <4>3. v \in Seq(Message)
        BY <3>2, <4>2, AppendProperties
      <4>4. v = IF k.dir = "in" THEN toUs[x] ELSE Append(toUs[x], Msg("error"))
        BY <3>2
      <4> HIDE DEF v, s
      <4>5. v \o <<Msg("eof")>> = Append(v, Msg("eof"))
        BY <4>2, <4>3, AppendIsConcat
      <4> QED BY <3>3, <4>1, <4>4, <4>5
    <3> QED BY <1>8, <3>4, <3>5
  <2>5. Undisturbed(x)' => Undisturbed(x)
    BY <2>2 DEF Undisturbed
  <2>6. Goal(x)
    BY <2>2, <2>3, <2>4, <2>5 DEF Quiet
  <2> HIDE DEF Goal, Same, Grows
  <2> QED BY <2>1, <2>6, <1>frame
<1>9. ASSUME NEW x \in Stream, PeerSends(x) PROVE \A y \in Stream : Goal(y)
  <2>1. Grows /\ \A y \in Stream \ {x} : Same(y)
    BY <1>9, <1>t DEF PeerSends
  <2>2. our'[x].at = "open" /\ ~Undisturbed(x)'
    BY <1>9 DEF PeerSends, Undisturbed
  <2>3. Goal(x)
    BY <2>2 DEF Quiet
  <2> HIDE DEF Goal, Same, Grows
  <2> QED BY <2>1, <2>3, <1>frame
<1> HIDE DEF Goal, Same, Grows
<1> QED BY <1>1, <1>2, <1>3, <1>4, <1>5, <1>6, <1>7, <1>8, <1>9 DEF Next, OurAction

LEMMA TalkHolds == Spec => [](TypeInv /\ TalkInv)
<1>1. Init => TalkInv
  <2> SUFFICES ASSUME Init, NEW x \in Stream
               PROVE  /\ Quiet(stream[x], our[x], toUs[x], toPeer[x])
                      /\ our[x].at \in {"idle", "opening"}
    BY DEF TalkInv
  <2>1. our[x].at = "idle" /\ toUs[x] = <<>> /\ toPeer[x] = <<>>
    BY DEF Init, Start
  <2> QED BY <2>1 DEF Quiet
<1> QED BY <1>1, InitType, StepType, StepTalk, PTL DEF Spec

\* rpc.go, RegisterHandlers: a peer that asks over an undisturbed stream, for
\* anything but version 1 of status, gets what its protocol's version calls
\* for, whatever the interleaving of the two ends.
THEOREM AnsweredHolds == Spec => []Answered
<1>1. TypeInv /\ TalkInv => Answered
  <2> SUFFICES ASSUME TypeInv, TalkInv, NEW x \in Stream, Over(x), stream[x].proto # "status1"
               PROVE  their[x].at = "done"
    BY DEF Answered, GotAnswer
  <2>1. TalkIn(stream[x], our[x], their[x], toUs[x], toPeer[x])
    BY DEF TalkInv, Talk, Ended, Over
  <2> QED BY <2>1 DEF TalkIn, Dialogue, Ended, Over
<1> QED BY <1>1, TalkHolds, PTL

\* rpc.go, sendStatus: over an undisturbed stream our status handshake is
\* complete with just the peers that speak version 2, and only after such a
\* peer has decoded our status and answered it.
THEOREM HandshakeWithV2Holds == Spec => []HandshakeWithV2
<1>1. TypeInv /\ TalkInv => HandshakeWithV2
  <2> SUFFICES ASSUME TypeInv, TalkInv, NEW x \in Stream,
                      stream[x].dir = "out", Undisturbed(x), our[x].at \in Ended
               PROVE  /\ our[x].at = "done" <=> "status2" \in stream[x].supports
                      /\ our[x].at = "done" => their[x].at = "done"
    BY DEF HandshakeWithV2
  <2> DEFINE k == stream[x]
             o == our[x]
             e == their[x]
  <2>1. TalkOut(k, o, e, toUs[x], toPeer[x])
    BY DEF TalkInv, Talk, Ended
  <2>2. /\ k \in Kind /\ o \in End /\ e \in End /\ toUs[x] \in Seq(Message)
    BY DEF TypeInv, TypeOK
  <2>3. CASE k.supports = {}
    BY <2>1, <2>3 DEF TalkOut
  <2>4. CASE k.supports # {} /\ k.proto = "status1"
    BY <2>1, <2>4 DEF TalkOut, Deaf, Preferred
  <2>5. CASE k.supports # {} /\ k.proto # "status1"
    <3>1. /\ Dialogue(o, e, toPeer[x], toUs[x], 1, 2, 2, "StatusV2", Answer("status2"))
          /\ k.proto = Preferred(k.supports)
      BY <2>1, <2>5 DEF TalkOut
    <3>2. "status2" \in k.supports
      BY <2>5, <3>1 DEF Preferred
    <3>3. o.at = "done" /\ o.pc = 5
      BY <3>1 DEF Dialogue, Ended
    <3>4. Got(o, 1) = 2 /\ Len(toUs[x]) \in Nat
      BY <2>2, <3>3, LenProperties DEF Got
    <3>5. /\ Got(o, 1) + Len(toUs[x]) = Said(e, 1) /\ e.at \in {"open", "done"}
          /\ (e.at = "done" <=> e.pc = 1 + 2 + 1) /\ e.pc <= 1 + 2 + 1
      BY <3>1 DEF Dialogue
    <3>6. Said(e, 1) >= 2
      BY <3>4, <3>5
    <3>7. e.at = "done"
      BY <2>2, <3>5, <3>6 DEF Said, End
    <3> QED BY <3>2, <3>3, <3>7
  <2> QED BY <2>3, <2>4, <2>5
<1> QED BY <1>1, TalkHolds, PTL
=============================================================================
