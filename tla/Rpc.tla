-------------------------------- MODULE Rpc --------------------------------
(***************************************************************************)
(* rpc/rpc.go: the request/response streams between the probe and its      *)
(* peers.  Each side of a stream runs a script of reads and writes; the    *)
(* first one that fails ends it.  Our scripts are the four handlers and    *)
(* sendStatus; a peer follows the consensus p2p specification, or does     *)
(* anything.  A message is its SSZ type and, for a status, the head slot:  *)
(* the types have fixed and different sizes, so that a message decodes     *)
(* into its own type only.                                                 *)
(***************************************************************************)
EXTENDS Integers, Sequences

CONSTANTS
  Stream,    \* streams, each opened once
  LastSlot,  \* bound: the clock stops there
  Modulus    \* slots are unsigned: 2^64

ASSUME RpcAssumption == Modulus \in Nat /\ LastSlot \in 0 .. Modulus - 1

VARIABLES
  now,      \* slots.CurrentSlot
  stream,   \* stream -> who opened it and what its peer is
  our,      \* stream -> our goroutine: where it is, and in which script
  their,    \* stream -> the peer's end
  toUs,     \* stream -> messages on their way to us
  toPeer,   \* stream -> messages on their way to the peer
  late,     \* streams whose deadline has passed
  broken    \* streams that were reset, or whose connection is gone

vars == <<now, stream, our, their, toUs, toPeer, late, broken>>

StatusProtocol == {"status1", "status2"}
Protocol == StatusProtocol \cup {"ping", "metadata1", "metadata2", "metadata3", "goodbye"}
SSZ == {"StatusV1", "StatusV2", "Uint64", "MetaDataV0", "MetaDataV1", "MetaDataV2"}
Code == {"success", "error"}

Message == [type : SSZ \cup Code \cup {"eof"}, head : 0 .. Modulus - 1]
Place == {"idle", "opening", "open", "done", "failed"}
End == [at : Place, pc : 1 .. 6]
Ended == {"done", "failed"}

Kind == [dir : {"in", "out"}, proto : Protocol, supports : SUBSET StatusProtocol,
         honest : BOOLEAN]

\* Every variable has a value its Go type allows; slots are unsigned.
TypeOK ==
  /\ now \in 0 .. LastSlot
  /\ stream \in [Stream -> Kind]
  /\ our \in [Stream -> End]
  /\ their \in [Stream -> End]
  /\ toUs \in [Stream -> Seq(Message)]
  /\ toPeer \in [Stream -> Seq(Message)]
  /\ late \subseteq Stream
  /\ broken \subseteq Stream

Unopened == [dir |-> "in", proto |-> "ping", supports |-> {}, honest |-> TRUE]
Start == [at |-> "idle", pc |-> 1]

Init ==
  /\ now = 0
  /\ stream = [x \in Stream |-> Unopened]
  /\ our = [x \in Stream |-> Start]
  /\ their = [x \in Stream |-> Start]
  /\ toUs = [x \in Stream |-> <<>>]
  /\ toPeer = [x \in Stream |-> <<>>]
  /\ late = {}
  /\ broken = {}

-----------------------------------------------------------------------------

Reads(t) == [do |-> "read", type |-> t]
Writes(t) == [do |-> "write", type |-> t]

handleStatus == <<Reads("StatusV2"), Writes("success"), Writes("StatusV2")>>

handlePing == <<Reads("Uint64"), Writes("success"), Writes("Uint64")>>

handleGoodbye == <<Reads("Uint64")>>

\* Mutant: the metadata versions are taken for protocol versions.
MetadataByNumber(proto) ==
  CASE proto = "metadata2" -> "MetaDataV2"
    [] proto = "metadata1" -> "MetaDataV1"
    [] OTHER -> "MetaDataV0"

\* handleMetadata, the switch on stream.Protocol().
Metadata(proto) ==
  CASE proto = "metadata3" -> "MetaDataV2"
    [] proto = "metadata1" -> "MetaDataV0"
    [] OTHER -> "MetaDataV1"

handleMetadata(proto) == <<Writes("success"), Writes(Metadata(proto))>>

\* sendStatus once its stream is open.  CloseWrite sends the end of file.
sendStatus == <<Writes("StatusV2"), Writes("eof"), Reads("success"), Reads("StatusV2")>>

\* RegisterHandlers: what runs on our end of a stream of kind k.
OurScript(k) ==
  LET p == k.proto IN
  IF k.dir = "out" THEN sendStatus
  ELSE CASE p \in StatusProtocol -> handleStatus
         [] p = "ping" -> handlePing
         [] p = "goodbye" -> handleGoodbye
         [] OTHER -> handleMetadata(p)

\* The request and the response the p2p specification gives a protocol.
Request(p) ==
  CASE p = "status1" -> <<"StatusV1">>
    [] p = "status2" -> <<"StatusV2">>
    [] p \in {"ping", "goodbye"} -> <<"Uint64">>
    [] OTHER -> <<>>
Response(p) ==
  CASE p = "goodbye" -> <<>>
    [] p = "status1" -> <<"success", "StatusV1">>
    [] p = "status2" -> <<"success", "StatusV2">>
    [] p = "ping" -> <<"success", "Uint64">>
    [] p = "metadata1" -> <<"success", "MetaDataV0">>
    [] p = "metadata2" -> <<"success", "MetaDataV1">>
    [] p = "metadata3" -> <<"success", "MetaDataV2">>

ReadsAll(ts) == [k \in 1 .. Len(ts) |-> Reads(ts[k])]
WritesAll(ts) == [k \in 1 .. Len(ts) |-> Writes(ts[k])]

\* What a peer that keeps to the specification does on its end.
PeerScript(k) ==
  LET p == k.proto IN
  IF k.dir = "in"
  THEN WritesAll(Append(Request(p), "eof")) \o ReadsAll(Append(Response(p), "eof"))
  ELSE ReadsAll(Request(p)) \o WritesAll(Response(p))

\* Mutant: headSlot = cs - 1 whatever cs is.
HeadUnclamped == (now + Modulus - 1) % Modulus

\* Mutant: the head is computed in signed integers.
HeadSigned == now - 1

\* MakeStatusProvider: the slot before the current one, 0 at slot 0.
headSlot == IF now > 0 THEN now - 1 ELSE 0

\* Our status carries the head; nothing reads the head of a peer.
Msg(t) == [type |-> t, head |-> IF t = "StatusV2" THEN headSlot ELSE 0]

-----------------------------------------------------------------------------

\* A peer opens a stream to us; libp2p runs the handler of its protocol.
Accept(x) ==
  /\ our[x].at = "idle"
  /\ \E p \in Protocol, b \in BOOLEAN :
       stream' = [stream EXCEPT ![x] = [dir |-> "in", proto |-> p, supports |-> {}, honest |-> b]]
  /\ our' = [our EXCEPT ![x].at = "open"]
  /\ their' = [their EXCEPT ![x].at = "open"]
  /\ UNCHANGED <<now, toUs, toPeer, late, broken>>

\* SendStatusOnConnect: ConnectedF starts sendStatus in a goroutine.
ConnectedF(x) ==
  /\ our[x].at = "idle"
  /\ \E s \in SUBSET StatusProtocol, b \in BOOLEAN :
       stream' = [stream EXCEPT ![x] = [dir |-> "out", proto |-> "status2", supports |-> s, honest |-> b]]
  /\ our' = [our EXCEPT ![x].at = "opening"]
  /\ UNCHANGED <<now, their, toUs, toPeer, late, broken>>

\* Mutant: version 1 comes first in the call of NewStream.
PrefersV1(s) == IF "status1" \in s THEN "status1" ELSE "status2"

\* The order of the protocols in the call of NewStream.
Preferred(s) == IF "status2" \in s THEN "status2" ELSE "status1"

\* h.NewStream: the first protocol of ours that the peer supports.
NewStream(x) ==
  /\ our[x].at = "opening"
  /\ x \notin broken
  /\ stream[x].supports # {}
  /\ stream' = [stream EXCEPT ![x].proto = Preferred(stream[x].supports)]
  /\ our' = [our EXCEPT ![x].at = "open"]
  /\ their' = [their EXCEPT ![x].at = "open"]
  /\ UNCHANGED <<now, toUs, toPeer, late, broken>>

\* h.NewStream fails: no common protocol, no connection, or ctx timed out.
NewStreamFails(x) ==
  /\ our[x].at = "opening"
  /\ stream[x].supports = {} \/ x \in broken \cup late
  /\ our' = [our EXCEPT ![x].at = "failed"]
  /\ UNCHANGED <<now, stream, their, toUs, toPeer, late, broken>>

\* The operation end e is at: a write, or a read of what has arrived (r).
Goes(e, script, r) ==
  LET op == script[e.pc] IN op.do = "write" \/ (r # <<>> /\ Head(r).type = op.type)

\* What arrives does not decode into what is expected, or is the end of file.
Mismatch(e, script, r) ==
  LET op == script[e.pc] IN op.do = "read" /\ r # <<>> /\ Head(r).type # op.type

Moved(e, script) == [at |-> IF e.pc = Len(script) THEN "done" ELSE "open", pc |-> e.pc + 1]
Unread(e, script, r) == IF script[e.pc].do = "read" THEN Tail(r) ELSE r
Written(e, script, w) ==
  LET op == script[e.pc] IN IF op.do = "write" THEN Append(w, Msg(op.type)) ELSE w

\* stream.Close, which both ends defer, lets the other one read end of file.
Closed(e, w) == IF e.at \in Ended THEN Append(w, Msg("eof")) ELSE w

\* The next read or write of our goroutine succeeds.
OurStep(x) ==
  LET e1 == Moved(our[x], OurScript(stream[x])) IN
  /\ our[x].at = "open"
  /\ x \notin broken
  /\ Goes(our[x], OurScript(stream[x]), toUs[x])
  /\ our' = [our EXCEPT ![x] = e1]
  /\ toUs' = [toUs EXCEPT ![x] = Unread(our[x], OurScript(stream[x]), @)]
  /\ toPeer' = [toPeer EXCEPT ![x] = Closed(e1, Written(our[x], OurScript(stream[x]), @))]
  /\ UNCHANGED <<now, stream, their, late, broken>>

\* A read or a write fails, or the code is not success: log and return.
OurReturn(x) ==
  /\ our[x].at = "open"
  /\ x \in broken \cup late \/ Mismatch(our[x], OurScript(stream[x]), toUs[x])
  /\ our' = [our EXCEPT ![x].at = "failed"]
  /\ toPeer' = [toPeer EXCEPT ![x] = Append(@, Msg("eof"))]
  /\ UNCHANGED <<now, stream, their, toUs, late, broken>>

\* Mutant: sendStatus relies on the context it gave to NewStream.
DeadlineUntilOpen(x) == our[x].at = "opening"

\* Under a deadline: SetDeadline starts every script, and ctx bounds NewStream.
HasDeadline(x) == our[x].at \in {"opening", "open"}

\* streamTimeout goes by.  What has already arrived may still be read.
Expire(x) ==
  /\ HasDeadline(x)
  /\ x \notin late
  /\ late' = late \cup {x}
  /\ UNCHANGED <<now, stream, our, their, toUs, toPeer, broken>>

\* The stream is reset, or its connection goes.
Break(x) ==
  /\ our[x].at \in {"opening", "open"}
  /\ x \notin broken
  /\ broken' = broken \cup {x}
  /\ UNCHANGED <<now, stream, our, their, toUs, toPeer, late>>

\* The next read or write of a peer that keeps to the specification.
PeerStep(x) ==
  LET e1 == Moved(their[x], PeerScript(stream[x])) IN
  /\ their[x].at = "open" /\ stream[x].honest /\ x \notin broken
  /\ Goes(their[x], PeerScript(stream[x]), toPeer[x])
  /\ their' = [their EXCEPT ![x] = e1]
  /\ toPeer' = [toPeer EXCEPT ![x] = Unread(their[x], PeerScript(stream[x]), @)]
  /\ toUs' = [toUs EXCEPT ![x] = Closed(e1, Written(their[x], PeerScript(stream[x]), @))]
  /\ UNCHANGED <<now, stream, our, late, broken>>

\* It cannot decode what it reads: a request is then answered by an error.
PeerReturn(x) ==
  /\ their[x].at = "open" /\ stream[x].honest /\ x \notin broken
  /\ Mismatch(their[x], PeerScript(stream[x]), toPeer[x])
  /\ their' = [their EXCEPT ![x].at = "failed"]
  /\ toUs' = [toUs EXCEPT ![x] =
                (IF stream[x].dir = "out" THEN Append(@, Msg("error")) ELSE @) \o <<Msg("eof")>>]
  /\ UNCHANGED <<now, stream, our, toPeer, late, broken>>

\* Another peer sends anything, or nothing; one message at a time is enough.
PeerSends(x) ==
  /\ their[x].at = "open" /\ ~stream[x].honest /\ x \notin broken
  /\ our[x].at = "open" /\ toUs[x] = <<>>
  /\ \E t \in SSZ \cup Code \cup {"eof"} : toUs' = [toUs EXCEPT ![x] = <<Msg(t)>>]
  /\ UNCHANGED <<now, stream, our, their, toPeer, late, broken>>

SlotPasses ==
  /\ now < LastSlot
  /\ now' = now + 1
  /\ UNCHANGED <<stream, our, their, toUs, toPeer, late, broken>>

-----------------------------------------------------------------------------

OurAction(x) == NewStream(x) \/ NewStreamFails(x) \/ OurStep(x) \/ OurReturn(x)

Next ==
  \/ SlotPasses
  \/ \E x \in Stream :
       \/ Accept(x) \/ ConnectedF(x) \/ OurAction(x) \/ Expire(x) \/ Break(x)
       \/ PeerStep(x) \/ PeerReturn(x) \/ PeerSends(x)

Spec == Init /\ [][Next]_vars

(***************************************************************************)
(* Our goroutines are scheduled and our timers fire.  Nothing is assumed   *)
(* of the peer or of the network.                                          *)
(***************************************************************************)
Fairness == \A x \in Stream : WF_vars(OurAction(x)) /\ WF_vars(Expire(x))

FairSpec == Spec /\ Fairness

-----------------------------------------------------------------------------

\* Nothing went wrong on x other than what the two ends said to each other.
Undisturbed(x) == stream[x].honest /\ x \notin broken \cup late

\* An undisturbed stream that the peer opened is over, and how it ended.
Over(x) ==
  stream[x].dir = "in" /\ Undisturbed(x) /\ our[x].at \in Ended /\ their[x].at \in Ended
GotAnswer(x) == their[x].at = "done"

(***************************************************************************)
(* rpc.go, RegisterHandlers: undisturbed, a peer that asks for anything    *)
(* but version 1 of status gets just the answer that the version of its    *)
(* protocol calls for (three versions of metadata behind one handler), and *)
(* then the end of file.  Version 1 of status is StatusServed's.           *)
(***************************************************************************)
Answered ==
  \A x \in Stream : Over(x) /\ stream[x].proto # "status1" => GotAnswer(x)

(***************************************************************************)
(* rpc.go, RegisterHandlers, which registers the status handler for both   *)
(* versions, and handleStatus, "Try V2 first since it's a superset of V1": *)
(* undisturbed, a status request of either version is answered.            *)
(***************************************************************************)
StatusServed ==
  \A x \in Stream : Over(x) /\ stream[x].proto \in StatusProtocol => GotAnswer(x)

(***************************************************************************)
(* rpc.go, sendStatus: undisturbed, the "status handshake complete" of our *)
(* log is reached with just the peers that speak version 2, and the peer   *)
(* has then decoded our status.                                            *)
(***************************************************************************)
HandshakeWithV2 ==
  \A x \in Stream :
    stream[x].dir = "out" /\ Undisturbed(x) /\ our[x].at \in Ended
      => /\ our[x].at = "done" <=> "status2" \in stream[x].supports
         /\ our[x].at = "done" => their[x].at = "done"

(***************************************************************************)
(* rpc.go, MakeStatusProvider: the head we claim is never a slot that has  *)
(* not begun, from slot 0 on, however late the peer reads it.              *)
(***************************************************************************)
HeadNotAhead ==
  \A x \in Stream : \A k \in 1 .. Len(toPeer[x]) :
    toPeer[x][k].head \in 0 .. now

(***************************************************************************)
(* rpc.go, streamTimeout: every stream of ours ends, also when the peer    *)
(* never says a word, says part of what it should, or goes away.           *)
(***************************************************************************)
StreamsEnd ==
  \A x \in Stream : our[x].at \in {"opening", "open"} ~> our[x].at \in Ended
=============================================================================
