# A TLA+ model of beaconprobe

beaconprobe joins the Ethereum consensus p2p network with one or more libp2p
hosts in one process, finds peers with discv5/discv4, dials them, subscribes to
attestation subnets and logs when attestations and blocks arrive. This directory
holds TLA+ modules translated from its Go source, TLC configurations, and TLAPS
proofs. `PROJECT.json` maps each definition to the source lines it stands for.

## 1. Inventory

| Component | State | Operations | Talks to |
|---|---|---|---|
| Shared peer set (`node/sharedpeerset.go`) | peer → owner, round-robin cursor, one mutex | AssignOrGet, Claim, Owner | called by peer finder, gaters, inbound enforcement |
| Peer finder (`node/peerfinder.go`) | instance → peers, one mutex | AddPeer/Route, GetPeers, IsConnectedToAny | called by walkers and bootstrap loop; pulled by peer managers |
| Gater (`node/gater.go`) | sibling IDs | five Intercept callbacks | called by the swarm; claims peers |
| Inbound enforcement (`node/inbound.go`) | event subscription | one event at a time: claim, close | event bus, shared peer set |
| Peer manager (`node/peermanager.go`) | backoff map, semaphore, in-flight counter | Run, handleCandidate | peer finder, libp2p Connect |
| Block tracker (`node/block.go`) | slot → arrival, lastCleanup | Record, GetBlockArrival, cleanup, ListenForBlocks | block subscription; read by attestation loggers |
| Attestation logger (`node/attestation.go`) | channel, pending slots, timer | collectSubnet, flushSlots, logSlotAttestations | subnet subscriptions, block tracker |
| User agents (`node/useragent.go`) | peer → agent, counts, gauge | identify and connectedness events | event bus |
| Discovery (`discovery/discovery.go`) | iterators | discoverPeers, RouteBootstrapPeers, ENR filters | PeerRouter (the peer finder), crawl writer |
| Crawl file writer (`discovery/discovery.go`) | seen, pending, file | HasPeer, RegisterENR, WriteConnected | walkers, network notifee |
| RPC (`rpc/rpc.go`) | none but the stream at hand | four handlers, SendStatusOnConnect, sendStatus, attnets and status | libp2p streams (which may dial) |
| Configuration (`config/config.go`) | parsed file | Load, Validate, ports, key files | main |
| Host and keys (`node/host.go`) | key files | LoadOrGenerateKey, NewHostWithKey | main, libp2p |
| Lifecycle (`main.go`) | context, hosts, log files | main, runProbe, runCrawl, clean-up | everything |
| Gossipsub (`node/gossipsub.go`), scoring, connectivity report, metrics | library parameters, topics, counters | SubscribeSubnets, Serve | main |

What makes it correct, and where it is hard:

* *Ownership.* Every peer belongs to at most one instance, for ever. Walkers,
  the bootstrap loop, the gaters of all instances and the inbound handlers race
  for the table; dials outlive the decision to make them; `sendStatus` can dial
  behind the peer manager's back.
* *Dialling.* The peer cap is checked long before it is used; the limit on what
  is in flight adds two numbers read at different times; the same peer can be in
  flight more than once; a token lost would stop the loop.
* *Slot accounting.* Attestations come late or early, channels fill up, blocks
  come out of order, the logger races the block listener, and slot arithmetic is
  unsigned.
* *Counting agents.* Two event queues without a common order.
* *Crawling and bootstrapping.* Two walkers and a notifee check and act under
  separate acquisitions of one lock; ENRs change under way, and the file with old
  ones survives the process.
* *Identity and start-up.* Keys are made and saved in a process that may be
  killed in between; ports come from formulas, and part of a failed listen is
  silent; configurations are edited between runs.
* *Streams.* Two versions of the status protocol behind one handler, peers that
  stay silent, deadlines, slot arithmetic at genesis.

## 2. Modules

| Module | Models | Extends |
|---|---|---|
| `SharedPeerSet` | the table, one step per method, and a history of what it dealt | |
| `DisjointPeers` | abstract: take a peer once, link only to what you took | |
| `Probe` | probe mode: start-up, routers, gaters, swarm, inbound handler, status redial | `SharedPeerSet`; implements `DisjointPeers` |
| `ProbeProofs` | TLAPS proofs about `Probe` | `Probe`, `TLAPS` |
| `RoundRobinProofs` | proof that `Probe` deals its peers evenly | `ProbeProofs` |
| `PeerManager` | the dial loop and its goroutines | |
| `PeerManagerProofs` | proofs about `PeerManager` | `PeerManager`, `TLAPS` |
| `DialHistory` | `PeerManager` with a count of the dials made | `PeerManager` |
| `BlockTracker` | block table, pruning, `ListenForBlocks` | |
| `SlotLog` | attestation pipeline over the block tracker | `BlockTracker` |
| `SlotLogProofs` | proofs about `SlotLog` and the block tracker under it | `SlotLog`, `TLAPS` |
| `UserAgents` | the agent tracker | |
| `UserAgentsProofs` | proofs about `UserAgents` | `UserAgents`, `TLAPS` |
| `Enr` | subnet bits, ENR filters, conversion to addresses; reference definitions | |
| `Discovery` | walkers, crawl file writer and notifee, bootstrap loop, over several runs | `Enr` |
| `DiscoveryProofs` | what the two subnet functions compute, and proofs about `Discovery` | `Discovery`, `TLAPS` |
| `Config` | defaults, validation, ports, key files | |
| `Startup` | key files, hosts, sockets, topics, exits, kills and restarts | `Config` |
| `StartupProofs` | proofs about `Startup` | `Startup`, `TLAPS` |
| `Rpc` | both ends of a request/response stream | |
| `RpcProofs` | proofs about `Rpc` | `Rpc`, `TLAPS` |
| `MC…` | constants and symmetry sets for TLC | |

### Correspondence

**SharedPeerSet.** A method holds the mutex from its first to its
last line, so it is one step. A missing map entry is `NoOwner`. `nextIdx` is a
natural number: the code's uint64 cannot wrap in the life of a process. `dealt` is
a history variable: the peers that `AssignOrGet` gave out, as opposed to those that
were claimed.

**Probe.** A router (a walker or the bootstrap loop) is at one of three points:
outside `Route`, before the lock of the peer set (`assign`), or between that lock
and the peer finder's (`store`), holding the owner it read. A connection goes
`dialing → connected` or `secured → connected`, with the gater's callbacks at the
point where libp2p makes them. libp2p is external and modelled as the code uses
it: a dial ends either way; a remote peer may connect to any listening instance
at any time; a sibling only if it is dialling; the event bus blocks its emitter
when a subscription's buffer (`EventBuf`) is full and drops what nobody has
subscribed to; `NewStream` dials a peer that is not connected. Backoff and limits
only restrict who is dialled when, so `PullDial` allows any stored peer; they are
modelled in `PeerManager`. A host's own IDs are among the peers, because
discovery finds them. Connectedness is per peer: several connections to one peer
are one link.

**PeerManager.** `pc` is the place in `Run`, `task` the place of each goroutine
in `handleCandidate` and in the deferred function. `tooManyInFlight` is two steps
(`ReadPeers`, then the check that loads the counter); the token and the counter
go down in two steps. One libp2p dial serves every goroutine that waits for the
same peer; its outcome reaches all of them, and each may time out alone. Time is
ticks; a backoff entry holds the ticks left. GetPeers' skip callback is evaluated
for all peers in one step: a peer whose state changes meanwhile is checked again
by `Check`.

**BlockTracker, SlotLog.** Time is counted in slots, subtraction is modulo
`Modulus`. Nothing compares an incoming slot with the clock, so any slot may come
at any time. `firstSeen`, `newest` and `inTime` are history variables.
`HandleBlock` is one step, although `Record` and `cleanup` take the lock one after
the other: a lookup in between sees the new block and entries about to be pruned,
on which no property depends.
A collector holds the attestation it cannot send yet; `flushSlots` is `Buffer`
and `Flush`; a logger goroutine looks up the block once (`LookUp`) and then writes
line by line (`WriteEntry`). `Shutdown` is main's: cancel, then close the files. A
goroutine that returns on `ctx.Done`, or is cut off by the exit of the process, is
one that takes no further step, which the specification allows from the signal
on; a line written after the files were closed is `dropped`, since slog reports no
error.

**UserAgents.** A user agent is a record of the parts that `normalizeUserAgent`
tells apart: name, optional `v`, major version, rest. The two subscriptions are
made one after the other, and what happens before them is lost to the tracker;
`SubscribedSpec` is the same system with nothing happening until both exist.

**Enr.** A byte is the set of its one bits. Absent entries are a digest nobody
has, an empty vector, or port 0, which is how the code treats them all. The two
address strings become the two transports. `enodeToAddrInfo` returns no address
where the code returns an error or nil: both callers skip both.

**Discovery.** Every use of the writer's lock is a step; the notifee runs some
time after the connection is up. A peer publishes a list of ENRs over time
(`Enrs`), and a walker or a line of the file may show an old one. A line of the
bootstrap file goes by the current ENR if `RequestENR` answers and by the old one
if not. The order of the lines is random, as after the shuffle. `Restart` starts
the process again in either mode and loses everything but the file; a restart
also stands for the end of the goroutines after a signal. The probe reads the file
that the crawler wrote, which is how the two modes are used together. `early` is
a history variable.

**Config, Startup.** A configuration is a record; `WithDefaults` and `Validate`
follow `Load` and `Validate`, and a log level that does not parse ends the process
in the same step. A key file is a pair of key directory and instance name, and
`Restart` may change either. The three loops of `runProbe` are walked instance by
instance (`k`); `runCrawl` is the same walk with one instance and without topics.
`os.WriteFile` may leave a key file missing, undecodable (`Torn`) or, since the
first 32 of 64 hex digits are read as a raw key, with a key nobody had. libp2p is
external: it refuses addresses that do not parse, and a host with no address to
listen on, but not a host with fewer addresses than asked for. A port 0 is the
system's to choose and is left out of `sockets`. The metrics server listens
whenever its goroutine is scheduled. Pairs of directory and name are taken to name
different files; names or directories that clean to the same path (`a/../b`) would
share one.

**Rpc.** Each end of a stream runs a script of reads and writes, and the first
that fails ends it; the deferred `Close` shows the other end an end of file. The
SSZ types have different fixed sizes, so a message decodes into its own type
only. A peer follows the consensus p2p specification (external), or is silent,
or sends anything. A status is made when it is written; `handleStatus` computes it
before it writes the response code, so the code's head slot may be older by then
than the model's, never newer. The deadline may strike anywhere (`Expire`), and what has
already arrived may still be read after it.

## 3. Runs

| Run | Result | What it shows |
|---|---|---|
| `probe` | pass | `Balanced`: peers dealt by discovery stay spread within one of each other, whatever claims come between; `DisjointPeerSets`, `DialsOnlyOwned`, `SafetyNetIdle`, `NoSiblingLink`, the refinement `KeepsPromise`, and `NeverDropped`: what enters `Route` gets stored. |
| `dialer` | pass | `Accounted`, `InFlightBounded`, `OvershootBounded`. |
| `dialer_live` | pass | `StopsOnCancel`, `KeepsDialling`. |
| `dialer_failures` | violation | Two goroutines wait for one dial of the same peer, and both record its failure; no cancellation is involved. |
| `slots` | pass | `ExactlyOnce`, `OnlyCompleted`, `EventuallyLogged`; `RecentKept` and `StaleDropped` away from genesis; all with a shutdown at any point. |
| `slots_status` | violation | A block received in time, slot logged as missed. |
| `agents` | pass | `CountsMatch`. |
| `agents_gauge` | violation | A peer that is gone stays in the gauge, although the tracker has missed no event. |
| `discovery` | pass | `NoDuplicateInRun`, `RoutedIsKnown`, `ConnectedIsWritten` for the crawler; `KeptPassesFilters` and `AttnetsAgree` for what is let in; `BootstrapReaches`: a good peer of the bootstrap file is routed, whatever fails for others. |
| `startup` | pass | `OneIdentity` and `DistinctHosts` over kills and edited configurations, the key directory included; `AcceptedStarts` and `AllListening` for what `Validate` accepts; `NeverUncapped`. |
| `rpc` | pass | `Answered` (every protocol but status version 1), `HandshakeWithV2`, `HeadNotAhead`, `StreamsEnd`. |
| `rpc_status` | violation | A status request of version 1 gets no answer. |

Deadlock checking is off everywhere, because each model stops where the
environment has nothing left to do (all peers found, clock at its bound); progress
is checked by the temporal properties instead.

### Bounds

* `probe`: two instances, two routers, one remote peer and both host IDs. Every
  race is between two actors over one peer; the host IDs make siblings
  discoverable. The buffer of two lets an event wait behind another. Three peers
  dealt to two instances make the cursor wrap, and with one of them claimed it
  stands where it should only if the claim left it alone. The theorems
  below remove these bounds for the safety properties.
* `dialer`: cap 1, slack 1, three goroutines and three tokens. The limit
  `MaxPeers + Slack = 2` is below both, so it is the code's check, not the number
  of goroutines or tokens, that keeps it.
* `dialer_live`: one token for two goroutines, so that `Run` has to wait for it,
  and batches of one, because the order in which `Spawn` takes a larger batch is
  not subject to a fairness assumption. At the cap a peer may rightly never be
  dialled, so `KeepsDialling` excuses it.
* `slots`: window 1 for the code's 64 and three consecutive slots, so that blocks
  inside, at and beyond the window occur; slots start at 4, above the window, as
  they do on any running network. A channel of one and two attestations: the
  collector blocks with an attestation in hand. Collectors meet only in the
  channel, so one shows what several would. The clock stops at `LastSlot`, so
  attestations for that slot are left out: it never completes.
* `agents`: two peers and two versions of one client with the same major version
  (same label), a bare name and an empty string; buffers of two.
* `discovery`: two walkers, two peers, two runs: the second run can be a probe on
  the file of the first. One peer leaves the wanted subnets and drops QUIC with its
  second ENR, whose bit vector has one byte only; the other stays as it is. The
  subnets are the first bit of a byte, the last bit of the vector and one out of
  range. A digest of another fork does not occur in the run: it is filtered in the
  same place as the subnets, and `KeptPasses` covers it. The theorems remove these
  bounds for the safety properties.
* `startup`: one or two instances in either order, quic-only or not, with ports so
  close together that the strides 2, 2 and 1 make them meet, a metrics port that
  meets a TCP port, and configurations that `Validate` refuses or should perhaps
  refuse, and one whose log level does not parse. Three runs and four keys: a key
  can be lost in the first run, made in the second and used in the third. Two key
  directories: the operator can move to the other one and back. The theorems remove these bounds.
* `rpc`: one stream, since streams share nothing but the clock, and slots 0 to 3,
  so that the head is computed at genesis and becomes old in transit.
* The violations keep to what they are about: `dialer_failures` stops at the signal
  (`HistoryNext`), so that no failure comes from a dead context, and
  `agents_gauge` starts with both subscriptions (`SubscribedSpec`).

### Fairness

* `Probe`: a router inside `Route` takes two locks that are held for a few map
  operations; weak fairness of both steps. Nothing is assumed of the network.
* `PeerManager`: the Go scheduler runs every goroutine and time passes (weak
  fairness of `RunStep`, `TaskStep`, `Tick`); `dialTimeout` ends every wait
  (`GiveUp`). Strong fairness of `Return`: Go's `select` chooses at random among
  ready cases, so `ctx.Done` is taken if it is ready again and again. Strong
  fairness of pulling a given peer: `GetPeers` shuffles. No fairness of dials
  succeeding, peers being found or cancellation. Both strong assumptions hold with
  probability one.
* `SlotLog`: scheduling and the clock; strong fairness of `Flush`, because
  `select` may choose the channel while the timer is ready, but not for ever. All
  of it only until the signal, and no fairness for gossip delivery.
* `Discovery`: weak fairness of the bootstrap loop, which waits for nobody:
  `RequestENR` has a timeout of its own, and the pause between passes ends. None
  of the walkers, the network or connections.
* `Rpc`: our goroutines are scheduled and our timers fire. Nothing is assumed of
  the peer or of the network, which is what `StreamsEnd` is about.

## 4. Findings

* **Failures counted more than once** (`node/peermanager.go:140`). `shouldSkip`
  does not know what is in flight, so `Run` pulls the same peer again at once; all
  its goroutines share one libp2p dial, and each records the failure. TLC's trace
  is two goroutines that wait for the same dial. With few
  eligible peers one failed dial can push a peer to the longest backoff.
* **Block status not yet known** (`node/attestation.go:102`): the slot's block is
  still queued for `ListenForBlocks` when the slot is logged.
* **Gauge drift** (`node/useragent.go:73`): the `select` takes a disconnect before
  the identification that came earlier in the other queue.
* **Version 1 of status is registered but never answered** (`rpc/rpc.go:81`). The
  comment at line 79 takes version 2 for a superset of version 1 and speaks of
  trying it first; the SSZ sizes are fixed and different, so a version 1 request
  fails to decode, and nothing else is tried. `Answered` is about the other
  protocols. A version 1 peer fails our own request likewise (`HandshakeWithV2`),
  about which the code says nothing.

Seen on the way, and kept out of the properties by what they presuppose:

* Near genesis `slot - 64` (`node/block.go:109`) wraps and pruning empties the
  table. The probe runs on mainnet only, far from there.
* A peer that connects inbound between the walker's connectedness check and
  `RegisterENR` is not written for that connection (`early`); the next one writes
  it.
* `Validate` accepts duplicate subnets, ports above 65535 and a metrics port that
  an instance uses; the first two end start-up with an error, the last one costs
  either the metrics server or a TCP listener, silently (`Consistent`).
* A disconnect between the two subscriptions of `TrackUserAgents`
  (`node/useragent.go:49-56`) is lost, which is another way for the gauge to drift.
* An operator who edits `key-dir` gives every instance a new identity, and its old
  one back with the old directory. `OneIdentity` is per directory and name.

A restarted crawler appends to its old file with an empty `seen`, so the ENRs of an
earlier run are written again; `NoDuplicateInRun` is the promise the code keeps.

`SafetyNetIdle` is the opposite of a finding: the race that the comment of
`HandleInboundPeers` guards against cannot happen, because assignments are
permanent. The handler is redundant.

## 5. Proofs

Every invariant that a passing run checks is also proved, for every value of the constants
that the named assumptions allow; so is the refinement `KeepsPromise`. The
invariants that the proofs induct over were checked with TLC first.

`ProbeProofs` proves, for every number of instances, peers and routers and every
buffer size, the six safety results of run `probe`: `TypeCorrect`,
`PeerSetsDisjoint`, `OutboundIsOwned`, `NetNeverNeeded`, `SiblingsApart` and
`ProbeKeepsPromise` (the refinement).

Assumptions: `InstancesAssumption` (what `config.Validate` establishes: at least
one instance, names unique and not empty) and `ProbeAssumption` (hosts have
different IDs; `NoPeer` is no peer).

None of the properties is inductive. Two instances may not be connected to one
peer because a connection presupposes ownership; ownership has to hold from the
moment an instance stores, dials, upgrades or owes a Status request to the peer
(`Owned`), which for stored peers depends on what a router read before it released
the first lock (`RouterKnowsOwner`). The handler could break `connected` only if
an event were about somebody else's peer (`SafetyNetIdle`, an invariant in its own
right). Siblings are kept apart at two points, before the dial and after the
handshake (`NoHostAtTheDoor`). The inductive invariant is

    IInv == TypeOK /\ RouterKnowsOwner /\ Owned /\ SafetyNetIdle /\ NoHostAtTheDoor

All of it rests on one fact about the table, stated for its two methods
(`AssignOrGetGrows`, `ClaimGrows`): an assignment, once made, stays. Each action
then has one step in `NextIInv`. The refinement shows from the same invariant that
every step takes a peer, connects a peer that was taken, drops a link, or changes
neither table nor links; `HandleInboundIdle` shows that the inbound handler is
always of the last kind.

`RoundRobinProofs` proves `Balanced` of the same specification, with every caller
of the table in place, for any number of instances and peers. The
inductive form says where the cursor is: after `q` full turns and `r` instances of
the next one (`Turns`), the first `r` instances have `q + 1` of the dealt peers and
the others `q`. Claims leave both alone, and a peer that was claimed is not dealt.

`PeerManagerProofs` proves all safety properties of run `dialer`, for any number of
peers and goroutines, every cap, slack, batch and number of tokens, from
`PeerManagerAssumption`. That peers and goroutines are finitely many is what makes
counting them meaningful; that the shifted backoff is a positive number says that
it does not overflow (the code caps the shift at 10).

* `TypeCorrect` and `AccountedHolds` are proved together: that a token is there to
  be released is `Accounted`.
* `InFlightBoundedHolds` needs `RoomSeen`: between `tooManyInFlight` and the `go`
  statement the sum it compared still stands, because meanwhile the counter can
  only go down. The number of peers in the sum may be out of date, which the bound
  does not depend on.
* `OvershootBoundedHolds` follows from the same invariant: whoever starts to dial
  has just seen room under the cap, and all others who dial are in flight.

`SlotLogProofs` proves all safety properties of run `slots`, for any number of
collectors and attestations, any slots, window and channel size, from
`BlockTrackerAssumption` (the clock and a window beyond it stay below the modulus;
`slots.StartTime` fails long before) and `SlotLogAssumption`:

* `RecentKeptHolds` has the hypothesis `Window <= FirstSlot`: before slot 64,
  `slot - 64` wraps and pruning empties the table (section 4). It needs that the
  table holds only what was seen (`Seen`). `StaleDroppedHolds` needs no such
  hypothesis.
* `OnlyCompletedHolds` needs `RouteInv`: wherever an attestation is, it was
  delivered, and it is buffered and handed to a logger for its own slot.
* `ExactlyOnceHolds` adds that a delivered attestation is at one of six places
  (`OnePlace`) and there once (`Once`): in one collector, once in the channel, in a
  slice or in one logger. Every action moves one attestation, or one slice of them,
  from place to place. The sum of sizes that `ExactlyOnce` states follows.

`UserAgentsProofs` proves the types of the agent tracker and `CountsMatch`, for any
number of peers, names and events; the two are inductive together, since a count
that could be 0 for a tracked peer would go below.

`DiscoveryProofs` first proves what the two subnet functions compute, for all sets
of subnets and all ENRs: `VectorIsExact`, `OverlapIsExact`, and from the two
`WriterMeetsReader`. The argument is that a subnet has exactly one byte and bit.

It then proves all safety properties of run `discovery`, for any number of
walkers, peers, ENRs and runs, from `DiscoveryAssumption` (the constants have their
types). None but the types and the bits is inductive as it stands:

* `NoDuplicates` needs that what was written in this run is in `seen`
  (`WrittenIsSeen`): a walker can register a peer again after it was written.
* `RoutedKnown` needs that a walker about to route has registered (part of
  `ModeInv`), and that nobody is between the writer's locks in probe mode.
  `ConnectedWritten` follows from `NotifeeInv`: every connection is still to be
  notified, came too early, or led to a line.
* `KeptPasses` needs the same of the ENR that a goroutine has in hand
  (`HandPasses`), since the filters run steps before the peer is stored.

`StartupProofs` proves all properties of run `startup`, for every set of
configurations, every `MaxPort` and any number of runs, from `StartupAssumption`
(configurations are of their type, keys and markers differ):

* `IdentityIsKept` and `IdentitiesDiffer` rest on `KeysInv`, a key in memory is the
  one in its file or is about to be saved, and `IdInv`, an identity ever used is
  still in its file and in no other: a key is used only after it was saved. Both are
  per key directory and name; that the files of one accepted configuration are
  different is `PathsOK`.
* `AcceptedConfigStarts` and `EverythingListens` rest on `SockInv`: the open
  sockets are those of the loops gone through, and of nobody else. That none of
  them is refused follows from `NoCollision` and the port formulas (`NoClash`).

`RpcProofs` proves all safety properties of run `rpc`, for any number of streams and
any clock, from `RpcAssumption` (the clock stays below the modulus):

* `TypeCorrect` needs that an end that is open has not run off its script, and that
  one that is not open has done nothing (`ScriptInv`). `HeadNotAheadHolds` adds that
  the clock does not go back.
* `AnsweredHolds` and `HandshakeWithV2Holds` rest on `TalkInv`, which says of an
  undisturbed stream how far its two ends are apart. With every protocol but version
  1 of status it is a `Dialogue`: what is under way to the asking end continues the
  answer just where that end has stopped reading, and the request is under way until
  it is read, so neither end ever meets something it cannot decode. With version 1
  it is `Deaf`: the answering end reads nothing, and sends no more than an error.
  The two are stated and proved for an asking and an answering end (`AskerStep`,
  `AnswererStep`, `DeafAskerStep`, ...) and used in both directions; that our
  handlers and the peer's scripts are of that form is `InScripts`, `OutScripts` and
  `V1Scripts`.

Only model-checked: the liveness properties `NeverDropped`, `StopsOnCancel`,
`KeepsDialling`, `EventuallyLogged`, `BootstrapReaches` and `StreamsEnd`, which need
fairness; and the four violations, which are counterexamples.

## 6. Not modelled

* Scoring and gossipsub parameters: floating-point numbers handed to a library.
* The connectivity report, which reads the network and changes nothing, and the
  metrics other than the agent gauge.
* YAML, SSZ, snappy and multiaddress encodings, other than by what they let
  through.
* A fork while the process runs: the fork digest is computed once.
* `peermanager.go:86`: above the cap the loop may spin; the cost is processor
  time, which the models do not measure.
* `analysis/` holds data, not code.

## 7. Plan

All invariants of the runs are proved. What is left is an abstract specification of
the attestation pipeline and of the dial loop with a proved refinement, as there is
one for the probe.
