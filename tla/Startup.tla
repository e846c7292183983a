------------------------------ MODULE Startup ------------------------------
(***************************************************************************)
(* main.go: what the process does from its start to the point where all    *)
(* instances run, and how it ends; with config/config.go, node/host.go     *)
(* (key files and hosts), node/gossipsub.go (subscriptions) and            *)
(* metrics.go (the metrics server).  The process may be killed anywhere,   *)
(* and started again with the same key files and an edited configuration.  *)
(*                                                                         *)
(* runProbe loads all keys, creates all hosts, starts the services of each *)
(* instance, and then discovery for each; runCrawl does the same for its   *)
(* single instance, without gossipsub.                                     *)
(***************************************************************************)
EXTENDS Config, FiniteSets, SequencesExt

CONSTANTS
  Configs,  \* the configurations the operator may start it with
  Name,     \* instance names
  Dir,      \* key directories
  Key,      \* private keys
  Absent,   \* no key, or no key file
  Torn,     \* a key file that does not decode
  MaxPort,  \* the largest port number
  MaxRun    \* bound: how many times the process is started

ASSUME StartupAssumption ==
  /\ MaxPort \in Nat /\ MaxRun \in Nat \ {0}
  /\ Absent # Torn /\ {Absent, Torn} \cap Key = {}
  /\ Configs \subseteq ConfigFile(Name, Dir) /\ EmptyName \notin Name

\* The key files there may be.
Path == Dir \X Name

VARIABLES
  cfg,      \* the configuration, with its defaults once it is loaded
  pc,       \* which loop of runProbe the main goroutine is in
  k,        \* the instance that loop is at
  keyFile,  \* path -> the key in that key file, Absent or Torn
  key,      \* keys[]: instance number -> its key, Absent before it is loaded
  sockets,  \* open sockets: protocol, port and instance (0: the process)
  metrics,  \* whether the goroutine of the metrics server is still to listen
  exit,     \* why the process ended
  used,     \* history: key directory and name -> keys that host has had, over all runs
  run       \* which run of the process this is

procVars == <<cfg, pc, k, key, sockets, metrics, exit>>
vars == <<procVars, keyFile, used, run>>

PC == {"load", "keys", "save", "hosts", "services", "discovery", "running", "down"}
Exit == {"none", "config", "key", "io", "port", "topic", "signal", "killed"}

\* Every variable has a value the Go types allow.
TypeOK ==
  /\ pc \in PC /\ exit \in Exit /\ metrics \in BOOLEAN /\ run \in 1 .. MaxRun
  /\ (exit = "none") = (pc # "down")
  /\ k = 1 \/ k \in Instances(cfg)
  /\ keyFile \in [Path -> Key \cup {Absent, Torn}]
  /\ key \in [Instances(cfg) -> Key \cup {Absent}]
  /\ \A s \in sockets : s.port \in 1 .. MaxPort
  /\ used \in [Path -> SUBSET Key]

NoKeys(c) == [i \in Instances(c) |-> Absent]

Init ==
  /\ cfg \in Configs
  /\ pc = "load" /\ k = 1 /\ exit = "none"
  /\ key = NoKeys(cfg)
  /\ sockets = {} /\ metrics = FALSE
  /\ keyFile = [f \in Path |-> Absent]
  /\ used = [f \in Path |-> {}]
  /\ run = 1

-----------------------------------------------------------------------------

\* The process ends; the system closes what it had open.
End(why) ==
  /\ pc' = "down" /\ exit' = why
  /\ sockets' = {} /\ metrics' = FALSE

\* Mutant: the loop goes one past the last instance.
AdvanceTooFar(loop) ==
  IF k <= Len(cfg.instances) THEN k' = k + 1 /\ UNCHANGED pc
                             ELSE k' = 1 /\ pc' = loop

\* On to the next instance, or to the next loop.
Advance(loop) ==
  IF k < Len(cfg.instances) THEN k' = k + 1 /\ UNCHANGED pc
                            ELSE k' = 1 /\ pc' = loop

Keep == UNCHANGED <<sockets, metrics, exit>>
KeepKeys == UNCHANGED <<keyFile, key, used>>

\* config.Load and the log level; then the metrics server is started as a
\* goroutine.
Load ==
  /\ pc = "load"
  /\ cfg' = WithDefaults(cfg)
  /\ IF Validate(cfg') /\ cfg.logLevel
     THEN pc' = "keys" /\ metrics' = TRUE /\ UNCHANGED <<exit, sockets>>
     ELSE End("config")
  /\ UNCHANGED <<k, run>> /\ KeepKeys

-----------------------------------------------------------------------------
(* LoadOrGenerateKey.                                                      *)

\* Who the instance at hand is, to those who look at more than one run.
me == <<cfg.keyDir, cfg.instances[k].name>>
path == KeyFile(cfg, k)

\* A key nobody has ever had.
Fresh == Key \ UNION {{keyFile[f]} \cup used[f] \cup Range(key) : f \in Path}

\* Mutant: any error of os.ReadFile means that there is no key file.
CanGenerateAnyway == TRUE

\* os.IsNotExist(err)
CanGenerate == keyFile[path] = Absent

\* The file is read and decoded, or does not decode.
LoadKey ==
  /\ pc = "keys"
  /\ \/ /\ keyFile[path] \in Key
        /\ key' = [key EXCEPT ![k] = keyFile[path]]
        /\ Advance("hosts")
        /\ Keep
     \/ /\ keyFile[path] = Torn
        /\ End("key") /\ UNCHANGED <<k, key>>
  /\ UNCHANGED <<cfg, keyFile, used, run>>

GenerateKey ==
  /\ pc = "keys"
  /\ CanGenerate
  /\ \E new \in Fresh : key' = [key EXCEPT ![k] = new]
  /\ pc' = "save"
  /\ UNCHANGED <<cfg, k, keyFile, used, run>> /\ Keep

SaveKey ==
  /\ pc = "save"
  /\ keyFile' = [keyFile EXCEPT ![path] = key[k]]
  /\ IF k < Len(cfg.instances) THEN k' = k + 1 /\ pc' = "keys" ELSE k' = 1 /\ pc' = "hosts"
  /\ UNCHANGED <<cfg, key, used, run>> /\ Keep

(***************************************************************************)
(* os.WriteFile truncates and then writes.  If it fails or the process is  *)
(* killed meanwhile, the file may be missing, undecodable or half written; *)
(* half of the hexadecimal digits are 32 bytes, and read as a raw key.     *)
(***************************************************************************)
SaveFails ==
  /\ pc = "save"
  /\ \E left \in {Absent, Torn} \cup Fresh : keyFile' = [keyFile EXCEPT ![path] = left]
  /\ \E why \in {"io", "killed"} : End(why)
  /\ UNCHANGED <<cfg, k, key, used, run>>

-----------------------------------------------------------------------------
(* Sockets.                                                                *)

Socket(proto, port, owner) == [proto |-> proto, port |-> port, owner |-> owner]

Free(proto, port) == \A s \in sockets : s.proto # proto \/ s.port # port

\* Port 0 is replaced by a free port, which the model leaves out.
Opened(wanted) == {s \in wanted : s.port \in 1 .. MaxPort /\ Free(s.proto, s.port)}

Refused(wanted) == {s \in wanted : s.port # 0 /\ ~Free(s.proto, s.port)}

OutOfRange(wanted) == \E s \in wanted : s.port > MaxPort

\* Mutant: every host gets the base TCP port.
HostSocketsAtBase(c, i) ==
  (IF c.instances[i].quicOnly THEN {} ELSE {Socket("tcp", c.tcp, i)})
    \cup {Socket("udp", QUICPort(c, i), i)}

HostSockets(c, i) ==
  (IF c.instances[i].quicOnly THEN {} ELSE {Socket("tcp", TCPPort(c, i), i)})
    \cup {Socket("udp", QUICPort(c, i), i)}

\* Only the first instance gets the discv4 port.
V4Socket(c, i) == IF i = 1 /\ c.v4 # 0 THEN {Socket("udp", c.v4, 0)} ELSE {}

DiscSockets(c, i) == {Socket("udp", DiscV5Port(c, i), i)} \cup V4Socket(c, i)

(***************************************************************************)
(* NewHostWithKey.  libp2p (external) refuses an address that does not     *)
(* parse, but only minds a port in use if it can listen on no address.     *)
(***************************************************************************)
NewHost ==
  LET wanted == HostSockets(cfg, k) IN
  /\ pc = "hosts"
  /\ IF OutOfRange(wanted) \/ Refused(wanted) = wanted
     THEN End("port") /\ UNCHANGED <<k, used>>
     ELSE /\ sockets' = sockets \cup Opened(wanted)
          /\ used' = [used EXCEPT ![me] = @ \cup {key[k]}]
          /\ Advance("services")
          /\ UNCHANGED <<metrics, exit>>
  /\ UNCHANGED <<cfg, keyFile, key, run>>

\* SubscribeSubnets: a topic can be joined only once.
JoinsTwice == \E i, j \in DOMAIN cfg.subnets : i # j /\ cfg.subnets[i] = cfg.subnets[j]

\* Handlers, peer manager, and in probe mode gossipsub, topics and log file.
StartServices ==
  /\ pc = "services"
  /\ \/ /\ cfg.mode = "probe" /\ JoinsTwice
        /\ End("topic") /\ UNCHANGED k
     \/ /\ ~(cfg.mode = "probe" /\ JoinsTwice)
        /\ Advance("discovery") /\ Keep
  /\ UNCHANGED <<cfg, run>> /\ KeepKeys

\* StartDiscovery, with the sockets of discv5 and discv4.
StartDiscovery ==
  LET wanted == DiscSockets(cfg, k) IN
  /\ pc = "discovery"
  /\ IF OutOfRange(wanted) \/ Refused(wanted) # {}
     THEN End("port") /\ UNCHANGED k
     ELSE /\ sockets' = sockets \cup Opened(wanted)
          /\ Advance("running")
          /\ UNCHANGED <<metrics, exit>>
  /\ UNCHANGED <<cfg, run>> /\ KeepKeys

\* A key file cannot be read, a host not be made, a log or crawl file not opened.
IOFails ==
  /\ pc \in {"keys", "hosts", "services", "discovery"}
  /\ End("io")
  /\ UNCHANGED <<cfg, k, run>> /\ KeepKeys

\* metrics.Serve, a goroutine, gets to listen; an error is only logged.
ServeMetrics ==
  /\ metrics
  /\ metrics' = FALSE
  /\ sockets' = sockets \cup Opened({Socket("tcp", cfg.metrics, 0)})
  /\ UNCHANGED <<cfg, pc, k, exit, run>> /\ KeepKeys

-----------------------------------------------------------------------------
(* The end, and the next start.                                            *)

\* SIGINT once signals are waited for: cancel, and the clean-up function.
Shutdown ==
  /\ pc = "running"
  /\ End("signal")
  /\ UNCHANGED <<cfg, k, run>> /\ KeepKeys

\* Before that, a signal kills the process; and a crash does so at any time.
Kill ==
  /\ pc \notin {"down", "save"}
  /\ End("killed")
  /\ UNCHANGED <<cfg, k, run>> /\ KeepKeys

Restart ==
  /\ pc = "down"
  /\ run < MaxRun
  /\ run' = run + 1
  /\ cfg' \in Configs
  /\ key' = NoKeys(cfg')
  /\ pc' = "load" /\ k' = 1 /\ exit' = "none"
  /\ UNCHANGED <<sockets, metrics, keyFile, used>>

Next ==
  \/ Load \/ LoadKey \/ GenerateKey \/ SaveKey \/ SaveFails
  \/ NewHost \/ StartServices \/ StartDiscovery \/ IOFails \/ ServeMetrics
  \/ Shutdown \/ Kill \/ Restart

Spec == Init /\ [][Next]_vars

-----------------------------------------------------------------------------

(***************************************************************************)
(* host.go, LoadOrGenerateKey, and config.go, KeyFile: an instance of the  *)
(* same name and key directory has the same identity in every run in which *)
(* it gets as far as a host, however earlier runs ended, whatever else the *)
(* operator changed in between (its position, other instances, ports; the  *)
(* key directory, and changed back), and also when a key file cannot be    *)
(* read for once or was half written.  With another key directory it is a  *)
(* new instance.                                                           *)
(***************************************************************************)
OneIdentity == \A who \in Path : Cardinality(used[who]) <= 1

(***************************************************************************)
(* main.go, runProbe, "derive peer IDs": no two instances ever have the    *)
(* same identity, whether in one run or in two, or of the same name in     *)
(* different key directories.  The gater and the inbound enforcement of    *)
(* disjoint peer sets take siblings apart by it.                           *)
(***************************************************************************)
DistinctHosts == \A m, n \in Path : m # n => used[m] \cap used[n] = {}

\* What Validate leaves to the operator.
Consistent ==
  /\ ~JoinsTwice
  /\ \A u \in PortUse(cfg) : PortOf(cfg, u) <= MaxPort
  /\ cfg.metrics <= MaxPort
  /\ cfg.metrics # 0 => \A i \in Instances(cfg) : cfg.metrics # TCPPort(cfg, i)

(***************************************************************************)
(* config.go, Validate: a configuration that it accepts and that has no    *)
(* duplicate subnet, no port out of range and no instance on the metrics   *)
(* port never fails in start-up over its own ports and topics, in whatever *)
(* order they are opened and whenever the metrics server gets its turn.    *)
(***************************************************************************)
AcceptedStarts ==
  exit \in {"port", "topic"} => ~Consistent

(***************************************************************************)
(* config.go, Validate, "port collisions across all instances and port     *)
(* types", with host.go, where libp2p does not report a transport that     *)
(* cannot listen: once the process runs, every instance listens on every   *)
(* port it was given, and so does the metrics server when its turn comes.  *)
(***************************************************************************)
AllListening ==
  pc = "running" /\ Consistent =>
    /\ \A i \in Instances(cfg) : \A s \in HostSockets(cfg, i) \cup DiscSockets(cfg, i) :
         s.port # 0 => s \in sockets
    /\ metrics \/ cfg.metrics = 0 \/ Socket("tcp", cfg.metrics, 0) \in sockets

(***************************************************************************)
(* config.go, Load, "max peers (0 = 10*D)", with peermanager.go, where 0   *)
(* means no cap: no instance of a probe runs without a cap by accident.    *)
(***************************************************************************)
NeverUncapped ==
  pc \in {"services", "discovery", "running"} /\ cfg.mode = "probe" =>
    \A i \in Instances(cfg) : cfg.instances[i].maxPeers # 0
=============================================================================
