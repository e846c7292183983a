--------------------------- MODULE StartupProofs ---------------------------
(***************************************************************************)
(* Proofs about start-up, for any number of instances, keys, ports, runs   *)
(* of the process, and configurations.                                     *)
(***************************************************************************)
EXTENDS Startup, SequenceTheorems, FiniteSetTheorems, TLAPS

-----------------------------------------------------------------------------
(* The configuration.                                                      *)

\* A sequence built entry by entry.
LEMMA SeqOfEntries ==
  ASSUME NEW S, NEW q \in Seq(S), NEW f, f = [i \in DOMAIN q |-> f[i]],
         \A i \in DOMAIN q : f[i] \in S
  PROVE  f \in Seq(S) /\ Len(f) = Len(q)
<1>1. Len(q) \in Nat /\ DOMAIN q = 1 .. Len(q)
  OBVIOUS
<1>2. f \in [1 .. Len(q) -> S]
  BY <1>1
<1>3. [1 .. Len(q) -> S] \in {[1 .. n -> S] : n \in Nat}
  BY <1>1
<1>4. f \in Seq(S)
  BY <1>2, <1>3, SeqDef, Zenon
<1> QED BY <1>1, <1>2, <1>4

\* Load changes no name, and leaves no instance with a mesh uncapped.
LEMMA Defaults ==
  ASSUME NEW c \in ConfigFile(Name, Dir)
  PROVE  /\ WithDefaults(c) \in ConfigFile(Name, Dir)
         /\ Instances(WithDefaults(c)) = Instances(c)
         /\ \A i \in Instances(c) :
              /\ WithDefaults(c).instances[i].name = c.instances[i].name
              /\ WithDefaults(c).instances[i].gossipD > 0 =>
                   WithDefaults(c).instances[i].maxPeers # 0
<1> DEFINE d == WithDefaults(c)
           S == InstanceConfig(Name)
<1>1. c.instances \in Seq(S) /\ Len(c.instances) \in Nat /\ DOMAIN c.instances = 1 .. Len(c.instances)
  BY DEF ConfigFile
<1>2. \A i \in DOMAIN c.instances : c.instances[i] \in S
  BY <1>1
<1>3. d.instances = [i \in DOMAIN c.instances |-> d.instances[i]]
  BY DEF WithDefaults, ConfigFile
<1>4. ASSUME NEW i \in DOMAIN c.instances
      PROVE  /\ d.instances[i] \in S
             /\ d.instances[i].name = c.instances[i].name
             /\ d.instances[i].gossipD > 0 => d.instances[i].maxPeers # 0
  <2>1. d.instances[i] = IF c.instances[i].maxPeers = 0 /\ c.instances[i].gossipD > 0
                         THEN [c.instances[i] EXCEPT !.maxPeers = 10 * c.instances[i].gossipD]
                         ELSE c.instances[i]
    BY DEF WithDefaults, ConfigFile
  <2>2. c.instances[i] \in S
    BY <1>2
  <2> HIDE DEF d
  <2> QED BY <2>1, <2>2 DEF InstanceConfig
<1>5. d.instances \in Seq(S) /\ Len(d.instances) = Len(c.instances)
  <2> HIDE DEF d, S
  <2> QED BY <1>1, <1>3, <1>4, SeqOfEntries
<1>6. d \in ConfigFile(Name, Dir)
  <2>1. d.mode \in {"unset", "probe", "crawl", "other"}
    BY DEF WithDefaults, ConfigFile
  <2> QED BY <1>5, <2>1 DEF WithDefaults, ConfigFile
<1> QED BY <1>1, <1>4, <1>5, <1>6 DEF Instances

-----------------------------------------------------------------------------
(* Types.                                                                  *)

\* Past Load the configuration is one that Validate accepted.
CfgInv ==
  /\ cfg \in ConfigFile(Name, Dir)
  /\ pc = "load" => k = 1
  /\ pc \notin {"load", "down"} =>
       /\ Validate(cfg) /\ k \in Instances(cfg)
       /\ \A i \in Instances(cfg) : cfg.instances[i].gossipD > 0 => cfg.instances[i].maxPeers # 0

\* A key in memory is the one in its file, or is new and about to be saved.
Stored(i) == key[i] \in Key /\ key[i] = keyFile[KeyFile(cfg, i)]
KeysInv ==
  /\ pc \in {"keys", "save"} => \A i \in Instances(cfg) : i < k => Stored(i)
  /\ pc = "save" => /\ keyFile[path] = Absent
                    /\ key[k] \in Key /\ \A f \in Path : key[k] # keyFile[f]
  /\ pc = "hosts" => \A i \in Instances(cfg) : Stored(i)

TypeInv == TypeOK /\ CfgInv /\ KeysInv

\* Key files of a configuration that was accepted, and the one at hand.
LEMMA PathsOK ==
  ASSUME TypeInv, pc \notin {"load", "down"}
  PROVE  /\ \A i \in Instances(cfg) : KeyFile(cfg, i) \in Path
         /\ \A i, j \in Instances(cfg) : KeyFile(cfg, i) = KeyFile(cfg, j) => i = j
         /\ k \in Instances(cfg) /\ me \in Path /\ path = me /\ path = KeyFile(cfg, k)
         /\ Len(cfg.instances) \in Nat /\ Instances(cfg) = 1 .. Len(cfg.instances)
<1>1. /\ cfg.instances \in Seq(InstanceConfig(Name)) /\ Len(cfg.instances) \in Nat
      /\ DOMAIN cfg.instances = 1 .. Len(cfg.instances)
  BY DEF TypeInv, CfgInv, ConfigFile
<1>2. \A i \in Instances(cfg) : cfg.instances[i].name \in Name
  <2>1. \A i \in Instances(cfg) : cfg.instances[i] \in InstanceConfig(Name)
    BY <1>1 DEF Instances
  <2>2. \A i \in Instances(cfg) : cfg.instances[i].name \in Name \cup {EmptyName}
    BY <2>1 DEF InstanceConfig
  <2>3. Validate(cfg)
    BY DEF TypeInv, CfgInv
  <2> QED BY <2>2, <2>3 DEF Validate
<1>3. cfg.keyDir \in Dir
  BY DEF TypeInv, CfgInv, ConfigFile
<1>4. \A i \in Instances(cfg) : KeyFile(cfg, i) \in Path
  BY <1>2, <1>3 DEF KeyFile, Path
<1>5. \A i, j \in Instances(cfg) : KeyFile(cfg, i) = KeyFile(cfg, j) => i = j
  BY DEF TypeInv, CfgInv, Validate, KeyFile
<1>6. k \in Instances(cfg) /\ path = KeyFile(cfg, k) /\ path = me
  BY DEF TypeInv, CfgInv, me, path, KeyFile
<1> QED BY <1>1, <1>4, <1>5, <1>6 DEF Instances

\* A loop over the instances stays within them.
LEMMA LoopOK ==
  ASSUME TypeInv, pc \notin {"load", "down"}, NEW loop \in PC \ {"load", "down"}, Advance(loop)
  PROVE  k' \in Instances(cfg) /\ pc' \in PC \ {"load", "down"}
BY PathsOK DEF Advance, TypeInv, TypeOK

\* The sockets that are opened have valid ports.
LEMMA OpenedOK ==
  ASSUME NEW wanted
  PROVE  Opened(wanted) \subseteq wanted /\ \A s \in Opened(wanted) : s.port \in 1 .. MaxPort
BY DEF Opened

\* No process has run yet.
LEMMA InitType == Init => TypeInv
<1> SUFFICES ASSUME Init PROVE TypeInv
  OBVIOUS
<1> USE StartupAssumption DEF Init
<1>1. cfg \in ConfigFile(Name, Dir)
  OBVIOUS
<1>2. key \in [Instances(cfg) -> Key \cup {Absent}]
  BY DEF NoKeys
<1>3. run \in 1 .. MaxRun
  OBVIOUS
<1> QED BY <1>1, <1>2, <1>3 DEF TypeInv, TypeOK, CfgInv, KeysInv, PC, Exit

\* Every step of the process and of its operator.
LEMMA StepType == TypeInv /\ [Next]_vars => TypeInv'
<1> SUFFICES ASSUME TypeInv, [Next]_vars PROVE TypeInv'
  OBVIOUS
<1> USE StartupAssumption DEF TypeInv, TypeOK, CfgInv
<1>1. CASE UNCHANGED vars
  BY <1>1 DEF vars, procVars, KeysInv, Stored, path
<1>2. CASE Load
  <2>1. /\ cfg' \in ConfigFile(Name, Dir) /\ Instances(cfg') = Instances(cfg)
        /\ \A i \in Instances(cfg') : cfg'.instances[i].gossipD > 0 => cfg'.instances[i].maxPeers # 0
    BY <1>2, Defaults DEF Load
  <2>2. Validate(cfg') => k' = 1 /\ k' \in Instances(cfg')
    <3>1. Validate(cfg') => Instances(cfg') # {}
      BY DEF Validate
    <3> QED BY <1>2, <2>1, <3>1 DEF Load, Instances
  <2>3. KeysInv'
    BY <1>2, <2>1, <2>2 DEF Load, End, KeysInv, Instances
  <2> QED BY <1>2, <2>1, <2>2, <2>3 DEF Load, End, KeepKeys, PC, Exit
<1>3. CASE LoadKey
  <2> USE PathsOK DEF LoadKey
  <2>1. CASE keyFile[path] \in Key
    <3>1. /\ key' = [key EXCEPT ![k] = keyFile[path]] /\ UNCHANGED <<cfg, keyFile>>
          /\ Advance("hosts")
      BY <1>3, <2>1
    <3>2. \A i \in Instances(cfg) : i < k \/ i = k => Stored(i)'
      BY <1>3, <2>1, <3>1 DEF KeysInv, Stored
    <3>3. KeysInv'
      BY <1>3, <3>1, <3>2 DEF KeysInv, Advance
    <3> QED BY <1>3, <2>1, <3>3, LoopOK DEF Keep, PC
  <2>2. CASE keyFile[path] = Torn
    BY <1>3, <2>2 DEF End, PC, Exit, KeysInv
  <2> QED BY <1>3, <2>1, <2>2
<1>4. CASE GenerateKey
  <2>1. PICK new \in Fresh : key' = [key EXCEPT ![k] = new]
    BY <1>4 DEF GenerateKey
  <2>2. new \in Key /\ \A f \in Path : new # keyFile[f]
    BY <2>1 DEF Fresh
  <2>3. key' \in [Instances(cfg) -> Key \cup {Absent}]
    BY <2>1, <2>2
  <2>4. pc' = "save" /\ k' = k /\ k \in Instances(cfg) /\ Validate(cfg)
    BY <1>4, PathsOK DEF GenerateKey
  <2>5. KeysInv'
    <3>1. /\ keyFile[path] = Absent /\ path' = path /\ UNCHANGED <<cfg, keyFile>>
          /\ \A i \in Instances(cfg) : i < k => Stored(i)
      BY <1>4 DEF GenerateKey, CanGenerate, KeysInv, path, KeyFile
    <3>2. key'[k] = new /\ \A i \in Instances(cfg) : i < k => key'[i] = key[i]
      BY <2>1, <2>4 DEF Instances
    <3> QED BY <2>2, <2>4, <3>1, <3>2 DEF KeysInv, Stored
  <2> QED BY <1>4, <2>3, <2>4, <2>5 DEF GenerateKey, Keep, PC
<1>5. CASE SaveKey
  <2>1. keyFile' \in [Path -> Key \cup {Absent, Torn}]
    BY <1>5, PathsOK DEF SaveKey
  <2>2. k' \in Instances(cfg) /\ pc' \in {"keys", "hosts"}
    BY <1>5, PathsOK DEF SaveKey
  <2>3. \A i \in Instances(cfg) : i < k \/ i = k => Stored(i)'
    BY <1>5, PathsOK DEF SaveKey, KeysInv, Stored
  <2>4. KeysInv'
    BY <1>5, <2>3, PathsOK DEF SaveKey, KeysInv
  <2> QED BY <1>5, <2>1, <2>2, <2>4 DEF SaveKey, Keep, PC
<1>6. CASE SaveFails
  <2>1. keyFile' \in [Path -> Key \cup {Absent, Torn}]
    BY <1>6, PathsOK DEF SaveFails, Fresh
  <2>2. /\ pc' = "down" /\ exit' \in {"io", "killed"} /\ sockets' = {} /\ metrics' = FALSE
        /\ UNCHANGED <<cfg, k, key, used, run>>
    BY <1>6 DEF SaveFails, End
  <2> QED BY <2>1, <2>2 DEF PC, Exit, KeysInv
<1>7. CASE NewHost
  <2>1. key[k] \in Key /\ me \in Path
    BY <1>7, PathsOK DEF NewHost, KeysInv, Stored
  <2>2. used' \in [Path -> SUBSET Key]
    BY <1>7, <2>1 DEF NewHost
  <2>3. KeysInv'
    BY <1>7 DEF NewHost, KeysInv, Stored, Advance, End
  <2>4. \A s \in sockets' : s.port \in 1 .. MaxPort
    BY <1>7, OpenedOK DEF NewHost, End
  <2>5. CASE pc' = "down"
    BY <1>7, <2>2, <2>3, <2>4, <2>5 DEF NewHost, End, Advance, PC, Exit
  <2>6. CASE pc' # "down"
    BY <1>7, <2>2, <2>3, <2>4, <2>6, LoopOK DEF NewHost, End, PC
  <2> QED BY <2>5, <2>6
<1>8. CASE StartServices
  <2>1. CASE pc' = "down"
    BY <1>8, <2>1 DEF StartServices, End, Keep, KeepKeys, Advance, PC, Exit, KeysInv
  <2>2. CASE pc' # "down"
    <3>1. Advance("discovery") /\ pc = "services"
      BY <1>8, <2>2 DEF StartServices, End
    <3>2. k' \in Instances(cfg) /\ pc' \in {"services", "discovery"}
      BY <3>1, LoopOK DEF Advance, PC
    <3> QED BY <1>8, <2>2, <3>2 DEF StartServices, End, Keep, KeepKeys, PC, KeysInv
  <2> QED BY <2>1, <2>2
<1>9. CASE StartDiscovery
  <2>1. \A s \in sockets' : s.port \in 1 .. MaxPort
    BY <1>9, OpenedOK DEF StartDiscovery, End
  <2>2. CASE pc' = "down"
    BY <1>9, <2>1, <2>2 DEF StartDiscovery, End, KeepKeys, Advance, PC, Exit, KeysInv
  <2>3. CASE pc' # "down"
    <3>1. Advance("running") /\ pc = "discovery"
      BY <1>9, <2>3 DEF StartDiscovery, End
    <3>2. k' \in Instances(cfg) /\ pc' \in {"discovery", "running"}
      BY <3>1, LoopOK DEF Advance, PC
    <3> QED BY <1>9, <2>1, <2>3, <3>2 DEF StartDiscovery, End, KeepKeys, PC, KeysInv
  <2> QED BY <2>2, <2>3
<1>10. CASE IOFails \/ Shutdown \/ Kill
  BY <1>10 DEF IOFails, Shutdown, Kill, End, KeepKeys, PC, Exit, KeysInv
<1>11. CASE ServeMetrics
  BY <1>11, OpenedOK DEF ServeMetrics, KeepKeys, KeysInv, Stored, path
<1>12. CASE Restart
  BY <1>12 DEF Restart, NoKeys, PC, Exit, KeysInv
<1> QED BY <1>1, <1>2, <1>3, <1>4, <1>5, <1>6, <1>7, <1>8, <1>9, <1>10, <1>11, <1>12 DEF Next

\* The two, combined.
LEMMA TypeInvariant == Spec => []TypeInv
<1>1. Init => TypeInv
  BY InitType
<1>2. TypeInv /\ [Next]_vars => TypeInv'
  BY StepType
<1> QED BY <1>1, <1>2, PTL DEF Spec

(***************************************************************************)
(* main.go: no variable leaves its type; in particular no loop runs past   *)
(* the last instance, and no socket is opened on a port out of range.      *)
(***************************************************************************)
THEOREM TypeCorrect == Spec => []TypeOK
<1>1. TypeInv => TypeOK
  BY DEF TypeInv
<1> QED BY <1>1, TypeInvariant, PTL

(***************************************************************************)
(* config.go, Load: no instance of a probe ever runs without a cap on its  *)
(* peers by accident, whatever the configuration says.                     *)
(***************************************************************************)
THEOREM AlwaysCapped == Spec => []NeverUncapped
<1>1. TypeInv => NeverUncapped
  <2> SUFFICES ASSUME TypeInv, pc \in {"services", "discovery", "running"}, cfg.mode = "probe",
                      NEW i \in Instances(cfg)
               PROVE  cfg.instances[i].maxPeers # 0
    BY DEF NeverUncapped
  <2> QED BY DEF TypeInv, CfgInv, Validate
<1> QED BY <1>1, TypeInvariant, PTL

-----------------------------------------------------------------------------
(* Identities.                                                             *)

\* A host had the key of its instance's file and none but it, and no key is
\* in two files.
IdInv ==
  /\ \A n \in Path : used[n] \subseteq {keyFile[n]}
  /\ \A m, n \in Path : keyFile[m] \in Key /\ keyFile[m] = keyFile[n] => m = n

\* Key files change only while they are saved, identities only with a host.
LEMMA WhoSaves ==
  [Next]_vars => UNCHANGED <<keyFile, used>> \/ SaveKey \/ SaveFails \/ NewHost
BY DEF Next, vars, procVars, KeepKeys, Load, LoadKey, GenerateKey, StartServices, StartDiscovery,
       IOFails, ServeMetrics, Shutdown, Kill, Restart

\* A file is written once, before its instance ever has a host.
LEMMA StepId == TypeInv /\ IdInv /\ [Next]_vars => IdInv'
<1> SUFFICES ASSUME TypeInv, IdInv, [Next]_vars PROVE IdInv'
  OBVIOUS
<1> USE StartupAssumption
<1>1. CASE UNCHANGED <<keyFile, used>>
  BY <1>1 DEF IdInv
<1>2. ASSUME pc = "save"
      PROVE  path \in Path /\ used[path] = {} /\ keyFile \in [Path -> Key \cup {Absent, Torn}]
  <2>1. path \in Path /\ keyFile[path] = Absent
    BY <1>2, PathsOK DEF TypeInv, KeysInv
  <2>2. used[path] \subseteq Key
    BY <2>1 DEF TypeInv, TypeOK
  <2> QED BY <2>1, <2>2 DEF IdInv, TypeInv, TypeOK
<1>3. CASE SaveKey
  <2>1. \A f \in Path : key[k] # keyFile[f]
    BY <1>3 DEF SaveKey, TypeInv, KeysInv
  <2> QED BY <1>2, <1>3, <2>1 DEF SaveKey, IdInv
<1>4. CASE SaveFails
  <2>1. PICK left \in {Absent, Torn} \cup Fresh : keyFile' = [keyFile EXCEPT ![path] = left]
    BY <1>4 DEF SaveFails
  <2>2. left \in Key => \A f \in Path : left # keyFile[f]
    BY <2>1 DEF Fresh
  <2>3. pc = "save" /\ used' = used
    BY <1>4 DEF SaveFails
  <2> QED BY <1>2, <2>1, <2>2, <2>3 DEF IdInv
<1>5. CASE NewHost
  <2>1. me \in Path /\ key[k] = keyFile[me] /\ used \in [Path -> SUBSET Key]
    BY <1>5, PathsOK DEF NewHost, TypeInv, TypeOK, KeysInv, Stored
  <2>2. keyFile' = keyFile /\ (used' = used \/ used' = [used EXCEPT ![me] = @ \cup {key[k]}])
    BY <1>5 DEF NewHost
  <2> QED BY <2>1, <2>2 DEF IdInv
<1> QED BY <1>1, <1>3, <1>4, <1>5, WhoSaves

\* The two, combined.
LEMMA IdInvariant == Spec => [](TypeInv /\ IdInv)
<1>1. Init => IdInv
  BY StartupAssumption DEF Init, IdInv
<1>2. TypeInv /\ IdInv /\ [Next]_vars => IdInv'
  BY StepId
<1> QED BY <1>1, <1>2, TypeInvariant, PTL DEF Spec

(***************************************************************************)
(* host.go, LoadOrGenerateKey, with config.go, KeyFile: an instance of one *)
(* name and key directory has one identity over all runs, however many     *)
(* there are, however each of them ended, and whatever the operator edited *)
(* in between, other key directories included.                             *)
(***************************************************************************)
THEOREM IdentityIsKept == Spec => []OneIdentity
<1>1. TypeInv /\ IdInv => OneIdentity
  <2> SUFFICES ASSUME IdInv, NEW n \in Path PROVE Cardinality(used[n]) <= 1
    BY DEF OneIdentity
  <2>1. used[n] = {} \/ used[n] = {keyFile[n]}
    BY DEF IdInv
  <2>2. Cardinality({}) = 0 /\ Cardinality({keyFile[n]}) = 1
    BY FS_EmptySet, FS_Singleton, Zenon
  <2> QED BY <2>1, <2>2
<1> QED BY <1>1, IdInvariant, PTL

(***************************************************************************)
(* main.go, runProbe: no two instances that differ in name or in key       *)
(* directory ever have the same identity, for any number of them and of    *)
(* runs.                                                                   *)
(***************************************************************************)
THEOREM IdentitiesDiffer == Spec => []DistinctHosts
<1>1. TypeInv /\ IdInv => DistinctHosts
  BY DEF IdInv, DistinctHosts, TypeInv, TypeOK
<1> QED BY <1>1, IdInvariant, PTL

-----------------------------------------------------------------------------
(* Ports.                                                                  *)

MetricsSocket == Socket("tcp", cfg.metrics, 0)

\* All the sockets a process ever asks for.
AllSockets ==
  {MetricsSocket} \cup UNION {HostSockets(cfg, i) \cup DiscSockets(cfg, i) : i \in Instances(cfg)}

\* The uses of ports that Validate compares.
LEMMA Uses ==
  ASSUME TypeInv
  PROVE  /\ \A i \in Instances(cfg) :
              /\ <<i, "tcp">> \in PortUse(cfg) /\ PortOf(cfg, <<i, "tcp">>) = TCPPort(cfg, i)
              /\ <<i, "quic">> \in PortUse(cfg) /\ PortOf(cfg, <<i, "quic">>) = QUICPort(cfg, i)
              /\ <<i, "v5">> \in PortUse(cfg) /\ PortOf(cfg, <<i, "v5">>) = DiscV5Port(cfg, i)
         /\ <<0, "v4">> \in PortUse(cfg) /\ PortOf(cfg, <<0, "v4">>) = cfg.v4
BY DEF PortUse, PortOf

\* Ports are numbers.
LEMMA PortsOK ==
  ASSUME TypeInv
  PROVE  /\ Instances(cfg) \subseteq Nat \ {0} /\ {cfg.v4, cfg.metrics} \subseteq Nat
         /\ \A i \in Instances(cfg) :
              {TCPPort(cfg, i), QUICPort(cfg, i), DiscV5Port(cfg, i)} \subseteq Nat
BY DEF TypeInv, CfgInv, ConfigFile, Instances, TCPPort, QUICPort, DiscV5Port

\* Once accepted, the ports of one kind and of two kinds differ, unless 0.
LEMMA PortsDiffer ==
  ASSUME TypeInv, Validate(cfg)
  PROVE  /\ \A i, j \in Instances(cfg) :
              /\ i # j /\ TCPPort(cfg, i) # 0 => TCPPort(cfg, i) # TCPPort(cfg, j)
              /\ i # j /\ QUICPort(cfg, i) # 0 => QUICPort(cfg, i) # QUICPort(cfg, j)
              /\ i # j /\ DiscV5Port(cfg, i) # 0 => DiscV5Port(cfg, i) # DiscV5Port(cfg, j)
              /\ QUICPort(cfg, i) # 0 => QUICPort(cfg, i) # DiscV5Port(cfg, j)
         /\ \A i \in Instances(cfg) :
              cfg.v4 # 0 => cfg.v4 # QUICPort(cfg, i) /\ cfg.v4 # DiscV5Port(cfg, i)
<1>1. \A u, v \in PortUse(cfg) : u # v /\ PortOf(cfg, u) # 0 => PortOf(cfg, u) # PortOf(cfg, v)
  BY DEF Validate, NoCollision
<1>2. SUFFICES ASSUME NEW i \in Instances(cfg), NEW j \in Instances(cfg)
               PROVE  /\ i # j /\ TCPPort(cfg, i) # 0 => TCPPort(cfg, i) # TCPPort(cfg, j)
                      /\ i # j /\ QUICPort(cfg, i) # 0 => QUICPort(cfg, i) # QUICPort(cfg, j)
                      /\ i # j /\ DiscV5Port(cfg, i) # 0 => DiscV5Port(cfg, i) # DiscV5Port(cfg, j)
                      /\ QUICPort(cfg, i) # 0 => QUICPort(cfg, i) # DiscV5Port(cfg, j)
                      /\ cfg.v4 # 0 => cfg.v4 # QUICPort(cfg, i) /\ cfg.v4 # DiscV5Port(cfg, i)
  OBVIOUS
<1>3. /\ i # j => <<i, "tcp">> # <<j, "tcp">> /\ <<i, "quic">> # <<j, "quic">> /\ <<i, "v5">> # <<j, "v5">>
      /\ <<i, "quic">> # <<j, "v5">> /\ <<0, "v4">> # <<i, "quic">> /\ <<0, "v4">> # <<i, "v5">>
  OBVIOUS
<1> QED BY <1>1, <1>3, Uses

\* No two sockets of an accepted, consistent configuration are in each
\* other's way.
LEMMA NoClash ==
  ASSUME TypeInv, Validate(cfg), Consistent,
         NEW s \in AllSockets, NEW t \in AllSockets, s # t, s.proto = t.proto, s.port = t.port
  PROVE  s.port = 0
<1> DEFINE OneOf(x) ==
      \/ x = MetricsSocket
      \/ \E i \in Instances(cfg) : \/ x = Socket("tcp", TCPPort(cfg, i), i)
                                   \/ x = Socket("udp", QUICPort(cfg, i), i)
                                   \/ x = Socket("udp", DiscV5Port(cfg, i), i)
      \/ x = Socket("udp", cfg.v4, 0)
<1>1. \A x \in AllSockets : OneOf(x)
  BY DEF AllSockets, HostSockets, DiscSockets, V4Socket
<1>2. OneOf(s) /\ OneOf(t)
  BY <1>1
<1>3. cfg.metrics # 0 => \A i \in Instances(cfg) : cfg.metrics # TCPPort(cfg, i)
  BY DEF Consistent
<1> QED BY <1>2, <1>3, PortsDiffer DEF Socket, MetricsSocket

\* A socket's port is a number, in range if the configuration is consistent.
LEMMA SocketPorts ==
  ASSUME TypeInv, NEW s \in AllSockets
  PROVE  s.port \in Nat /\ (Consistent => s.port <= MaxPort)
<1>1. Consistent => /\ cfg.metrics <= MaxPort /\ cfg.v4 <= MaxPort
                    /\ \A i \in Instances(cfg) : /\ TCPPort(cfg, i) <= MaxPort
                                                 /\ QUICPort(cfg, i) <= MaxPort
                                                 /\ DiscV5Port(cfg, i) <= MaxPort
  BY Uses DEF Consistent
<1> QED BY <1>1, PortsOK DEF AllSockets, MetricsSocket, HostSockets, DiscSockets, V4Socket, Socket

\* A consistent configuration gets every socket it has not yet asked for.
LEMMA NoneRefused ==
  ASSUME TypeInv, Validate(cfg), Consistent, sockets \subseteq AllSockets,
         NEW wanted \in SUBSET AllSockets, \A s \in wanted : s.port # 0 => s \notin sockets
  PROVE  /\ Refused(wanted) = {} /\ ~OutOfRange(wanted)
         /\ \A s \in wanted : s.port # 0 => s \in Opened(wanted)
<1>1. \A s \in wanted : s.port \in Nat /\ s.port <= MaxPort
  BY SocketPorts
<1>2. ASSUME NEW s \in wanted, s.port # 0 PROVE Free(s.proto, s.port)
  BY <1>2, NoClash DEF Free
<1> QED BY <1>1, <1>2, StartupAssumption DEF Refused, OutOfRange, Opened

\* How far the loops of runProbe are.
HostUp(i) == (pc = "hosts" /\ i < k) \/ pc \in {"services", "discovery", "running"}
DiscUp(i) == (pc = "discovery" /\ i < k) \/ pc = "running"

Asked(s) ==
  \/ ~metrics /\ s = MetricsSocket
  \/ \E i \in Instances(cfg) : HostUp(i) /\ s \in HostSockets(cfg, i)
  \/ \E i \in Instances(cfg) : DiscUp(i) /\ s \in DiscSockets(cfg, i)

\* Only sockets that were asked for are open, and all of them if consistent.
SockInv ==
  /\ pc \in {"load", "down"} => sockets = {} /\ ~metrics
  /\ pc \notin {"load", "down"} =>
       /\ \A s \in sockets : Asked(s)
       /\ Consistent => \A s \in AllSockets : Asked(s) /\ s.port # 0 => s \in sockets
  /\ AcceptedStarts

\* What depends on the configuration alone.
LEMMA SameConfig ==
  ASSUME cfg' = cfg
  PROVE  /\ Consistent' <=> Consistent
         /\ AllSockets' = AllSockets /\ MetricsSocket' = MetricsSocket
BY DEF Consistent, JoinsTwice, AllSockets, MetricsSocket

\* What is open is part of what is ever asked for.
LEMMA OpenIsAsked ==
  ASSUME SockInv, pc \notin {"load", "down"}
  PROVE  sockets \subseteq AllSockets
BY DEF SockInv, Asked, AllSockets

\* The next instance has been dealt with.
LEMMA NextUp ==
  ASSUME TypeInv, NEW i \in Instances(cfg), cfg' = cfg
  PROVE  /\ pc = "hosts" /\ Advance("services") =>
              (HostUp(i)' <=> HostUp(i) \/ i = k) /\ ~DiscUp(i) /\ ~DiscUp(i)'
         /\ pc = "services" /\ Advance("discovery") => HostUp(i) /\ HostUp(i)' /\ ~DiscUp(i) /\ ~DiscUp(i)'
         /\ pc = "discovery" /\ Advance("running") =>
              HostUp(i) /\ HostUp(i)' /\ (DiscUp(i)' <=> DiscUp(i) \/ i = k)
<1>1. Len(cfg.instances) \in Nat /\ i \in 1 .. Len(cfg.instances)
  BY DEF TypeInv, CfgInv, ConfigFile, Instances
<1>2. pc \notin {"load", "down"} => k \in 1 .. Len(cfg.instances)
  BY DEF TypeInv, CfgInv, Instances
<1> QED BY <1>1, <1>2 DEF Advance, HostUp, DiscUp

\* The sockets of a host, of discovery and of the metrics server are new when
\* their turn comes.
LEMMA NotYetOpen ==
  ASSUME TypeInv, SockInv, pc \notin {"load", "down"}, NEW s, s.port # 0
  PROVE  /\ pc = "hosts" /\ s \in HostSockets(cfg, k) => s \notin sockets
         /\ pc = "discovery" /\ s \in DiscSockets(cfg, k) => s \notin sockets
         /\ metrics /\ s = MetricsSocket => s \notin sockets
<1> SUFFICES ASSUME s \in sockets
             PROVE  /\ ~(pc = "hosts" /\ s \in HostSockets(cfg, k))
                    /\ ~(pc = "discovery" /\ s \in DiscSockets(cfg, k))
                    /\ ~(metrics /\ s = MetricsSocket)
  OBVIOUS
<1>1. Asked(s) /\ Validate(cfg) /\ k \in Instances(cfg)
  BY DEF SockInv, TypeInv, CfgInv
<1>2. \A i \in Instances(cfg) : \A h \in HostSockets(cfg, i) :
        h.owner = i /\ (h.proto = "udp" => h.port = QUICPort(cfg, i))
  BY DEF HostSockets, Socket
<1>3. \A i \in Instances(cfg) : \A d \in DiscSockets(cfg, i) :
        /\ d.proto = "udp"
        /\ \/ d.owner = i /\ d.port = DiscV5Port(cfg, i)
           \/ d.owner = 0 /\ i = 1
  BY DEF DiscSockets, V4Socket, Socket
<1>4. \A i \in Instances(cfg) : i \in Nat \ {0}
  BY PortsOK
<1>5. ~(pc = "hosts" /\ s \in HostSockets(cfg, k))
  BY <1>1, <1>2, <1>4 DEF Asked, HostUp, DiscUp, MetricsSocket, Socket
<1>6. ~(pc = "discovery" /\ s \in DiscSockets(cfg, k))
  BY <1>1, <1>2, <1>3, <1>4, PortsDiffer DEF Asked, DiscUp, MetricsSocket, Socket
<1>7. ~(metrics /\ s = MetricsSocket)
  BY <1>1, <1>2, <1>3, <1>4 DEF Asked, MetricsSocket, Socket
<1> QED BY <1>5, <1>6, <1>7

\* Asking for more sockets keeps SockInv.
LEMMA MoreSockets ==
  ASSUME TypeInv, SockInv, pc \notin {"load", "down"}, pc' \notin {"load", "down"},
         cfg' = cfg, exit' = exit, NEW wanted \in SUBSET AllSockets,
         sockets' = sockets \cup Opened(wanted),
         \A s \in wanted : s.port # 0 => s \notin sockets,
         \A s \in AllSockets : Asked(s)' <=> Asked(s) \/ s \in wanted
  PROVE  SockInv'
<1>1. sockets \subseteq AllSockets /\ Opened(wanted) \subseteq wanted
  BY OpenIsAsked DEF Opened
<1>2. \A s \in sockets' : Asked(s)'
  BY <1>1 DEF SockInv
<1>3. Consistent => \A s \in AllSockets : Asked(s)' /\ s.port # 0 => s \in sockets'
  <2>1. Validate(cfg)
    BY DEF TypeInv, CfgInv
  <2> QED BY <1>1, <2>1, NoneRefused DEF SockInv
<1> QED BY <1>2, <1>3, SameConfig DEF SockInv, AcceptedStarts

\* A process that ends has no sockets; it does not end over its ports.
LEMMA EndOK ==
  ASSUME TypeInv, SockInv, NEW why, End(why), cfg' = cfg, why \in {"port", "topic"} => ~Consistent
  PROVE  SockInv'
BY SameConfig DEF SockInv, End, AcceptedStarts

\* Every step of the process and of its operator.
LEMMA StepSock == TypeInv /\ SockInv /\ [Next]_vars => SockInv'
<1> SUFFICES ASSUME TypeInv, SockInv, [Next]_vars PROVE SockInv'
  OBVIOUS
<1>1. ASSUME pc \notin {"load", "down"}
      PROVE  Validate(cfg) /\ k \in Instances(cfg) /\ sockets \subseteq AllSockets
  BY <1>1, OpenIsAsked DEF TypeInv, CfgInv
<1>2. ASSUME UNCHANGED <<cfg, metrics, sockets, exit>>, pc \notin {"load", "down"},
             pc' \notin {"load", "down"},
             \A i \in Instances(cfg) : (HostUp(i)' <=> HostUp(i)) /\ (DiscUp(i)' <=> DiscUp(i))
      PROVE  SockInv'
  BY <1>2, SameConfig DEF SockInv, Asked, AcceptedStarts
<1>3. CASE UNCHANGED vars
  BY <1>3, SameConfig DEF vars, procVars, SockInv, Asked, AcceptedStarts, HostUp, DiscUp
<1>4. CASE Load
  <2>1. CASE Validate(cfg') /\ cfg.logLevel
    <3>1. pc' = "keys" /\ metrics' /\ sockets' = {} /\ exit' = exit
      BY <1>4, <2>1 DEF Load, SockInv
    <3>2. exit = "none"
      BY <1>4 DEF Load, TypeInv, TypeOK
    <3>3. \A s : ~Asked(s)'
      BY <3>1 DEF Asked, HostUp, DiscUp
    <3> QED BY <3>1, <3>2, <3>3 DEF SockInv, AcceptedStarts
  <2>2. CASE ~(Validate(cfg') /\ cfg.logLevel)
    BY <1>4, <2>2 DEF Load, End, SockInv, AcceptedStarts
  <2> QED BY <2>1, <2>2
<1>5. CASE LoadKey
  <2>1. CASE keyFile[path] \in Key
    <3>1. pc' \in {"keys", "hosts"} /\ (pc' = "hosts" => k' = 1)
      BY <1>5, <2>1, StartupAssumption DEF LoadKey, Advance
    <3> QED BY <1>2, <1>5, <2>1, <3>1, PortsOK, StartupAssumption DEF LoadKey, Keep, HostUp, DiscUp
  <2>2. CASE keyFile[path] \notin Key
    BY <1>5, <2>2, EndOK DEF LoadKey
  <2> QED BY <2>1, <2>2
<1>6. CASE GenerateKey
  BY <1>2, <1>6 DEF GenerateKey, Keep, HostUp, DiscUp
<1>7. CASE SaveKey
  <2>1. pc' \in {"keys", "hosts"} /\ (pc' = "hosts" => k' = 1)
    BY <1>7 DEF SaveKey
  <2> QED BY <1>2, <1>7, <2>1, PortsOK DEF SaveKey, Keep, HostUp, DiscUp
<1>8. CASE SaveFails \/ IOFails \/ Shutdown \/ Kill
  BY <1>8, EndOK DEF SaveFails, IOFails, Shutdown, Kill
<1>9. CASE NewHost
  <2> DEFINE wanted == HostSockets(cfg, k)
  <2>1. pc = "hosts" /\ cfg' = cfg /\ wanted \subseteq AllSockets
    BY <1>1, <1>9 DEF NewHost, AllSockets
  <2>2. \A s \in wanted : s.port # 0 => s \notin sockets
    BY <2>1, NotYetOpen
  <2>3. Consistent => Refused(wanted) = {} /\ ~OutOfRange(wanted)
    BY <1>1, <2>1, <2>2, NoneRefused
  <2>4. wanted # {}
    BY DEF HostSockets
  <2>5. CASE OutOfRange(wanted) \/ Refused(wanted) = wanted
    BY <1>9, <2>1, <2>3, <2>4, <2>5, EndOK DEF NewHost
  <2>6. CASE ~(OutOfRange(wanted) \/ Refused(wanted) = wanted)
    <3>1. /\ sockets' = sockets \cup Opened(wanted) /\ Advance("services")
          /\ UNCHANGED <<metrics, exit>>
      BY <1>9, <2>6 DEF NewHost
    <3>2. pc' \in {"hosts", "services"}
      BY <2>1, <3>1 DEF Advance
    <3>3. \A s \in AllSockets : Asked(s)' <=> Asked(s) \/ s \in wanted
      BY <1>1, <2>1, <3>1, NextUp, SameConfig DEF Asked
    <3> QED BY <2>1, <2>2, <3>1, <3>2, <3>3, MoreSockets
  <2> QED BY <2>5, <2>6
<1>10. CASE StartServices
  <2>1. CASE cfg.mode = "probe" /\ JoinsTwice
    BY <1>10, <2>1, EndOK DEF StartServices, Consistent
  <2>2. CASE ~(cfg.mode = "probe" /\ JoinsTwice)
    <3>1. pc = "services" /\ Advance("discovery") /\ pc' \in {"services", "discovery"}
      BY <1>10, <2>2 DEF StartServices, Advance
    <3> QED BY <1>2, <1>10, <2>2, <3>1, NextUp DEF StartServices, Keep
  <2> QED BY <2>1, <2>2
<1>11. CASE StartDiscovery
  <2> DEFINE wanted == DiscSockets(cfg, k)
  <2>1. pc = "discovery" /\ cfg' = cfg /\ wanted \subseteq AllSockets
    BY <1>1, <1>11 DEF StartDiscovery, AllSockets
  <2>2. \A s \in wanted : s.port # 0 => s \notin sockets
    BY <2>1, NotYetOpen
  <2>3. Consistent => Refused(wanted) = {} /\ ~OutOfRange(wanted)
    BY <1>1, <2>1, <2>2, NoneRefused
  <2>4. CASE OutOfRange(wanted) \/ Refused(wanted) # {}
    BY <1>11, <2>1, <2>3, <2>4, EndOK DEF StartDiscovery
  <2>5. CASE ~(OutOfRange(wanted) \/ Refused(wanted) # {})
    <3>1. /\ sockets' = sockets \cup Opened(wanted) /\ Advance("running")
          /\ UNCHANGED <<metrics, exit>>
      BY <1>11, <2>5 DEF StartDiscovery
    <3>2. pc' \in {"discovery", "running"}
      BY <2>1, <3>1 DEF Advance
    <3>3. \A s \in AllSockets : Asked(s)' <=> Asked(s) \/ s \in wanted
      BY <1>1, <2>1, <3>1, NextUp, SameConfig DEF Asked
    <3> QED BY <2>1, <2>2, <3>1, <3>2, <3>3, MoreSockets
  <2> QED BY <2>4, <2>5
<1>12. CASE ServeMetrics
  <2> DEFINE wanted == {MetricsSocket}
  <2>1. metrics /\ ~metrics' /\ UNCHANGED <<cfg, pc, k, exit>> /\ pc \notin {"load", "down"}
    BY <1>12 DEF ServeMetrics, SockInv
  <2>2. wanted \subseteq AllSockets /\ sockets' = sockets \cup Opened(wanted)
    BY <1>12 DEF ServeMetrics, AllSockets, MetricsSocket
  <2>3. \A s \in wanted : s.port # 0 => s \notin sockets
    BY <2>1, NotYetOpen
  <2>4. \A s \in AllSockets : Asked(s)' <=> Asked(s) \/ s \in wanted
    BY <2>1, SameConfig DEF Asked, HostUp, DiscUp
  <2> QED BY <2>1, <2>2, <2>3, <2>4, MoreSockets
<1>13. CASE Restart
  BY <1>13 DEF Restart, SockInv, AcceptedStarts
<1> QED BY <1>3, <1>4, <1>5, <1>6, <1>7, <1>8, <1>9, <1>10, <1>11, <1>12, <1>13 DEF Next

\* The two, combined.
LEMMA SockInvariant == Spec => [](TypeInv /\ SockInv)
<1>1. Init => SockInv
  BY DEF Init, SockInv, AcceptedStarts
<1>2. TypeInv /\ SockInv /\ [Next]_vars => SockInv'
  BY StepSock
<1> QED BY <1>1, <1>2, TypeInvariant, PTL DEF Spec

(***************************************************************************)
(* config.go, Validate: whatever ports and however many instances, an      *)
(* accepted and consistent configuration never fails in start-up over its  *)
(* own ports and topics.                                                   *)
(***************************************************************************)
THEOREM AcceptedConfigStarts == Spec => []AcceptedStarts
<1>1. SockInv => AcceptedStarts
  BY DEF SockInv
<1> QED BY <1>1, SockInvariant, PTL

(***************************************************************************)
(* config.go, Validate, with host.go: such a process, once it runs,        *)
(* listens on every port it was given.                                     *)
(***************************************************************************)
THEOREM EverythingListens == Spec => []AllListening
<1>1. TypeInv /\ SockInv => AllListening
  <2> SUFFICES ASSUME SockInv, pc = "running", Consistent
               PROVE  /\ \A i \in Instances(cfg) : \A s \in HostSockets(cfg, i) \cup DiscSockets(cfg, i) :
                           s.port # 0 => s \in sockets
                      /\ metrics \/ cfg.metrics = 0 \/ Socket("tcp", cfg.metrics, 0) \in sockets
    BY DEF AllListening
  <2>1. \A s \in AllSockets : Asked(s) /\ s.port # 0 => s \in sockets
    BY DEF SockInv
  <2> QED BY <2>1 DEF AllSockets, Asked, HostUp, DiscUp, MetricsSocket, Socket
<1> QED BY <1>1, SockInvariant, PTL
=============================================================================
