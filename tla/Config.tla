------------------------------- MODULE Config -------------------------------
(***************************************************************************)
(* config/config.go: the defaults of Load, Validate, and the arithmetic on *)
(* ports.  A configuration is what the YAML file says; a file name is      *)
(* there or not, a port is a number, a log level is one that slog knows or *)
(* not, and a mode that is not given is "unset".  Instances are numbered   *)
(* from 1.                                                                 *)
(***************************************************************************)
EXTENDS Integers, Sequences

CONSTANT EmptyName  \* an instance name that is not given

\* InstanceConfig and Config, with instance names and key directories from the
\* sets names and dirs.
InstanceConfig(names) ==
  [name : names \cup {EmptyName}, gossipD : Int, logFile : BOOLEAN, maxPeers : Int, quicOnly : BOOLEAN]
ConfigFile(names, dirs) ==
  [mode : {"unset", "probe", "crawl", "other"}, crawlFile : BOOLEAN, bootstrapFile : BOOLEAN,
   keyDir : dirs, logLevel : BOOLEAN, subnets : Seq(Nat),
   tcp : Nat, quic : Nat, v5 : Nat, v4 : Nat, metrics : Nat, instances : Seq(InstanceConfig(names))]

Instances(c) == 1 .. Len(c.instances)

TCPPort(c, i) == c.tcp + 2 * (i - 1)
QUICPort(c, i) == c.quic + 2 * (i - 1)
DiscV5Port(c, i) == c.v5 + (i - 1)

\* Mutant: one key file for the whole process.
KeyFileShared(c, i) == <<c.keyDir, c.instances[1].name>>

\* filepath.Join of the key directory and the name with its suffix.
KeyFile(c, i) == <<c.keyDir, c.instances[i].name>>

\* Mutant: no default for max-peers.
WithModeOnly(c) == [c EXCEPT !.mode = IF @ = "unset" THEN "probe" ELSE @]

\* Load: the default mode, and 10*D for a max-peers of 0.
WithDefaults(c) ==
  [c EXCEPT
     !.mode = IF @ = "unset" THEN "probe" ELSE @,
     !.instances = [i \in DOMAIN @ |->
        LET inst == c.instances[i] IN
        IF inst.maxPeers = 0 /\ inst.gossipD > 0
        THEN [inst EXCEPT !.maxPeers = 10 * inst.gossipD] ELSE inst]]

\* The ports in the order of the calls to addPort, discv4 last.
PortUse(c) == (Instances(c) \X {"tcp", "quic", "v5"}) \cup {<<0, "v4">>}

PortOf(c, use) ==
  CASE use[2] = "tcp"  -> TCPPort(c, use[1])
    [] use[2] = "quic" -> QUICPort(c, use[1])
    [] use[2] = "v5"   -> DiscV5Port(c, use[1])
    [] use[2] = "v4"   -> c.v4

\* Mutant: ports are compared within an instance only.
NoCollisionInInstance(c) ==
  \A u, v \in PortUse(c) :
    u # v /\ u[1] = v[1] /\ PortOf(c, u) # 0 => PortOf(c, u) # PortOf(c, v)

\* addPort fails on a port that is in the map; port 0 is left to the system.
NoCollision(c) ==
  \A u, v \in PortUse(c) : u # v /\ PortOf(c, u) # 0 => PortOf(c, u) # PortOf(c, v)

Validate(c) ==
  /\ c.mode \in {"probe", "crawl"}
  /\ Instances(c) # {}
  /\ \A i \in Instances(c) : c.instances[i].name # EmptyName
  /\ \A i, j \in Instances(c) : c.instances[i].name = c.instances[j].name => i = j
  /\ c.mode = "crawl" => Len(c.instances) = 1 /\ c.crawlFile /\ ~c.bootstrapFile
  /\ c.mode = "probe" => \A i \in Instances(c) : /\ c.instances[i].logFile
                                                 /\ c.instances[i].gossipD > 0
  /\ Len(c.instances) > 1 => 0 \notin {c.tcp, c.quic, c.v5}
  /\ NoCollision(c)
=============================================================================
