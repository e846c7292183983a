----------------------------- MODULE MCStartup -----------------------------
(* Two instances in either order or one of them, in either key directory,  *)
(* and ports so close to each other that the formulas make them meet.      *)
EXTENDS Startup

CONSTANTS a, b, d1, d2

Inst(name, max, quic) ==
  [name |-> name, gossipD |-> 2, logFile |-> TRUE, maxPeers |-> max, quicOnly |-> quic]

Lists == {<<Inst(a, 0, FALSE), Inst(b, 3, FALSE)>>, <<Inst(b, 0, TRUE), Inst(a, 0, FALSE)>>,
          <<Inst(a, 0, FALSE)>>}

Base == [mode |-> "unset", crawlFile |-> FALSE, bootstrapFile |-> FALSE,
         keyDir |-> d1, logLevel |-> TRUE, subnets |-> <<0, 1>>,
         tcp |-> 2, quic |-> 3, v5 |-> 6, v4 |-> 0, metrics |-> 1, instances |-> <<Inst(a, 0, FALSE)>>]

\* Probes over a range of ports.
Probes ==
  {[Base EXCEPT !.tcp = t, !.v5 = d, !.v4 = f, !.metrics = m, !.instances = l] :
     t \in {0, 2}, d \in {5, 6}, f \in {0, 5}, m \in {1, 4}, l \in Lists}

\* A crawler, and what Validate refuses or should perhaps refuse.
Others ==
  {[Base EXCEPT !.mode = "crawl", !.crawlFile = TRUE],
   [Base EXCEPT !.mode = "other"],
   [Base EXCEPT !.mode = "crawl"],
   [Base EXCEPT !.logLevel = FALSE],
   [Base EXCEPT !.subnets = <<1, 1>>],
   [Base EXCEPT !.quic = MaxPort + 1],
   [Base EXCEPT !.metrics = MaxPort + 1],
   [Base EXCEPT !.instances = <<Inst(a, 0, FALSE), Inst(a, 0, FALSE)>>],
   [Base EXCEPT !.instances = <<Inst(EmptyName, 0, FALSE)>>],
   [Base EXCEPT !.instances = <<>>]}

\* The operator moves to another key directory.
Moved == {[Base EXCEPT !.keyDir = d2, !.instances = l] : l \in Lists}

MCConfigs == Probes \cup Others \cup Moved
=============================================================================
