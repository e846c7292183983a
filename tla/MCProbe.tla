------------------------------ MODULE MCProbe ------------------------------
(* Two instances; each host's own ID is among the peers.                   *)
EXTENDS Probe, TLC

CONSTANTS a, b, hostA, hostB

MCInstances == <<a, b>>
MCHostID == a :> hostA @@ b :> hostB
=============================================================================
