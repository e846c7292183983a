---------------------------- MODULE MCDiscovery ----------------------------
(* One peer that leaves our subnets (its vector is short) and drops QUIC   *)
(* with its second ENR, and one that is steady.                            *)
EXTENDS Discovery

CONSTANTS p1, p2, ours

At63 == MakeAttnetsBytes({63})
Both == [fork |-> ours, attnets |-> At63, key |-> TRUE, ip |-> TRUE, quic |-> 9001, tcp |-> 9000]

MCEnrs == (p1 :> <<Both, [Both EXCEPT !.attnets = <<{}>>, !.quic = 0]>>) @@ (p2 :> <<Both>>)

\* The first bit of a byte, the last bit of the vector, and one out of range.
MCSubnets == {8, 63, 64}
=============================================================================
