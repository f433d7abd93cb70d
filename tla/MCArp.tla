------------------------------- MODULE MCArp -------------------------------
(* A next hop and a directly connected host on link 0, a destination behind *)
(* the next hop, and a second link to move to.                              *)
EXTENDS Arp, TLC

CONSTANTS gw, a, far, R0, R1, m1, m2, own0, own1, i0, i1

MCIPs      == [i \in {i0, i1} |-> IF i = i0 THEN <<R0>> ELSE <<R1>>]
MCMac      == [i \in {i0, i1} |-> IF i = i0 THEN own0 ELSE own1]
MCNextHops == {<<gw, i0>>}
MCVia      == (a :> i0) @@ (far :> <<gw, i0>>)
MCPlaces   == {[iface |-> i0, mac |-> m1], [iface |-> i0, mac |-> m2],
               [iface |-> i1, mac |-> m2]}
MCInitAt   == (gw :> [iface |-> i0, mac |-> m1]) @@ (a :> [iface |-> i0, mac |-> m2])
=============================================================================
