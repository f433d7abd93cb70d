-------------------------- MODULE MCRoutingTable --------------------------
(* Small instances of RoutingTable for TLC. *)
EXTENDS RoutingTable

CONSTANTS g1, g2, eth0, eth1, lo

MCInterfaces == {eth0, eth1, lo}
MCToUse      == <<eth1, eth0, eth1>>  \* eth1 is named twice and has number 2

R(bases, hops) == {[base |-> b, next_hop |-> h[1], interface |-> h[2]] :
                     b \in bases, h \in hops}

(* Siblings on two levels and their parents between two gateways, the       *)
(* default, a host route that reaches the second gateway through another    *)
(* interface, a direct network in two halves and a network on an interface  *)
(* netmap does not drive.                                                   *)
Mixed == R({<<0>>, <<1>>, <<0, 0>>, <<0, 1>>, <<1, 0>>}, {<<g1, eth0>>})
         \cup R({<<>>, <<0>>, <<1, 0>>}, {<<g2, eth1>>})
         \cup R({<<0, 1, 1, 0>>}, {<<g2, eth0>>})
         \cup R({<<0, 0>>, <<0, 1>>}, {<<None, eth1>>})
         \cup R({<<1>>}, {<<None, lo>>})
=============================================================================
